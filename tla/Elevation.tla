----------------------------- MODULE Elevation -----------------------------
(***************************************************************************)
(* Privileged access requests (elevation_requests) and tool approvals of   *)
(* the AI agent (ai_tool_executions, approval_requests).                   *)
(*                                                                         *)
(* A request is an intercepted UAC prompt (uac), a technician's request    *)
(* for just-in-time admin rights (jit), a tool call of the helper that     *)
(* needs an administrator (helper), or a tool call of a chat (chat), which *)
(* has no elevation row and may be approved in advance by the mode of its  *)
(* session or with an action plan.  Technicians decide concurrently from   *)
(* the web, the chat and the phone; two jobs and a reaper close what       *)
(* nobody decides; the tool call itself polls for the decision and gives   *)
(* up.                                                                     *)
(*                                                                         *)
(* A handler that reads a row and later writes it is two actions.  A write *)
(* and all that commits with it is one: the row stays locked until then.   *)
(***************************************************************************)
EXTENDS FiniteSets

CONSTANTS
    Requests,
    Users,      \* technicians
    NoOne,
    Rule

ASSUME ElevationAssumption == NoOne \notin Users /\ Rule \notin Users /\ NoOne # Rule

VARIABLES
    flow,       \* the kind of the request; none before it is made
    subject,    \* elevation_requests.subjectUserId
    ingest,     \* status of an intercepted prompt, not committed yet
    status,     \* elevation_requests.status, as committed; none without a row
    over,       \* requests whose expiresAt, or whose pending TTL, has passed
    grantedBy,  \* approvedByUserId, or Rule
    used,       \* requests with an actuate_elevation command
    exec,       \* ai_tool_executions.status, as committed
    waiter,     \* the tool call that waits for the execution row
    late,       \* tool calls that have waited for timeoutMs
    card,       \* approval_requests.status, as committed
    cardOver,   \* approval requests whose expiresAt has passed
    fanOut,     \* the bridge of an intercepted prompt to the phones
    ops,        \* handlers of technicians between their read and their write
    said,       \* history: executions a technician has approved from a chat or a phone
    mode,       \* approvalMode of the session that makes a chat call
    paused,     \* calls whose session is paused (isPaused)
    active,     \* calls whose session has an activePlanId
    proposal,   \* the plan its technician is reviewing: with the call or without
    listed,     \* calls that are a step to come in approvedPlanSteps
    ending,     \* calls whose session is about to clear its plan
    tier,       \* tier of a call that skips its approval
    planned     \* history: calls of the plans a technician has approved

elevationVars == <<subject, status, over, grantedBy, used>>
toolVars == <<exec, waiter, late>>
cardVars == <<card, cardOver, fanOut>>
requestVars == <<flow, ingest, elevationVars, toolVars, cardVars, ops, said>>
chatVars == <<mode, paused, active, proposal, listed, ending, tier, planned>>
vars == <<requestVars, chatVars>>

\* ACTIVE_STATUSES of routes/pam.ts and of the window job.
Active == {"approved", "auto_approved", "actuating"}

\* What resolveDecision and the rules make of a new request.
Verdicts == {"pending", "auto_approved", "denied"}

\* AiApprovalMode; plan is action_plan or hybrid_plan.
Modes == {"per_step", "auto_approve", "plan"}

Init ==
    /\ flow = [r \in Requests |-> "none"]
    /\ subject = [r \in Requests |-> NoOne]
    /\ ingest = [r \in Requests |-> "none"]
    /\ status = [r \in Requests |-> "none"]
    /\ over = {}
    /\ grantedBy = [r \in Requests |-> NoOne]
    /\ used = {}
    /\ exec = [r \in Requests |-> "none"]
    /\ waiter = [r \in Requests |-> "none"]
    /\ late = {}
    /\ card = [r \in Requests |-> "none"]
    /\ cardOver = {}
    /\ fanOut = [r \in Requests |-> "none"]
    /\ ops = {}
    /\ said = {}
    /\ mode = [r \in Requests |-> "none"]
    /\ paused = {}
    /\ active = {}
    /\ proposal = [r \in Requests |-> "none"]
    /\ listed = {}
    /\ ending = {}
    /\ tier = [r \in Requests |-> 0]
    /\ planned = {}

\* The row of request r appears with the status the rules gave it.
Insert(r, v) ==
    /\ status' = [status EXCEPT ![r] = v]
    /\ grantedBy' = [grantedBy EXCEPT ![r] = IF v = "auto_approved" THEN Rule ELSE NoOne]

-----------------------------------------------------------------------------
(* Requests *)

\* POST /agents/:id/elevation-requests inserts the row in the transaction of
\* the request.
IngestInserts(r, v) ==
    /\ flow[r] = "none"
    /\ flow' = [flow EXCEPT ![r] = "uac"]
    /\ ingest' = [ingest EXCEPT ![r] = v]
    /\ UNCHANGED <<elevationVars, toolVars, cardVars, ops, said, chatVars>>

\* fanOutMobileApprovals, on a connection of its own: an approval request
\* refers to the elevation row, so its insert fails unless the row is there.
FanOutMobileApprovals(r) ==
    /\ ingest[r] = "pending"
    /\ fanOut[r] = "none"
    /\ fanOut' = [fanOut EXCEPT ![r] = IF status[r] = "none" THEN "failed" ELSE "sent"]
    /\ UNCHANGED <<flow, ingest, elevationVars, toolVars, card, cardOver, ops, said, chatVars>>

\* The handler returns and the transaction commits; without an eligible
\* technician there was no fan-out.
IngestCommits(r) ==
    /\ ingest[r] # "none"
    /\ Insert(r, ingest[r])
    /\ ingest' = [ingest EXCEPT ![r] = "none"]
    /\ UNCHANGED <<flow, subject, over, used, toolVars, cardVars>>
    /\ UNCHANGED <<ops, said, chatVars>>

\* The transaction rolls back: the request leaves no row.
IngestFails(r) ==
    /\ ingest[r] # "none"
    /\ ingest' = [ingest EXCEPT ![r] = "none"]
    /\ UNCHANGED <<flow, elevationVars, toolVars, cardVars, ops, said, chatVars>>

\* The request_elevation tool: the subject is the technician who asks.
RequestElevation(u, r, v) ==
    /\ flow[r] = "none"
    /\ flow' = [flow EXCEPT ![r] = "jit"]
    /\ subject' = [subject EXCEPT ![r] = u]
    /\ Insert(r, v)
    /\ UNCHANGED <<ingest, over, used, toolVars, cardVars>>
    /\ UNCHANGED <<ops, said, chatVars>>

\* The helper calls a tool: the execution row is committed before the rules
\* are asked.
HelperCalls(r) ==
    /\ flow[r] = "none"
    /\ flow' = [flow EXCEPT ![r] = "helper"]
    /\ exec' = [exec EXCEPT ![r] = "pending"]
    /\ waiter' = [waiter EXCEPT ![r] = "deciding"]
    /\ UNCHANGED <<ingest, elevationVars, late, cardVars, ops, said, chatVars>>

\* mirrorElevationDecisionToExecution: only a pending execution is decided.
Mirror(r, yes) ==
    IF exec[r] = "pending"
    THEN exec' = [exec EXCEPT ![r] = IF yes THEN "approved" ELSE "rejected"]
    ELSE UNCHANGED exec

\* decideInContext: the elevation row and the mirrored verdict of a rule; a
\* denied call returns, any other waits.
DecideHelperToolAction(r, v) ==
    /\ waiter[r] = "deciding"
    /\ Insert(r, v)
    /\ IF v = "pending" THEN UNCHANGED exec ELSE Mirror(r, v = "auto_approved")
    /\ waiter' = [waiter EXCEPT ![r] = IF v = "denied" THEN "refused" ELSE "waiting"]
    /\ UNCHANGED <<flow, ingest, subject, over, used, late, cardVars, ops, said, chatVars>>

\* Any error there leaves no row and counts as pending.
DecisionFails(r) ==
    /\ waiter[r] = "deciding"
    /\ waiter' = [waiter EXCEPT ![r] = "waiting"]
    /\ UNCHANGED <<flow, ingest, elevationVars, exec, late, cardVars, ops, said, chatVars>>

-----------------------------------------------------------------------------
(* Chats; each call with its session, up to the moment it is made: nothing *)
(* the session does later bears on it                                      *)

Open(r) == flow[r] = "chat" /\ waiter[r] = "none"

\* A session with the approval mode of its organization, not paused.
ChatOpens(r, m) ==
    /\ flow[r] = "none"
    /\ flow' = [flow EXCEPT ![r] = "chat"]
    /\ mode' = [mode EXCEPT ![r] = m]
    /\ UNCHANGED <<ingest, elevationVars, toolVars, cardVars, ops, said>>
    /\ UNCHANGED <<paused, active, proposal, listed, ending, tier, planned>>

\* The propose_action_plan tool: the plan is active before it is approved.
ProposeActionPlan(r, p) ==
    /\ Open(r)
    /\ proposal[r] = "none"
    /\ proposal' = [proposal EXCEPT ![r] = p]
    /\ active' = active \cup {r}
    /\ UNCHANGED <<requestVars, mode, paused, listed, ending, tier, planned>>

\* The technician approves: its steps replace those of the last approved plan.
\* Whether the plan is still the active one is not looked at.
PlanApproved(r) ==
    /\ Open(r)
    /\ proposal[r] # "none"
    /\ proposal' = [proposal EXCEPT ![r] = "none"]
    /\ listed' = IF proposal[r] = "with" THEN listed \cup {r} ELSE listed \ {r}
    /\ planned' = IF proposal[r] = "with" THEN planned \cup {r} ELSE planned
    /\ UNCHANGED <<requestVars, mode, paused, active, ending, tier>>

\* The technician rejects, or ten minutes pass: the steps of the last approved
\* plan stay where they are.
PlanRejected(r) ==
    /\ Open(r)
    /\ proposal[r] # "none"
    /\ proposal' = [proposal EXCEPT ![r] = "none"]
    /\ active' = active \ {r}
    /\ UNCHANGED <<requestVars, mode, paused, listed, ending, tier, planned>>

\* The pause route; a pause begins to abort the active plan.
PauseSession(r, p) ==
    /\ Open(r)
    /\ paused' = IF p THEN paused \cup {r} ELSE paused \ {r}
    /\ ending' = IF p /\ r \in active THEN ending \cup {r} ELSE ending
    /\ UNCHANGED <<requestVars, mode, active, proposal, listed, tier, planned>>

\* The plan's row is written before the session forgets its plan.
StartsEnding(r) ==
    /\ ending' = ending \cup {r}
    /\ UNCHANGED <<requestVars, mode, paused, active, proposal, listed, tier, planned>>

\* The abort-plan route finds an active plan, approved or not.
AbortPlan(r) ==
    /\ Open(r)
    /\ r \in active
    /\ StartsEnding(r)

\* Another tool of the session has run and no step is left: a plan that has not
\* been approved yet has none.
PlanCompletes(r) ==
    /\ Open(r)
    /\ r \in active \ listed
    /\ StartsEnding(r)

\* The write has returned: the session forgets whatever plan it has by now.
PlanEnds(r) ==
    /\ Open(r)
    /\ r \in ending
    /\ active' = active \ {r}
    /\ listed' = listed \ {r}
    /\ ending' = ending \ {r}
    /\ UNCHANGED <<requestVars, mode, paused, proposal, tier, planned>>

\* Mutant of Shortcut: a paused session keeps its mode.
ShortcutConfigured(r, t) ==
    \/ mode[r] = "auto_approve" /\ t = 2
    \/ mode[r] = "plan" /\ r \in active /\ r \in listed

\* The effective mode lets a call of tier t run without asking for it: a paused
\* session asks for every step.
Shortcut(r, t) ==
    /\ r \notin paused
    /\ \/ mode[r] = "auto_approve" /\ t = 2
       \/ mode[r] = "plan" /\ r \in active /\ r \in listed

\* Such a call runs once its execution row is inserted as 'executing', and is
\* refused when that fails.
ChatSkips(r, t, inserted) ==
    /\ Open(r)
    /\ Shortcut(r, t)
    /\ tier' = [tier EXCEPT ![r] = t]
    /\ exec' = IF inserted THEN [exec EXCEPT ![r] = "executing"] ELSE exec
    /\ waiter' = [waiter EXCEPT ![r] = IF inserted THEN "ran" ELSE "refused"]
    /\ UNCHANGED <<flow, ingest, elevationVars, late, cardVars, ops, said>>
    /\ UNCHANGED <<mode, paused, active, proposal, listed, ending, planned>>

\* Any other call asks: a tool of a higher tier, or a step that is not the next
\* of its plan.  An execution row, and a card for the phone of the user unless
\* its insert fails; the session no longer matters.
ChatCalls(r, c) ==
    /\ Open(r)
    /\ exec' = [exec EXCEPT ![r] = "pending"]
    /\ card' = [card EXCEPT ![r] = c]
    /\ waiter' = [waiter EXCEPT ![r] = "waiting"]
    /\ mode' = [mode EXCEPT ![r] = "none"]
    /\ proposal' = [proposal EXCEPT ![r] = "none"]
    /\ paused' = paused \ {r}
    /\ active' = active \ {r}
    /\ listed' = listed \ {r}
    /\ ending' = ending \ {r}
    /\ UNCHANGED <<flow, ingest, elevationVars, late, cardOver, fanOut, ops, said>>
    /\ UNCHANGED <<tier, planned>>

-----------------------------------------------------------------------------
(* Technicians; one request of each is in flight at a time *)

Free(u) == \A o \in ops : o.user # u

\* A handler has passed the checks on what it has read.
Reads(kind, u, r, yes) ==
    /\ Free(u)
    /\ ops' = ops \cup {[kind |-> kind, user |-> u, request |-> r, yes |-> yes]}
    /\ UNCHANGED <<flow, ingest, elevationVars, toolVars, cardVars, said, chatVars>>

\* POST /pam/elevation-requests/:id/respond up to its update: the subject of a
\* request may deny it, not approve it.
RespondReads(u, r, yes) ==
    /\ status[r] # "none"
    /\ yes => subject[r] # u
    /\ Reads("respond", u, r, yes)

\* The decision as stored; an approval starts a new window.
Decide(o) ==
    /\ status' = [status EXCEPT ![o.request] = IF o.yes THEN "approved" ELSE "denied"]
    /\ grantedBy' = [grantedBy EXCEPT ![o.request] = IF o.yes THEN o.user ELSE @]
    /\ over' = over \ {o.request}

\* Mutant of RespondDecides: the execution is left to a later write.
RespondDecidesNoMirror(o) ==
    /\ o.kind = "respond"
    /\ IF status[o.request] = "pending" THEN Decide(o) ELSE UNCHANGED <<status, grantedBy, over>>
    /\ ops' = ops \ {o}
    /\ UNCHANGED <<flow, ingest, subject, used, toolVars, cardVars, said, chatVars>>

\* The update of a request that is still pending, with the mirrored execution
\* of a tool call; an execution that is no longer pending rolls it back.
RespondDecides(o) ==
    /\ o.kind = "respond"
    /\ IF /\ status[o.request] = "pending"
          /\ flow[o.request] = "helper" => exec[o.request] = "pending"
       THEN /\ Decide(o)
            /\ IF flow[o.request] = "helper" THEN Mirror(o.request, o.yes) ELSE UNCHANGED exec
       ELSE UNCHANGED <<status, grantedBy, over, exec>>
    /\ ops' = ops \ {o}
    /\ UNCHANGED <<flow, ingest, subject, used, waiter, late, cardVars, said, chatVars>>

\* The revoke route and the revoke_elevation tool; nothing they read before the
\* guarded update can change.
Revoke(r) ==
    /\ status[r] \in Active
    /\ status' = [status EXCEPT ![r] = "revoked"]
    /\ UNCHANGED <<flow, ingest, subject, over, grantedBy, used, toolVars, cardVars>>
    /\ UNCHANGED <<ops, said, chatVars>>

\* POST /devices/:id/actuate-elevation up to its update.
ActuateReads(u, r) ==
    /\ status[r] = "approved"
    /\ Reads("actuate", u, r, TRUE)

\* Mutant of ActuateClaims: the command is queued although the claim found no
\* approved row.
ActuateClaimsRaceLost(o) ==
    /\ o.kind = "actuate"
    /\ status' = [status EXCEPT ![o.request] = IF @ = "approved" THEN "actuating" ELSE @]
    /\ used' = used \cup {o.request}
    /\ ops' = ops \ {o}
    /\ UNCHANGED <<flow, ingest, subject, over, grantedBy, toolVars, cardVars, said, chatVars>>

\* The claim approved -> actuating and the command of the agent; whoever loses
\* the race queues nothing.
ActuateClaims(o) ==
    /\ o.kind = "actuate"
    /\ IF status[o.request] = "approved"
       THEN /\ status' = [status EXCEPT ![o.request] = "actuating"]
            /\ used' = used \cup {o.request}
       ELSE UNCHANGED <<status, used>>
    /\ ops' = ops \ {o}
    /\ UNCHANGED <<flow, ingest, subject, over, grantedBy, toolVars, cardVars, said, chatVars>>

\* handleApproval, from the chat: the execution was pending when it was read.
ChatReads(u, r, yes) ==
    /\ exec[r] = "pending"
    /\ Reads("chat", u, r, yes)

\* Its update does not look at the status again.
ChatDecides(o) ==
    /\ o.kind = "chat"
    /\ exec' = [exec EXCEPT ![o.request] = IF o.yes THEN "approved" ELSE "rejected"]
    /\ said' = IF o.yes THEN said \cup {o.request} ELSE said
    /\ ops' = ops \ {o}
    /\ UNCHANGED <<flow, ingest, elevationVars, waiter, late, cardVars, chatVars>>

\* decideHandler, from the phone, up to its update.
CardReads(u, r, yes) ==
    /\ card[r] = "pending"
    /\ r \notin cardOver
    /\ Reads("card", u, r, yes)

\* The card is decided while it is pending and not expired, and the execution
\* follows whatever its status.
CardDecides(o) ==
    /\ o.kind = "card"
    /\ IF card[o.request] = "pending" /\ o.request \notin cardOver
       THEN /\ card' = [card EXCEPT ![o.request] = IF o.yes THEN "approved" ELSE "denied"]
            /\ exec' = [exec EXCEPT ![o.request] = IF o.yes THEN "approved" ELSE "rejected"]
            /\ said' = IF o.yes THEN said \cup {o.request} ELSE said
       ELSE UNCHANGED <<card, exec, said>>
    /\ ops' = ops \ {o}
    /\ UNCHANGED <<flow, ingest, elevationVars, waiter, late, cardOver, fanOut, chatVars>>

\* report-suspicious up to its update.
ReportReads(u, r) ==
    /\ card[r] = "pending"
    /\ Reads("report", u, r, FALSE)

\* Card and execution are overwritten whatever their status.
ReportWrites(o) ==
    /\ o.kind = "report"
    /\ card' = [card EXCEPT ![o.request] = "reported"]
    /\ exec' = [exec EXCEPT ![o.request] = "rejected"]
    /\ ops' = ops \ {o}
    /\ UNCHANGED <<flow, ingest, elevationVars, waiter, late, cardOver, fanOut, said, chatVars>>

\* A handler fails, or its server dies, before its write commits.
HandlerFails(o) ==
    /\ ops' = ops \ {o}
    /\ UNCHANGED <<flow, ingest, elevationVars, toolVars, cardVars, said, chatVars>>

-----------------------------------------------------------------------------
(* The tool call that waits (waitForApproval) *)

Stops(r, how) == waiter' = [waiter EXCEPT ![r] = how]

\* A poll finds a decision.
PollSees(r) ==
    /\ waiter[r] = "waiting"
    /\ exec[r] \in {"approved", "rejected"}
    /\ Stops(r, IF exec[r] = "approved" THEN "cleared" ELSE "refused")
    /\ UNCHANGED <<flow, ingest, elevationVars, exec, late, cardVars, ops, said, chatVars>>

\* The tool runs; the row is marked 'executing' unless that update fails.
ToolRuns(r, marked) ==
    /\ waiter[r] = "cleared"
    /\ Stops(r, "ran")
    /\ exec' = IF marked THEN [exec EXCEPT ![r] = "executing"] ELSE exec
    /\ UNCHANGED <<flow, ingest, elevationVars, late, cardVars, ops, said, chatVars>>

\* The time is up: the row is rejected, whatever its status, unless that update
\* fails.
GivesUp(r, marked) ==
    /\ waiter[r] = "waiting"
    /\ r \in late
    /\ Stops(r, "refused")
    /\ exec' = IF marked THEN [exec EXCEPT ![r] = "rejected"] ELSE exec
    /\ UNCHANGED <<flow, ingest, elevationVars, late, cardVars, ops, said, chatVars>>

\* Five polls in a row fail: the same.
PollsFail(r, marked) ==
    /\ waiter[r] = "waiting"
    /\ Stops(r, "refused")
    /\ exec' = IF marked THEN [exec EXCEPT ![r] = "rejected"] ELSE exec
    /\ UNCHANGED <<flow, ingest, elevationVars, late, cardVars, ops, said, chatVars>>

\* The session is aborted: the call returns and writes nothing.
Aborts(r) ==
    /\ waiter[r] = "waiting"
    /\ Stops(r, "refused")
    /\ UNCHANGED <<flow, ingest, elevationVars, exec, late, cardVars, ops, said, chatVars>>

-----------------------------------------------------------------------------
(* Jobs *)

\* Mutant of EnforceElevationExpiry: a claimed elevation is left alone.
EnforceElevationExpiryApproved(r) ==
    /\ status[r] \in {"approved", "auto_approved"}
    /\ r \in over
    /\ status' = [status EXCEPT ![r] = "expired"]
    /\ UNCHANGED <<flow, ingest, subject, over, grantedBy, used, toolVars, cardVars>>
    /\ UNCHANGED <<ops, said, chatVars>>

\* enforceElevationExpiry: the window of a granted request has passed.
EnforceElevationExpiry(r) ==
    /\ status[r] \in Active
    /\ r \in over
    /\ status' = [status EXCEPT ![r] = "expired"]
    /\ UNCHANGED <<flow, ingest, subject, over, grantedBy, used, toolVars, cardVars>>
    /\ UNCHANGED <<ops, said, chatVars>>

\* Mutant of ExpireStaleRequests: requests of the helper are left to their
\* tool call.
ExpireStaleRequestsNotHelper(r) ==
    /\ status[r] = "pending"
    /\ flow[r] # "helper"
    /\ r \in over
    /\ status' = [status EXCEPT ![r] = "expired"]
    /\ UNCHANGED <<flow, ingest, subject, over, grantedBy, used, toolVars, cardVars>>
    /\ UNCHANGED <<ops, said, chatVars>>

\* expireStaleRequests: a request has been pending for longer than its TTL.
ExpireStaleRequests(r) ==
    /\ status[r] = "pending"
    /\ r \in over
    /\ status' = [status EXCEPT ![r] = "expired"]
    /\ UNCHANGED <<flow, ingest, subject, over, grantedBy, used, toolVars, cardVars>>
    /\ UNCHANGED <<ops, said, chatVars>>

\* Mutant of ReapExpiredApprovals: a card is reaped with its pending execution
\* or not at all.
ReapExpiredApprovalsBoth(r) ==
    /\ card[r] = "pending"
    /\ r \in cardOver
    /\ exec[r] = "pending"
    /\ card' = [card EXCEPT ![r] = "expired"]
    /\ Mirror(r, FALSE)
    /\ UNCHANGED <<flow, ingest, elevationVars, waiter, late, cardOver, fanOut>>
    /\ UNCHANGED <<ops, said, chatVars>>

\* reapExpiredApprovals: an expired card, and its execution if still pending.
ReapExpiredApprovals(r) ==
    /\ card[r] = "pending"
    /\ r \in cardOver
    /\ card' = [card EXCEPT ![r] = "expired"]
    /\ Mirror(r, FALSE)
    /\ UNCHANGED <<flow, ingest, elevationVars, waiter, late, cardOver, fanOut>>
    /\ UNCHANGED <<ops, said, chatVars>>

-----------------------------------------------------------------------------
(* Time *)

\* expiresAt of a granted request, or the TTL of a pending one, passes.
WindowPasses(r) ==
    /\ status[r] \in Active \cup {"pending"}
    /\ r \notin over
    /\ over' = over \cup {r}
    /\ UNCHANGED <<flow, ingest, subject, status, grantedBy, used, toolVars, cardVars>>
    /\ UNCHANGED <<ops, said, chatVars>>

\* expiresAt of a card passes.
CardPasses(r) ==
    /\ card[r] # "none"
    /\ r \notin cardOver
    /\ cardOver' = cardOver \cup {r}
    /\ UNCHANGED <<flow, ingest, elevationVars, toolVars, card, fanOut, ops, said, chatVars>>

\* timeoutMs passes.  A card is as long but older: it has expired by then.
DeadlinePasses(r) ==
    /\ waiter[r] = "waiting"
    /\ card[r] # "none" => r \in cardOver
    /\ r \notin late
    /\ late' = late \cup {r}
    /\ UNCHANGED <<flow, ingest, elevationVars, exec, waiter, cardVars, ops, said, chatVars>>

-----------------------------------------------------------------------------
Technician(u) ==
    \/ \E r \in Requests, v \in Verdicts : RequestElevation(u, r, v)
    \/ \E r \in Requests, yes \in BOOLEAN :
           RespondReads(u, r, yes) \/ ChatReads(u, r, yes) \/ CardReads(u, r, yes)
    \/ \E r \in Requests : ActuateReads(u, r) \/ ReportReads(u, r)

Handler(o) ==
    \/ RespondDecides(o)
    \/ ActuateClaims(o)
    \/ ChatDecides(o)
    \/ CardDecides(o)
    \/ ReportWrites(o)
    \/ HandlerFails(o)

Agent(r) ==
    \/ \E v \in Verdicts : IngestInserts(r, v)
    \/ FanOutMobileApprovals(r)
    \/ IngestCommits(r)
    \/ IngestFails(r)

ToolCall(r) ==
    \/ HelperCalls(r)
    \/ \E v \in Verdicts : DecideHelperToolAction(r, v)
    \/ DecisionFails(r)
    \/ PollSees(r)
    \/ \E marked \in BOOLEAN : ToolRuns(r, marked) \/ GivesUp(r, marked) \/ PollsFail(r, marked)
    \/ Aborts(r)

Chat(r) ==
    \/ \E m \in Modes : ChatOpens(r, m)
    \/ \E p \in {"with", "without"} : ProposeActionPlan(r, p)
    \/ PlanApproved(r)
    \/ PlanRejected(r)
    \/ \E p \in BOOLEAN : PauseSession(r, p)
    \/ AbortPlan(r)
    \/ PlanCompletes(r)
    \/ PlanEnds(r)
    \/ \E t \in {2, 3}, inserted \in BOOLEAN : ChatSkips(r, t, inserted)
    \/ \E c \in {"none", "pending"} : ChatCalls(r, c)

Job(r) ==
    \/ EnforceElevationExpiry(r)
    \/ ExpireStaleRequests(r)
    \/ ReapExpiredApprovals(r)

Time(r) ==
    \/ WindowPasses(r)
    \/ CardPasses(r)
    \/ DeadlinePasses(r)

Next ==
    \/ \E u \in Users : Technician(u)
    \/ \E o \in ops : Handler(o)
    \/ \E r \in Requests : Agent(r) \/ Revoke(r) \/ Chat(r) \/ ToolCall(r) \/ Job(r) \/ Time(r)

Spec == Init /\ [][Next]_vars

\* Time passes, the repeatable jobs keep running and a tool call keeps polling.
\* Nobody has to answer.
Fairness ==
    \A r \in Requests :
        /\ WF_vars(WindowPasses(r))
        /\ WF_vars(CardPasses(r))
        /\ WF_vars(DeadlinePasses(r))
        /\ WF_vars(EnforceElevationExpiry(r))
        /\ WF_vars(ExpireStaleRequests(r))
        /\ WF_vars(ReapExpiredApprovals(r))
        /\ WF_vars(PollSees(r))
        /\ WF_vars(\E marked \in BOOLEAN : ToolRuns(r, marked))
        /\ WF_vars(\E marked \in BOOLEAN : GivesUp(r, marked))
        /\ WF_vars(DecisionFails(r) \/ \E v \in Verdicts : DecideHelperToolAction(r, v))

FairSpec == Spec /\ Fairness

-----------------------------------------------------------------------------
(* Properties *)

\* The statuses are those of the three tables, and a handler in flight belongs
\* to one technician and one request.
RequestTypes ==
    /\ flow \in [Requests -> {"none", "uac", "jit", "helper", "chat"}]
    /\ subject \in [Requests -> Users \cup {NoOne}]
    /\ ingest \in [Requests -> Verdicts \cup {"none"}]
    /\ status \in [Requests -> Active \cup {"none", "pending", "denied", "revoked", "expired"}]
    /\ over \subseteq Requests
    /\ grantedBy \in [Requests -> Users \cup {NoOne, Rule}]
    /\ used \subseteq Requests
    /\ exec \in [Requests -> {"none", "pending", "approved", "rejected", "executing"}]
    /\ waiter \in [Requests -> {"none", "deciding", "waiting", "cleared", "refused", "ran"}]
    /\ late \subseteq Requests
    /\ card \in [Requests -> {"none", "pending", "approved", "denied", "reported", "expired"}]
    /\ cardOver \subseteq Requests
    /\ fanOut \in [Requests -> {"none", "failed", "sent"}]
    /\ ops \subseteq [kind : {"respond", "actuate", "chat", "card", "report"},
                      user : Users, request : Requests, yes : BOOLEAN]
    /\ said \subseteq Requests
    /\ \A o, p \in ops : o.user = p.user => o = p

\* The state of the session of each chat call.
ChatTypes ==
    /\ mode \in [Requests -> Modes \cup {"none"}]
    /\ paused \subseteq Requests
    /\ active \subseteq Requests
    /\ proposal \in [Requests -> {"none", "with", "without"}]
    /\ listed \subseteq Requests
    /\ ending \subseteq Requests
    /\ tier \in [Requests -> {0, 2, 3}]
    /\ planned \subseteq Requests

\* The types of all variables.
TypeOK == RequestTypes /\ ChatTypes

\* The elevation statuses as OneGrant sees them.
Phase(s) ==
    CASE s = "none" -> "none"
      [] s = "pending" -> "open"
      [] s \in Active -> "granted"
      [] s = "denied" -> "refused"
      [] OTHER -> "ended"

Grants == INSTANCE OneGrant WITH phase <- [r \in Requests |-> Phase(status[r])]

\* The respond, revoke and actuate routes, the rules and the two jobs together
\* implement OneGrant: one decision for each request, never by its subject,
\* and one command for each approval.
GrantSpec == Grants!Spec

\* The organization, or the technician with a plan, has approved a call of the
\* chat in advance: the session was not paused when the call was made, and it
\* runs its tools of tier 2 unasked or a plan with this step was approved.
InAdvance(r) ==
    /\ flow[r] = "chat"
    /\ r \notin paused
    /\ \/ mode[r] = "auto_approve" /\ tier[r] = 2
       \/ mode[r] = "plan" /\ r \in planned

\* A tool runs only if a rule or a technician has approved that very call, on
\* the elevation row, in the chat or on the phone, or if the mode of an unpaused
\* chat has approved it in advance; a call of the helper never has the latter.
ToolRunsApproved ==
    \A r \in Requests :
        waiter[r] \in {"cleared", "ran"} =>
            r \in said \/ grantedBy[r] # NoOne \/ InAdvance(r)

\* What the elevation row of a helper's tool call and its execution row say fits
\* together: an approved elevation never has a pending execution, so the call
\* does not wait for a decision that has been taken.
MirrorAgrees ==
    \A r \in Requests :
        /\ flow[r] = "helper"
        /\ \/ grantedBy[r] # NoOne
           \/ status[r] = "denied"
        => exec[r] # "pending"

\* What the rows of a request say of each other at any moment: no row without
\* its request, an approved elevation that a technician signed and no command
\* was queued for, an approved execution somebody approved, and no plan step to
\* come that no technician approved.
RowsAgree(r) ==
    /\ flow[r] = "none" => status[r] = "none" /\ ingest[r] = "none" /\ waiter[r] = "none"
    /\ ingest[r] # "none" => status[r] = "none" /\ flow[r] = "uac"
    /\ waiter[r] = "none" => exec[r] = "none" /\ card[r] = "none"
    /\ waiter[r] = "deciding" => status[r] = "none" /\ flow[r] = "helper"
    /\ waiter[r] # "none" => flow[r] \in {"helper", "chat"}
    /\ status[r] = "none" => subject[r] = NoOne /\ grantedBy[r] = NoOne
    /\ status[r] \in {"none", "pending", "approved"} => r \notin used
    /\ status[r] = "approved" => grantedBy[r] \in Users
    /\ exec[r] \in {"approved", "executing"} =>
        r \in said \/ grantedBy[r] # NoOne \/ InAdvance(r)
    /\ r \in listed => r \in planned

\* What still holds when a handler in flight writes: its request, its tool call,
\* and an approval that is not the subject's.
ReadHolds(o) ==
    /\ flow[o.request] # "none"
    /\ o.kind \in {"chat", "card", "report"} => waiter[o.request] # "none"
    /\ o.kind = "respond" =>
        /\ status[o.request] # "none"
        /\ o.yes => subject[o.request] # o.user

\* The three tables, the sessions and the handlers in flight agree at any moment.
DecisionInv ==
    /\ TypeOK
    /\ \A r \in Requests : RowsAgree(r)
    /\ \A o \in ops : ReadHolds(o)
    /\ ToolRunsApproved
    /\ MirrorAgrees

\* Every granted request ends: the window job expires what nobody revokes.
GrantsEnd == \A r \in Requests : status[r] \in Active ~> status[r] \notin Active

\* Every pending request is closed: the stale job expires what nobody decides.
PendingCloses == \A r \in Requests : status[r] = "pending" ~> status[r] # "pending"

\* Every tool call that waits for an approval runs or is refused, and its card
\* leaves the phone.
ToolCallEnds ==
    \A r \in Requests :
        /\ waiter[r] = "waiting" ~> waiter[r] \in {"ran", "refused"}
        /\ card[r] = "pending" ~> card[r] # "pending"

\* "Approve or reject a pending tool execution": a rejected execution is not
\* approved afterwards.
RejectedStaysRejected ==
    [][\A r \in Requests : exec[r] = "rejected" => exec'[r] # "approved"]_vars

\* "the elevation row is already committed" when the bridge to the phones
\* inserts approval requests that refer to it.
FanOutAfterCommit == \A r \in Requests : fanOut[r] # "failed"
=============================================================================
