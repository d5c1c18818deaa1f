-------------------------- MODULE ElevationLemmas --------------------------
(***************************************************************************)
(* Lemmas about Elevation: which steps keep the inductive invariant        *)
(* DecisionInv, whatever part takes them, and those of the requests of     *)
(* the agent and of the chats.                                             *)
(***************************************************************************)
EXTENDS Elevation, TLAPS

\* There is nothing yet.
LEMMA InitHolds == Init => DecisionInv
  BY DEF Init, DecisionInv, RowsAgree, ReadHolds, TypeOK, RequestTypes, ChatTypes,
     ToolRunsApproved, InAdvance, MirrorAgrees, Active, Verdicts, Modes

\* A step that leaves the sessions alone keeps their types.
LEMMA ChatStays == ASSUME DecisionInv, UNCHANGED chatVars PROVE ChatTypes'
  BY DEF DecisionInv, TypeOK, ChatTypes, chatVars

\* A step of a session alone keeps the types of everything else.
LEMMA RequestsStay == ASSUME DecisionInv, UNCHANGED requestVars PROVE RequestTypes'
  BY DEF DecisionInv, TypeOK, RequestTypes, requestVars, elevationVars, toolVars, cardVars

\* A step that changes nothing the invariant relates, beyond ending handlers,
\* keeps it if it keeps the types.
LEMMA InvStays ==
    ASSUME DecisionInv, TypeOK', ops' \subseteq ops,
           UNCHANGED <<flow, ingest, subject, status, grantedBy, used, exec, waiter, card>>,
           UNCHANGED <<said, mode, paused, listed, tier, planned>>
    PROVE  DecisionInv'
<1>1. ASSUME NEW q \in Requests PROVE RowsAgree(q)'
  BY DEF DecisionInv, RowsAgree, InAdvance
<1>2. ASSUME NEW p \in ops' PROVE ReadHolds(p)'
  BY DEF DecisionInv, ReadHolds
<1>3. ToolRunsApproved' /\ MirrorAgrees'
  BY DEF DecisionInv, ToolRunsApproved, InAdvance, MirrorAgrees
<1> QED
  BY <1>1, <1>2, <1>3 DEF DecisionInv

\* A pending or granted row is closed, by hand or by a job.
LEMMA CloseKeepsInv ==
    ASSUME DecisionInv, NEW r \in Requests, NEW v \in {"revoked", "expired"},
           status[r] \in Active \cup {"pending"}, status' = [status EXCEPT ![r] = v],
           UNCHANGED <<flow, ingest, subject, over, grantedBy, used, toolVars, cardVars>>,
           UNCHANGED <<ops, said, chatVars>>
    PROVE  DecisionInv'
<1>1. TypeOK'
  BY ChatStays DEF DecisionInv, TypeOK, RequestTypes, elevationVars, toolVars, cardVars,
     chatVars, Active, Verdicts
<1>2. ASSUME NEW q \in Requests PROVE RowsAgree(q)'
  BY DEF DecisionInv, TypeOK, RequestTypes, RowsAgree, InAdvance, elevationVars, toolVars,
     cardVars, chatVars, Active
<1>3. ASSUME NEW p \in ops' PROVE ReadHolds(p)'
  BY DEF DecisionInv, TypeOK, RequestTypes, RowsAgree, ReadHolds, elevationVars, toolVars,
     cardVars, chatVars
<1>4. ToolRunsApproved' /\ MirrorAgrees'
  BY DEF DecisionInv, TypeOK, RequestTypes, RowsAgree, ToolRunsApproved, InAdvance,
     MirrorAgrees, elevationVars, toolVars, cardVars, chatVars, Active
<1> QED
  BY <1>1, <1>2, <1>3, <1>4 DEF DecisionInv

\* A tool call stops waiting and is refused, with or without its row.
LEMMA RefuseKeepsInv ==
    ASSUME DecisionInv, NEW r \in Requests, waiter[r] = "waiting", Stops(r, "refused"),
           exec' = exec \/ exec' = [exec EXCEPT ![r] = "rejected"],
           UNCHANGED <<flow, ingest, elevationVars, late, cardVars, ops, said, chatVars>>
    PROVE  DecisionInv'
<1>1. TypeOK'
  BY ChatStays DEF DecisionInv, TypeOK, RequestTypes, Stops, elevationVars, toolVars,
     cardVars, chatVars, Active, Verdicts
<1>2. ASSUME NEW q \in Requests PROVE RowsAgree(q)'
  BY DEF DecisionInv, TypeOK, RequestTypes, RowsAgree, InAdvance, Stops, elevationVars,
     toolVars, cardVars, chatVars
<1>3. ASSUME NEW p \in ops' PROVE ReadHolds(p)'
  BY DEF DecisionInv, TypeOK, RequestTypes, RowsAgree, ReadHolds, Stops, elevationVars,
     toolVars, cardVars, chatVars
<1>4. ToolRunsApproved' /\ MirrorAgrees'
  BY DEF DecisionInv, TypeOK, RequestTypes, RowsAgree, ToolRunsApproved, InAdvance,
     MirrorAgrees, Stops, elevationVars, toolVars, cardVars, chatVars
<1> QED
  BY <1>1, <1>2, <1>3, <1>4 DEF DecisionInv

\* A handler writes its decision into the execution row of a tool call.
LEMMA WriteKeepsInv ==
    ASSUME DecisionInv, NEW o \in ops, o.kind \in {"chat", "card", "report"},
           NEW yes \in BOOLEAN, TypeOK', ops' = ops \ {o},
           exec' = [exec EXCEPT ![o.request] = IF yes THEN "approved" ELSE "rejected"],
           said' = IF yes THEN said \cup {o.request} ELSE said,
           \A q \in Requests \ {o.request} : card'[q] = card[q],
           UNCHANGED <<flow, ingest, elevationVars, waiter, chatVars>>
    PROVE  DecisionInv'
<1>0. o.request \in Requests /\ waiter[o.request] # "none"
  BY DEF DecisionInv, TypeOK, RequestTypes, ReadHolds
<1>1. ASSUME NEW q \in Requests PROVE RowsAgree(q)'
  BY <1>0 DEF DecisionInv, TypeOK, RequestTypes, RowsAgree, InAdvance, elevationVars, chatVars
<1>2. ASSUME NEW p \in ops' PROVE ReadHolds(p)'
  BY DEF DecisionInv, ReadHolds, elevationVars
<1>3. ToolRunsApproved'
  BY DEF DecisionInv, ToolRunsApproved, InAdvance, elevationVars, chatVars
<1>4. MirrorAgrees'
  BY <1>0 DEF DecisionInv, TypeOK, RequestTypes, MirrorAgrees, elevationVars
<1> QED
  BY <1>1, <1>2, <1>3, <1>4 DEF DecisionInv

\* DecisionInv when a handler of a technician has read what it needs.
LEMMA ReadsKeepsInv ==
    ASSUME DecisionInv, NEW u \in Users, NEW r \in Requests, NEW yes \in BOOLEAN,
           NEW kind \in {"respond", "actuate", "chat", "card", "report"},
           Reads(kind, u, r, yes), flow[r] # "none",
           kind \in {"chat", "card", "report"} => waiter[r] # "none",
           kind = "respond" => status[r] # "none" /\ (yes => subject[r] # u)
    PROVE  DecisionInv'
<1>1. TypeOK'
  BY ChatStays DEF DecisionInv, TypeOK, RequestTypes, Reads, Free, elevationVars, toolVars,
     cardVars, chatVars, Active, Verdicts
<1>2. ASSUME NEW q \in Requests PROVE RowsAgree(q)'
  BY DEF DecisionInv, TypeOK, RequestTypes, RowsAgree, InAdvance, Reads, Free, elevationVars,
     toolVars, cardVars, chatVars
<1>3. ASSUME NEW p \in ops' PROVE ReadHolds(p)'
  BY DEF DecisionInv, TypeOK, RequestTypes, RowsAgree, ReadHolds, Reads, Free, elevationVars,
     toolVars, cardVars, chatVars
<1>4. ToolRunsApproved' /\ MirrorAgrees'
  BY DEF DecisionInv, TypeOK, RequestTypes, RowsAgree, ToolRunsApproved, InAdvance,
     MirrorAgrees, Reads, Free, elevationVars, toolVars, cardVars, chatVars
<1> QED
  BY <1>1, <1>2, <1>3, <1>4 DEF DecisionInv

\* DecisionInv under the steps of the requests of the agent.
LEMMA AgentKeepsInv ==
    ASSUME DecisionInv, NEW r \in Requests, Agent(r)
    PROVE  DecisionInv'
<1> USE ElevationAssumption
<1>1. ASSUME NEW v \in Verdicts, IngestInserts(r, v)
      PROVE  DecisionInv'
  <2>1. TypeOK'
    BY <1>1, ChatStays, SMTT(20) DEF DecisionInv, TypeOK, RequestTypes, IngestInserts, elevationVars,
       toolVars, cardVars, chatVars, Active, Verdicts
  <2>2. ASSUME NEW q \in Requests PROVE RowsAgree(q)'
    BY <1>1 DEF DecisionInv, TypeOK, RequestTypes, RowsAgree, InAdvance, IngestInserts,
       elevationVars, toolVars, cardVars, chatVars
  <2>3. ASSUME NEW p \in ops' PROVE ReadHolds(p)'
    BY <1>1 DEF DecisionInv, TypeOK, RequestTypes, RowsAgree, ReadHolds, IngestInserts,
       elevationVars, toolVars, cardVars, chatVars
  <2>4. ToolRunsApproved' /\ MirrorAgrees'
    BY <1>1 DEF DecisionInv, TypeOK, RequestTypes, RowsAgree, ToolRunsApproved, InAdvance,
       MirrorAgrees, IngestInserts, elevationVars, toolVars, cardVars, chatVars
  <2> QED
    BY <2>1, <2>2, <2>3, <2>4 DEF DecisionInv
<1>2. CASE FanOutMobileApprovals(r)
  <2>1. TypeOK'
    BY <1>2, ChatStays DEF DecisionInv, TypeOK, RequestTypes, FanOutMobileApprovals,
       elevationVars, toolVars, cardVars, chatVars, Active, Verdicts
  <2> QED
    BY <1>2, <2>1, InvStays DEF FanOutMobileApprovals, elevationVars, toolVars, cardVars,
       chatVars
<1>3. CASE IngestCommits(r)
  <2>1. TypeOK'
    BY <1>3, ChatStays DEF DecisionInv, TypeOK, RequestTypes, IngestCommits, Insert,
       elevationVars, toolVars, cardVars, chatVars, Active, Verdicts
  <2>2. ASSUME NEW q \in Requests PROVE RowsAgree(q)'
    BY <1>3, SMTT(20) DEF DecisionInv, TypeOK, RequestTypes, RowsAgree, InAdvance, IngestCommits, Insert,
       elevationVars, toolVars, cardVars, chatVars, Verdicts
  <2>3. ASSUME NEW p \in ops' PROVE ReadHolds(p)'
    BY <1>3 DEF DecisionInv, TypeOK, RequestTypes, RowsAgree, ReadHolds, IngestCommits, Insert,
       elevationVars, toolVars, cardVars, chatVars
  <2>4. ToolRunsApproved' /\ MirrorAgrees'
    BY <1>3 DEF DecisionInv, TypeOK, RequestTypes, RowsAgree, ToolRunsApproved, InAdvance,
       MirrorAgrees, IngestCommits, Insert, elevationVars, toolVars, cardVars, chatVars,
       Verdicts
  <2> QED
    BY <2>1, <2>2, <2>3, <2>4 DEF DecisionInv
<1>4. CASE IngestFails(r)
  <2>1. TypeOK'
    BY <1>4, ChatStays DEF DecisionInv, TypeOK, RequestTypes, IngestFails, elevationVars,
       toolVars, cardVars, chatVars, Active, Verdicts
  <2>2. ASSUME NEW q \in Requests PROVE RowsAgree(q)'
    BY <1>4 DEF DecisionInv, TypeOK, RequestTypes, RowsAgree, InAdvance, IngestFails,
       elevationVars, toolVars, cardVars, chatVars
  <2>3. ASSUME NEW p \in ops' PROVE ReadHolds(p)'
    BY <1>4 DEF DecisionInv, TypeOK, RequestTypes, RowsAgree, ReadHolds, IngestFails,
       elevationVars, toolVars, cardVars, chatVars
  <2>4. ToolRunsApproved' /\ MirrorAgrees'
    BY <1>4 DEF DecisionInv, TypeOK, RequestTypes, RowsAgree, ToolRunsApproved, InAdvance,
       MirrorAgrees, IngestFails, elevationVars, toolVars, cardVars, chatVars
  <2> QED
    BY <2>1, <2>2, <2>3, <2>4 DEF DecisionInv
<1> QED
  BY <1>1, <1>2, <1>3, <1>4 DEF Agent

\* DecisionInv under the steps of a chat and its session.
LEMMA ChatKeepsInv ==
    ASSUME DecisionInv, NEW r \in Requests, Chat(r)
    PROVE  DecisionInv'
<1> USE ElevationAssumption
<1>1. ASSUME NEW m \in Modes, ChatOpens(r, m)
      PROVE  DecisionInv'
  <2>1. TypeOK'
    BY <1>1 DEF DecisionInv, TypeOK, RequestTypes, ChatTypes, ChatOpens, elevationVars,
       toolVars, cardVars, Modes
  <2>2. ASSUME NEW q \in Requests PROVE RowsAgree(q)'
    BY <1>1 DEF DecisionInv, TypeOK, RequestTypes, ChatTypes, RowsAgree, InAdvance, ChatOpens,
       elevationVars, toolVars, cardVars
  <2>3. ASSUME NEW p \in ops' PROVE ReadHolds(p)'
    BY <1>1 DEF DecisionInv, TypeOK, RequestTypes, RowsAgree, ReadHolds, ChatOpens,
       elevationVars, toolVars, cardVars
  <2>4. ToolRunsApproved' /\ MirrorAgrees'
    BY <1>1 DEF DecisionInv, TypeOK, RequestTypes, ChatTypes, RowsAgree, ToolRunsApproved,
       InAdvance, MirrorAgrees, ChatOpens, elevationVars, toolVars, cardVars
  <2> QED
    BY <2>1, <2>2, <2>3, <2>4 DEF DecisionInv
<1>2. ASSUME NEW p \in {"with", "without"}, ProposeActionPlan(r, p)
      PROVE  DecisionInv'
  <2>1. TypeOK'
    BY <1>2, RequestsStay DEF DecisionInv, TypeOK, ChatTypes, ProposeActionPlan
  <2> QED
    BY <1>2, <2>1, InvStays DEF ProposeActionPlan, requestVars, elevationVars, toolVars,
       cardVars
<1>3. CASE PlanApproved(r)
  <2>1. TypeOK'
    BY <1>3, RequestsStay DEF DecisionInv, TypeOK, ChatTypes, PlanApproved, Open
  <2>2. ASSUME NEW q \in Requests PROVE RowsAgree(q)'
    BY <1>3 DEF DecisionInv, TypeOK, RequestTypes, ChatTypes, RowsAgree, InAdvance,
       PlanApproved, Open, requestVars, elevationVars, toolVars, cardVars
  <2>3. ASSUME NEW p \in ops' PROVE ReadHolds(p)'
    BY <1>3 DEF DecisionInv, TypeOK, RequestTypes, RowsAgree, ReadHolds, PlanApproved, Open,
       requestVars, elevationVars, toolVars, cardVars
  <2>4. ToolRunsApproved' /\ MirrorAgrees'
    BY <1>3 DEF DecisionInv, TypeOK, RequestTypes, ChatTypes, RowsAgree, ToolRunsApproved,
       InAdvance, MirrorAgrees, PlanApproved, Open, requestVars, elevationVars, toolVars,
       cardVars
  <2> QED
    BY <2>1, <2>2, <2>3, <2>4 DEF DecisionInv
<1>4. CASE PlanRejected(r)
  <2>1. TypeOK'
    BY <1>4, RequestsStay DEF DecisionInv, TypeOK, ChatTypes, PlanRejected
  <2> QED
    BY <1>4, <2>1, InvStays DEF PlanRejected, requestVars, elevationVars, toolVars, cardVars
<1>5. ASSUME NEW b \in BOOLEAN, PauseSession(r, b)
      PROVE  DecisionInv'
  <2>1. TypeOK'
    BY <1>5, RequestsStay DEF DecisionInv, TypeOK, ChatTypes, PauseSession, Open
  <2>2. ASSUME NEW q \in Requests PROVE RowsAgree(q)'
    BY <1>5 DEF DecisionInv, TypeOK, RequestTypes, ChatTypes, RowsAgree, InAdvance,
       PauseSession, Open, requestVars, elevationVars, toolVars, cardVars
  <2>3. ASSUME NEW p \in ops' PROVE ReadHolds(p)'
    BY <1>5 DEF DecisionInv, TypeOK, RequestTypes, RowsAgree, ReadHolds, PauseSession, Open,
       requestVars, elevationVars, toolVars, cardVars
  <2>4. ToolRunsApproved' /\ MirrorAgrees'
    BY <1>5 DEF DecisionInv, TypeOK, RequestTypes, ChatTypes, RowsAgree, ToolRunsApproved,
       InAdvance, MirrorAgrees, PauseSession, Open, requestVars, elevationVars, toolVars,
       cardVars
  <2> QED
    BY <2>1, <2>2, <2>3, <2>4 DEF DecisionInv
<1>6. CASE AbortPlan(r) \/ PlanCompletes(r)
  <2>1. TypeOK'
    BY <1>6, RequestsStay DEF DecisionInv, TypeOK, ChatTypes, AbortPlan, PlanCompletes,
       StartsEnding
  <2> QED
    BY <1>6, <2>1, InvStays DEF AbortPlan, PlanCompletes, StartsEnding, requestVars,
       elevationVars, toolVars, cardVars
<1>7. CASE PlanEnds(r)
  <2>1. TypeOK'
    BY <1>7, RequestsStay DEF DecisionInv, TypeOK, ChatTypes, PlanEnds, Open
  <2>2. ASSUME NEW q \in Requests PROVE RowsAgree(q)'
    BY <1>7 DEF DecisionInv, TypeOK, RequestTypes, ChatTypes, RowsAgree, InAdvance, PlanEnds,
       Open, requestVars, elevationVars, toolVars, cardVars
  <2>3. ASSUME NEW p \in ops' PROVE ReadHolds(p)'
    BY <1>7 DEF DecisionInv, TypeOK, RequestTypes, RowsAgree, ReadHolds, PlanEnds, Open,
       requestVars, elevationVars, toolVars, cardVars
  <2>4. ToolRunsApproved' /\ MirrorAgrees'
    BY <1>7 DEF DecisionInv, TypeOK, RequestTypes, ChatTypes, RowsAgree, ToolRunsApproved,
       InAdvance, MirrorAgrees, PlanEnds, Open, requestVars, elevationVars, toolVars, cardVars
  <2> QED
    BY <2>1, <2>2, <2>3, <2>4 DEF DecisionInv
<1>8. ASSUME NEW t \in {2, 3}, NEW inserted \in BOOLEAN, ChatSkips(r, t, inserted)
      PROVE  DecisionInv'
  <2>1. TypeOK'
    BY <1>8 DEF DecisionInv, TypeOK, RequestTypes, ChatTypes, ChatSkips, Shortcut, Open,
       elevationVars, toolVars, cardVars, Modes
  <2>2. ASSUME NEW q \in Requests PROVE RowsAgree(q)'
    BY <1>8 DEF DecisionInv, TypeOK, RequestTypes, ChatTypes, RowsAgree, InAdvance, ChatSkips,
       Shortcut, Open, elevationVars, toolVars, cardVars
  <2>3. ASSUME NEW p \in ops' PROVE ReadHolds(p)'
    BY <1>8 DEF DecisionInv, TypeOK, RequestTypes, RowsAgree, ReadHolds, ChatSkips, Shortcut,
       Open, elevationVars, toolVars, cardVars
  <2>4. ToolRunsApproved' /\ MirrorAgrees'
    BY <1>8 DEF DecisionInv, TypeOK, RequestTypes, ChatTypes, RowsAgree, ToolRunsApproved,
       InAdvance, MirrorAgrees, ChatSkips, Shortcut, Open, elevationVars, toolVars, cardVars
  <2> QED
    BY <2>1, <2>2, <2>3, <2>4 DEF DecisionInv
<1>9. ASSUME NEW c \in {"none", "pending"}, ChatCalls(r, c)
      PROVE  DecisionInv'
  <2>1. TypeOK'
    BY <1>9 DEF DecisionInv, TypeOK, RequestTypes, ChatTypes, ChatCalls, Open, elevationVars,
       toolVars, cardVars, Modes
  <2>2. ASSUME NEW q \in Requests PROVE RowsAgree(q)'
    BY <1>9, SMTT(20) DEF DecisionInv, TypeOK, RequestTypes, ChatTypes, RowsAgree, InAdvance, ChatCalls,
       Open, elevationVars, toolVars, cardVars
  <2>3. ASSUME NEW p \in ops' PROVE ReadHolds(p)'
    BY <1>9 DEF DecisionInv, TypeOK, RequestTypes, RowsAgree, ReadHolds, ChatCalls, Open,
       elevationVars, toolVars, cardVars
  <2>4. ToolRunsApproved' /\ MirrorAgrees'
    BY <1>9, SMTT(20) DEF DecisionInv, TypeOK, RequestTypes, ChatTypes, RowsAgree, ToolRunsApproved,
       InAdvance, MirrorAgrees, ChatCalls, Open, elevationVars, toolVars, cardVars
  <2> QED
    BY <2>1, <2>2, <2>3, <2>4 DEF DecisionInv
<1> QED
  BY <1>1, <1>2, <1>3, <1>4, <1>5, <1>6, <1>7, <1>8, <1>9 DEF Chat
=============================================================================
