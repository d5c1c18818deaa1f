-------------------------- MODULE ElevationProofs --------------------------
(***************************************************************************)
(* Proofs about Elevation for any number of requests and technicians: the  *)
(* inductive invariant DecisionInv, what follows from it, and that the     *)
(* workflow implements OneGrant.                                           *)
(***************************************************************************)
EXTENDS ElevationLemmas

-----------------------------------------------------------------------------
(* The inductive invariant *)

\* DecisionInv under the steps of a tool call.
LEMMA ToolCallKeepsInv ==
    ASSUME DecisionInv, NEW r \in Requests, ToolCall(r)
    PROVE  DecisionInv'
<1> USE ElevationAssumption
<1>1. CASE HelperCalls(r)
  <2>1. TypeOK'
    BY <1>1, ChatStays DEF DecisionInv, TypeOK, RequestTypes, HelperCalls, elevationVars,
       toolVars, cardVars, chatVars, Active, Verdicts
  <2>2. ASSUME NEW q \in Requests PROVE RowsAgree(q)'
    BY <1>1 DEF DecisionInv, TypeOK, RequestTypes, RowsAgree, InAdvance, HelperCalls,
       elevationVars, toolVars, cardVars, chatVars
  <2>3. ASSUME NEW p \in ops' PROVE ReadHolds(p)'
    BY <1>1 DEF DecisionInv, TypeOK, RequestTypes, RowsAgree, ReadHolds, HelperCalls,
       elevationVars, toolVars, cardVars, chatVars
  <2>4. ToolRunsApproved' /\ MirrorAgrees'
    BY <1>1 DEF DecisionInv, TypeOK, RequestTypes, RowsAgree, ToolRunsApproved, InAdvance,
       MirrorAgrees, HelperCalls, elevationVars, toolVars, cardVars, chatVars
  <2> QED
    BY <2>1, <2>2, <2>3, <2>4 DEF DecisionInv
<1>2. ASSUME NEW v \in Verdicts, DecideHelperToolAction(r, v)
      PROVE  DecisionInv'
  <2>1. TypeOK'
    BY <1>2, ChatStays DEF DecisionInv, TypeOK, RequestTypes, DecideHelperToolAction, Insert,
       Mirror, elevationVars, toolVars, cardVars, chatVars, Active, Verdicts
  <2>2. ASSUME NEW q \in Requests PROVE RowsAgree(q)'
    BY <1>2 DEF DecisionInv, TypeOK, RequestTypes, RowsAgree, InAdvance, DecideHelperToolAction,
       Insert, Mirror, elevationVars, toolVars, cardVars, chatVars, Verdicts
  <2>3. ASSUME NEW p \in ops' PROVE ReadHolds(p)'
    BY <1>2 DEF DecisionInv, TypeOK, RequestTypes, RowsAgree, ReadHolds, DecideHelperToolAction,
       Insert, Mirror, elevationVars, toolVars, cardVars, chatVars
  <2>4. ToolRunsApproved' /\ MirrorAgrees'
    BY <1>2 DEF DecisionInv, TypeOK, RequestTypes, RowsAgree, ToolRunsApproved, InAdvance,
       MirrorAgrees, DecideHelperToolAction, Insert, Mirror, elevationVars, toolVars, cardVars,
       chatVars, Verdicts
  <2> QED
    BY <2>1, <2>2, <2>3, <2>4 DEF DecisionInv
<1>3. CASE DecisionFails(r)
  <2>1. TypeOK'
    BY <1>3, ChatStays DEF DecisionInv, TypeOK, RequestTypes, DecisionFails, elevationVars,
       toolVars, cardVars, chatVars, Active, Verdicts
  <2>2. ASSUME NEW q \in Requests PROVE RowsAgree(q)'
    BY <1>3 DEF DecisionInv, TypeOK, RequestTypes, RowsAgree, InAdvance, DecisionFails,
       elevationVars, toolVars, cardVars, chatVars
  <2>3. ASSUME NEW p \in ops' PROVE ReadHolds(p)'
    BY <1>3 DEF DecisionInv, TypeOK, RequestTypes, RowsAgree, ReadHolds, DecisionFails,
       elevationVars, toolVars, cardVars, chatVars
  <2>4. ToolRunsApproved' /\ MirrorAgrees'
    BY <1>3 DEF DecisionInv, TypeOK, RequestTypes, RowsAgree, ToolRunsApproved, InAdvance,
       MirrorAgrees, DecisionFails, elevationVars, toolVars, cardVars, chatVars
  <2> QED
    BY <2>1, <2>2, <2>3, <2>4 DEF DecisionInv
<1>4. CASE PollSees(r)
  <2>1. TypeOK'
    BY <1>4, ChatStays DEF DecisionInv, TypeOK, RequestTypes, PollSees, Stops, elevationVars,
       toolVars, cardVars, chatVars, Active, Verdicts
  <2>2. ASSUME NEW q \in Requests PROVE RowsAgree(q)'
    BY <1>4 DEF DecisionInv, TypeOK, RequestTypes, RowsAgree, InAdvance, PollSees, Stops,
       elevationVars, toolVars, cardVars, chatVars
  <2>3. ASSUME NEW p \in ops' PROVE ReadHolds(p)'
    BY <1>4 DEF DecisionInv, TypeOK, RequestTypes, RowsAgree, ReadHolds, PollSees, Stops,
       elevationVars, toolVars, cardVars, chatVars
  <2>4. ToolRunsApproved' /\ MirrorAgrees'
    BY <1>4 DEF DecisionInv, TypeOK, RequestTypes, RowsAgree, ToolRunsApproved, InAdvance,
       MirrorAgrees, PollSees, Stops, elevationVars, toolVars, cardVars, chatVars
  <2> QED
    BY <2>1, <2>2, <2>3, <2>4 DEF DecisionInv
<1>5. ASSUME NEW marked \in BOOLEAN, ToolRuns(r, marked)
      PROVE  DecisionInv'
  <2>1. TypeOK'
    BY <1>5, ChatStays DEF DecisionInv, TypeOK, RequestTypes, ToolRuns, Stops, elevationVars,
       toolVars, cardVars, chatVars, Active, Verdicts
  <2>2. ASSUME NEW q \in Requests PROVE RowsAgree(q)'
    BY <1>5 DEF DecisionInv, TypeOK, RequestTypes, ToolRunsApproved, RowsAgree, InAdvance,
       ToolRuns, Stops, elevationVars, toolVars, cardVars, chatVars
  <2>3. ASSUME NEW p \in ops' PROVE ReadHolds(p)'
    BY <1>5 DEF DecisionInv, TypeOK, RequestTypes, RowsAgree, ReadHolds, ToolRuns, Stops,
       elevationVars, toolVars, cardVars, chatVars
  <2>4. ToolRunsApproved' /\ MirrorAgrees'
    BY <1>5 DEF DecisionInv, TypeOK, RequestTypes, RowsAgree, ToolRunsApproved, InAdvance,
       MirrorAgrees, ToolRuns, Stops, elevationVars, toolVars, cardVars, chatVars
  <2> QED
    BY <2>1, <2>2, <2>3, <2>4 DEF DecisionInv
<1>6. ASSUME NEW marked \in BOOLEAN, GivesUp(r, marked)
      PROVE  DecisionInv'
  BY <1>6, RefuseKeepsInv, Zenon DEF GivesUp
<1>7. ASSUME NEW marked \in BOOLEAN, PollsFail(r, marked)
      PROVE  DecisionInv'
  BY <1>7, RefuseKeepsInv, Zenon DEF PollsFail
<1>8. CASE Aborts(r)
  BY <1>8, RefuseKeepsInv, Zenon DEF Aborts
<1> QED
  BY <1>1, <1>2, <1>3, <1>4, <1>5, <1>6, <1>7, <1>8 DEF ToolCall

\* DecisionInv under the steps of the jobs.
LEMMA JobKeepsInv ==
    ASSUME DecisionInv, NEW r \in Requests, Job(r)
    PROVE  DecisionInv'
<1> USE ElevationAssumption
<1>1. CASE EnforceElevationExpiry(r)
  BY <1>1, CloseKeepsInv, Zenon DEF EnforceElevationExpiry
<1>2. CASE ExpireStaleRequests(r)
  BY <1>2, CloseKeepsInv, Zenon DEF ExpireStaleRequests
<1>3. CASE ReapExpiredApprovals(r)
  <2>1. TypeOK'
    BY <1>3, ChatStays DEF DecisionInv, TypeOK, RequestTypes, ReapExpiredApprovals, Mirror,
       elevationVars, toolVars, cardVars, chatVars, Active, Verdicts
  <2>2. ASSUME NEW q \in Requests PROVE RowsAgree(q)'
    BY <1>3 DEF DecisionInv, TypeOK, RequestTypes, RowsAgree, InAdvance, ReapExpiredApprovals,
       Mirror, elevationVars, toolVars, cardVars, chatVars
  <2>3. ASSUME NEW p \in ops' PROVE ReadHolds(p)'
    BY <1>3 DEF DecisionInv, TypeOK, RequestTypes, RowsAgree, ReadHolds, ReapExpiredApprovals,
       Mirror, elevationVars, toolVars, cardVars, chatVars
  <2>4. ToolRunsApproved' /\ MirrorAgrees'
    BY <1>3 DEF DecisionInv, TypeOK, RequestTypes, RowsAgree, ToolRunsApproved, InAdvance,
       MirrorAgrees, ReapExpiredApprovals, Mirror, elevationVars, toolVars, cardVars, chatVars
  <2> QED
    BY <2>1, <2>2, <2>3, <2>4 DEF DecisionInv
<1> QED
  BY <1>1, <1>2, <1>3 DEF Job

\* DecisionInv under the steps of time.
LEMMA TimeKeepsInv ==
    ASSUME DecisionInv, NEW r \in Requests, Time(r)
    PROVE  DecisionInv'
<1> USE ElevationAssumption
<1>1. CASE WindowPasses(r)
  <2>1. TypeOK'
    BY <1>1, ChatStays DEF DecisionInv, TypeOK, RequestTypes, WindowPasses, elevationVars,
       toolVars, cardVars, chatVars, Active, Verdicts
  <2> QED
    BY <1>1, <2>1, InvStays DEF WindowPasses, elevationVars, toolVars, cardVars, chatVars
<1>2. CASE CardPasses(r)
  <2>1. TypeOK'
    BY <1>2, ChatStays DEF DecisionInv, TypeOK, RequestTypes, CardPasses, elevationVars,
       toolVars, cardVars, chatVars, Active, Verdicts
  <2> QED
    BY <1>2, <2>1, InvStays DEF CardPasses, elevationVars, toolVars, cardVars, chatVars
<1>3. CASE DeadlinePasses(r)
  <2>1. TypeOK'
    BY <1>3, ChatStays DEF DecisionInv, TypeOK, RequestTypes, DeadlinePasses, elevationVars,
       toolVars, cardVars, chatVars, Active, Verdicts
  <2> QED
    BY <1>3, <2>1, InvStays DEF DeadlinePasses, elevationVars, toolVars, cardVars, chatVars
<1> QED
  BY <1>1, <1>2, <1>3 DEF Time

\* DecisionInv under the steps of technicians.
LEMMA TechnicianKeepsInv ==
    ASSUME DecisionInv, NEW u \in Users, Technician(u)
    PROVE  DecisionInv'
<1> USE ElevationAssumption
<1>1. ASSUME NEW r \in Requests, NEW v \in Verdicts, RequestElevation(u, r, v)
      PROVE  DecisionInv'
  <2>1. TypeOK'
    BY <1>1, ChatStays DEF DecisionInv, TypeOK, RequestTypes, RequestElevation, Insert,
       elevationVars, toolVars, cardVars, chatVars, Active, Verdicts
  <2>2. ASSUME NEW q \in Requests PROVE RowsAgree(q)'
    BY <1>1, SMTT(20) DEF DecisionInv, TypeOK, RequestTypes, RowsAgree, InAdvance, RequestElevation,
       Insert, elevationVars, toolVars, cardVars, chatVars, Verdicts
  <2>3. ASSUME NEW p \in ops' PROVE ReadHolds(p)'
    BY <1>1 DEF DecisionInv, TypeOK, RequestTypes, RowsAgree, ReadHolds, RequestElevation,
       Insert, elevationVars, toolVars, cardVars, chatVars
  <2>4. ToolRunsApproved' /\ MirrorAgrees'
    BY <1>1 DEF DecisionInv, TypeOK, RequestTypes, RowsAgree, ToolRunsApproved, InAdvance,
       MirrorAgrees, RequestElevation, Insert, elevationVars, toolVars, cardVars, chatVars,
       Verdicts
  <2> QED
    BY <2>1, <2>2, <2>3, <2>4 DEF DecisionInv
<1>2. ASSUME NEW r \in Requests, NEW yes \in BOOLEAN, RespondReads(u, r, yes)
      PROVE  DecisionInv'
  <2>1. flow[r] # "none" /\ yes \in BOOLEAN
    BY <1>2 DEF DecisionInv, RowsAgree, RespondReads
  <2> QED
    BY <1>2, <2>1, ReadsKeepsInv DEF RespondReads
<1>3. ASSUME NEW r \in Requests, NEW yes \in BOOLEAN, ChatReads(u, r, yes)
      PROVE  DecisionInv'
  <2>1. flow[r] # "none" /\ waiter[r] # "none" /\ yes \in BOOLEAN
    BY <1>3 DEF DecisionInv, RowsAgree, ChatReads
  <2> QED
    BY <1>3, <2>1, ReadsKeepsInv DEF ChatReads
<1>4. ASSUME NEW r \in Requests, NEW yes \in BOOLEAN, CardReads(u, r, yes)
      PROVE  DecisionInv'
  <2>1. flow[r] # "none" /\ waiter[r] # "none" /\ yes \in BOOLEAN
    BY <1>4 DEF DecisionInv, RowsAgree, CardReads
  <2> QED
    BY <1>4, <2>1, ReadsKeepsInv DEF CardReads
<1>5. ASSUME NEW r \in Requests, ActuateReads(u, r)
      PROVE  DecisionInv'
  <2>1. flow[r] # "none" /\ TRUE \in BOOLEAN
    BY <1>5 DEF DecisionInv, RowsAgree, ActuateReads
  <2> QED
    BY <1>5, <2>1, ReadsKeepsInv, Zenon DEF ActuateReads
<1>6. ASSUME NEW r \in Requests, ReportReads(u, r)
      PROVE  DecisionInv'
  <2>1. flow[r] # "none" /\ waiter[r] # "none" /\ FALSE \in BOOLEAN
    BY <1>6 DEF DecisionInv, RowsAgree, ReportReads
  <2> QED
    BY <1>6, <2>1, ReadsKeepsInv, Zenon DEF ReportReads
<1> QED
  BY <1>1, <1>2, <1>3, <1>4, <1>5, <1>6 DEF Technician

\* DecisionInv under the steps of the handlers.
LEMMA HandlerKeepsInv ==
    ASSUME DecisionInv, NEW o \in ops, Handler(o)
    PROVE  DecisionInv'
<1> USE ElevationAssumption
<1>0. o.request \in Requests /\ ReadHolds(o)
  BY DEF DecisionInv, TypeOK, RequestTypes
<1>1. CASE RespondDecides(o)
  <2>1. TypeOK'
    BY <1>1, ChatStays DEF DecisionInv, TypeOK, RequestTypes, RespondDecides, Decide, Mirror,
       elevationVars, toolVars, cardVars, chatVars, Active, Verdicts
  <2>2. ASSUME NEW q \in Requests PROVE RowsAgree(q)'
    BY <1>1, <1>0, SMTT(20) DEF DecisionInv, TypeOK, RequestTypes, RowsAgree, ReadHolds, InAdvance,
       RespondDecides, Decide, Mirror, elevationVars, toolVars, cardVars, chatVars
  <2>3. ASSUME NEW p \in ops' PROVE ReadHolds(p)'
    BY <1>1, <1>0 DEF DecisionInv, TypeOK, RequestTypes, RowsAgree, ReadHolds, RespondDecides,
       Decide, Mirror, elevationVars, toolVars, cardVars, chatVars
  <2>4. ToolRunsApproved' /\ MirrorAgrees'
    BY <1>1, <1>0, SMTT(20) DEF DecisionInv, TypeOK, RequestTypes, RowsAgree, ToolRunsApproved, InAdvance,
       MirrorAgrees, RespondDecides, Decide, Mirror, elevationVars, toolVars, cardVars, chatVars
  <2> QED
    BY <2>1, <2>2, <2>3, <2>4 DEF DecisionInv
<1>2. CASE ActuateClaims(o)
  <2>1. TypeOK'
    BY <1>2, ChatStays DEF DecisionInv, TypeOK, RequestTypes, ActuateClaims, elevationVars,
       toolVars, cardVars, chatVars, Active, Verdicts
  <2>2. ASSUME NEW q \in Requests PROVE RowsAgree(q)'
    BY <1>2, <1>0 DEF DecisionInv, TypeOK, RequestTypes, RowsAgree, ReadHolds, InAdvance,
       ActuateClaims, elevationVars, toolVars, cardVars, chatVars
  <2>3. ASSUME NEW p \in ops' PROVE ReadHolds(p)'
    BY <1>2, <1>0 DEF DecisionInv, TypeOK, RequestTypes, RowsAgree, ReadHolds, ActuateClaims,
       elevationVars, toolVars, cardVars, chatVars
  <2>4. ToolRunsApproved' /\ MirrorAgrees'
    BY <1>2, <1>0 DEF DecisionInv, TypeOK, RequestTypes, RowsAgree, ToolRunsApproved, InAdvance,
       MirrorAgrees, ActuateClaims, elevationVars, toolVars, cardVars, chatVars
  <2> QED
    BY <2>1, <2>2, <2>3, <2>4 DEF DecisionInv
<1>3. CASE ChatDecides(o)
  <2>1. TypeOK'
    BY <1>3, ChatStays DEF DecisionInv, TypeOK, RequestTypes, ChatDecides, elevationVars, toolVars,
       cardVars, chatVars, Active, Verdicts
  <2>2. o.yes \in BOOLEAN
    BY DEF DecisionInv, TypeOK, RequestTypes
  <2>3. UNCHANGED <<card, waiter, elevationVars>>
    BY <1>3 DEF ChatDecides, cardVars
  <2> QED
    BY <1>3, <2>1, <2>2, <2>3, WriteKeepsInv, Zenon DEF ChatDecides
<1>4. CASE CardDecides(o)
  <2>1. TypeOK'
    BY <1>4, ChatStays DEF DecisionInv, TypeOK, RequestTypes, CardDecides, elevationVars, toolVars,
       cardVars, chatVars, Active, Verdicts
  <2>2. CASE card[o.request] = "pending" /\ o.request \notin cardOver
    <3>1. o.yes \in BOOLEAN
      BY DEF DecisionInv, TypeOK, RequestTypes
    <3>2. \A q \in Requests \ {o.request} : card'[q] = card[q]
      BY <1>4, <2>2 DEF CardDecides, DecisionInv, TypeOK, RequestTypes
    <3> QED
      BY <1>4, <2>1, <2>2, <3>1, <3>2, WriteKeepsInv, Zenon DEF CardDecides
  <2>3. CASE ~(card[o.request] = "pending" /\ o.request \notin cardOver)
    BY <1>4, <2>1, <2>3, InvStays DEF CardDecides, elevationVars, chatVars
  <2> QED
    BY <2>2, <2>3
<1>5. CASE ReportWrites(o)
  <2>1. TypeOK'
    BY <1>5, ChatStays DEF DecisionInv, TypeOK, RequestTypes, ReportWrites, elevationVars,
       toolVars, cardVars, chatVars, Active, Verdicts
  <2>2. \A q \in Requests \ {o.request} : card'[q] = card[q]
    BY <1>5 DEF ReportWrites, DecisionInv, TypeOK, RequestTypes
  <2>3. /\ exec' = [exec EXCEPT ![o.request] = IF FALSE THEN "approved" ELSE "rejected"]
        /\ said' = IF FALSE THEN said \cup {o.request} ELSE said
    BY <1>5 DEF ReportWrites
  <2>4. FALSE \in BOOLEAN /\ o.kind \in {"chat", "card", "report"}
    BY <1>5 DEF ReportWrites
  <2> QED
    BY <1>5, <2>1, <2>2, <2>3, <2>4, WriteKeepsInv, Zenon DEF ReportWrites
<1>6. CASE HandlerFails(o)
  <2>1. TypeOK'
    BY <1>6, ChatStays DEF DecisionInv, TypeOK, RequestTypes, HandlerFails, elevationVars,
       toolVars, cardVars, chatVars, Active, Verdicts
  <2> QED
    BY <1>6, <2>1, InvStays DEF HandlerFails, elevationVars, toolVars, cardVars, chatVars
<1> QED
  BY <1>1, <1>2, <1>3, <1>4, <1>5, <1>6 DEF Handler

\* DecisionInv is inductive.
LEMMA NextKeepsInv == DecisionInv /\ [Next]_vars => DecisionInv'
<1> SUFFICES ASSUME DecisionInv, [Next]_vars PROVE DecisionInv'
  OBVIOUS
<1>1. ASSUME NEW r \in Requests, Revoke(r) PROVE DecisionInv'
  BY <1>1, CloseKeepsInv, Zenon DEF Revoke
<1>2. CASE UNCHANGED vars
  <2>1. UNCHANGED <<requestVars, chatVars>>
    BY <1>2 DEF vars
  <2>2. TypeOK'
    BY <2>1, ChatStays, RequestsStay DEF TypeOK
  <2> QED
    BY <2>1, <2>2, InvStays DEF requestVars, elevationVars, toolVars, cardVars, chatVars
<1> QED
  BY <1>1, <1>2, AgentKeepsInv, ChatKeepsInv, ToolCallKeepsInv, JobKeepsInv, TimeKeepsInv,
     TechnicianKeepsInv, HandlerKeepsInv DEF Next

\* DecisionInv holds in every reachable state.
THEOREM DecisionInvHolds == Spec => []DecisionInv
  BY InitHolds, NextKeepsInv, PTL DEF Spec

\* No tool runs unless a rule or a technician has approved that call, or the mode
\* of an unpaused chat has in advance, however the decisions from the web, the
\* chat and the phone, the plans, pauses and aborts of the session, the timeout of
\* the call and the jobs interleave.
THEOREM ToolsRunOnlyIfApproved == Spec => []ToolRunsApproved
<1>1. DecisionInv => ToolRunsApproved
  BY DEF DecisionInv
<1> QED
  BY <1>1, DecisionInvHolds, PTL

\* A decided elevation of a helper's tool call never leaves the call's
\* execution row pending: the two are decided in one transaction.
THEOREM DecisionsAreMirrored == Spec => []MirrorAgrees
<1>1. DecisionInv => MirrorAgrees
  BY DEF DecisionInv
<1> QED
  BY <1>1, DecisionInvHolds, PTL

-----------------------------------------------------------------------------
(* The workflow implements OneGrant *)

\* Writing a status moves the phase of that request only.
LEMMA PhaseMoves ==
    ASSUME TypeOK, NEW r \in Requests, NEW v, status' = [status EXCEPT ![r] = v]
    PROVE  [q \in Requests |-> Phase(status[q])]'
               = [[q \in Requests |-> Phase(status[q])] EXCEPT ![r] = Phase(v)]
  BY Zenon DEF TypeOK, RequestTypes

\* A new row is a request of OneGrant, decided at once or open.
LEMMA InsertRefines ==
    ASSUME TypeOK, NEW r \in Requests, NEW v \in Verdicts, NEW s \in Users \cup {NoOne},
           status[r] = "none", Insert(r, v), UNCHANGED used,
           subject' = [subject EXCEPT ![r] = s]
    PROVE  Grants!Next
<1>1. Phase(v) \in {"open", "granted", "refused"} /\ (Phase(v) = "granted" <=> v = "auto_approved")
  BY DEF Phase, Verdicts, Active
<1>2. Grants!Request(r, s, Phase(v))
  <2>1. [q \in Requests |-> Phase(status[q])]'
            = [[q \in Requests |-> Phase(status[q])] EXCEPT ![r] = Phase(v)]
    BY PhaseMoves, Zenon DEF Insert
  <2>2. [q \in Requests |-> Phase(status[q])][r] = "none"
    BY DEF Phase, Active
  <2> QED
    BY <1>1, <2>1, <2>2, Zenon DEF Grants!Request, Insert
<1> QED
  BY <1>1, <1>2 DEF Grants!Next

\* Closing a pending or granted row ends the request.
LEMMA EndRefines ==
    ASSUME TypeOK, NEW r \in Requests, NEW v \in {"revoked", "expired"},
           status[r] \in Active \cup {"pending"}, status' = [status EXCEPT ![r] = v],
           UNCHANGED <<subject, grantedBy, used>>
    PROVE  Grants!Next
<1>1. Phase(v) = "ended" /\ Phase(status[r]) \in {"open", "granted"}
  BY DEF Phase, Active
<1>2. Grants!End(r)
  BY <1>1, PhaseMoves, Zenon DEF Grants!End
<1> QED
  BY <1>2 DEF Grants!Next

\* A step that leaves the elevation rows alone is a stutter.
LEMMA StutterRefines ==
    ASSUME UNCHANGED <<subject, status, grantedBy, used>>
    PROVE  UNCHANGED Grants!vars
  BY DEF Grants!vars

\* A technician's decision grants or refuses an open request, or is too late.
LEMMA RespondRefines ==
    ASSUME DecisionInv, NEW o \in ops, RespondDecides(o)
    PROVE  Grants!Next \/ UNCHANGED Grants!vars
<1>1. o.request \in Requests /\ o.user \in Users /\ TypeOK
  BY DEF DecisionInv, RowsAgree, ReadHolds, TypeOK, RequestTypes
<1>2. CASE status' = status
  BY <1>2, StutterRefines, <1>1 DEF RespondDecides, Decide, TypeOK, RequestTypes
<1>3. CASE status[o.request] = "pending" /\ Decide(o) /\ o.yes
  <2>1. Phase("approved") = "granted" /\ Phase("pending") = "open"
    BY DEF Phase, Active
  <2>2. o.user # subject[o.request]
    BY <1>3 DEF DecisionInv, ReadHolds, RespondDecides
  <2>3. status' = [status EXCEPT ![o.request] = "approved"]
    BY <1>3 DEF Decide
  <2>4. [q \in Requests |-> Phase(status[q])]'
            = [[q \in Requests |-> Phase(status[q])] EXCEPT ![o.request] = "granted"]
    BY <1>1, <2>1, <2>3, PhaseMoves, Zenon
  <2>5. Grants!Grant(o.request, o.user)
    BY <1>1, <1>3, <2>1, <2>2, <2>4 DEF Grants!Grant, Decide, RespondDecides
  <2> QED
    BY <1>1, <2>5 DEF Grants!Next
<1>4. CASE status[o.request] = "pending" /\ Decide(o) /\ ~o.yes
  <2>1. Phase("denied") = "refused" /\ Phase("pending") = "open"
    BY DEF Phase, Active
  <2>2. grantedBy' = grantedBy
    BY <1>1, <1>4 DEF Decide, TypeOK, RequestTypes
  <2>3. status' = [status EXCEPT ![o.request] = "denied"]
    BY <1>4 DEF Decide
  <2>4. [q \in Requests |-> Phase(status[q])]'
            = [[q \in Requests |-> Phase(status[q])] EXCEPT ![o.request] = "refused"]
    BY <1>1, <2>1, <2>3, PhaseMoves, Zenon
  <2>5. Grants!Refuse(o.request)
    BY <1>1, <1>4, <2>1, <2>2, <2>4 DEF Grants!Refuse, RespondDecides
  <2> QED
    BY <1>1, <2>5 DEF Grants!Next
<1> QED
  BY <1>2, <1>3, <1>4 DEF RespondDecides

\* The claim of an approved row uses the grant, for the first time.
LEMMA ActuateRefines ==
    ASSUME DecisionInv, NEW o \in ops, ActuateClaims(o)
    PROVE  Grants!Next \/ UNCHANGED Grants!vars
<1>1. o.request \in Requests /\ TypeOK
  BY DEF DecisionInv, RowsAgree, ReadHolds, TypeOK, RequestTypes
<1>2. CASE status[o.request] # "approved"
  BY <1>2, StutterRefines DEF ActuateClaims
<1>3. CASE status[o.request] = "approved"
  <2>1. Phase("approved") = "granted" /\ Phase("actuating") = "granted"
    BY DEF Phase, Active
  <2>2. grantedBy[o.request] \in Users /\ o.request \notin used
    BY <1>1, <1>3 DEF DecisionInv, RowsAgree
  <2>3. [q \in Requests |-> Phase(status[q])]' = [q \in Requests |-> Phase(status[q])]
    BY <1>1, <1>3, <2>1 DEF ActuateClaims, TypeOK, RequestTypes
  <2>4. Grants!Use(o.request)
    BY <1>1, <1>3, <2>1, <2>2, <2>3 DEF Grants!Use, ActuateClaims
  <2> QED
    BY <1>1, <2>4 DEF Grants!Next
<1> QED
  BY <1>2, <1>3

\* Every step of the workflow is a step of OneGrant or leaves its state alone.
LEMMA NextRefines == DecisionInv /\ [Next]_vars => [Grants!Next]_(Grants!vars)
<1> SUFFICES ASSUME DecisionInv, [Next]_vars PROVE Grants!Next \/ UNCHANGED Grants!vars
  OBVIOUS
<1>0. TypeOK /\ \A q \in Requests : RowsAgree(q)
  BY DEF DecisionInv
<1>1. ASSUME NEW r \in Requests, Agent(r) PROVE Grants!Next \/ UNCHANGED Grants!vars
  <2>1. CASE IngestCommits(r)
    <3>1. status[r] = "none" /\ ingest[r] \in Verdicts /\ subject[r] = NoOne
      BY <1>0, <2>1 DEF RowsAgree, TypeOK, RequestTypes, IngestCommits
    <3>2. subject' = [subject EXCEPT ![r] = NoOne]
      BY <1>0, <2>1, <3>1 DEF IngestCommits, TypeOK, RequestTypes
    <3> QED
      BY <1>0, <2>1, <3>1, <3>2, InsertRefines, Zenon DEF IngestCommits
  <2>2. CASE ~IngestCommits(r)
    BY <1>1, <2>2, StutterRefines DEF Agent, IngestInserts, FanOutMobileApprovals, IngestFails,
       elevationVars
  <2> QED
    BY <2>1, <2>2
<1>2. ASSUME NEW r \in Requests, ToolCall(r) PROVE Grants!Next \/ UNCHANGED Grants!vars
  <2>1. ASSUME NEW v \in Verdicts, DecideHelperToolAction(r, v) PROVE Grants!Next
    <3>1. status[r] = "none" /\ subject[r] = NoOne
      BY <1>0, <2>1 DEF RowsAgree, DecideHelperToolAction
    <3>2. subject' = [subject EXCEPT ![r] = NoOne]
      BY <1>0, <2>1, <3>1 DEF DecideHelperToolAction, TypeOK, RequestTypes
    <3> QED
      BY <1>0, <2>1, <3>1, <3>2, InsertRefines, Zenon DEF DecideHelperToolAction
  <2>2. CASE ~\E v \in Verdicts : DecideHelperToolAction(r, v)
    BY <1>2, <2>2, StutterRefines DEF ToolCall, HelperCalls, DecisionFails, PollSees, ToolRuns,
       GivesUp, PollsFail, Aborts, elevationVars
  <2> QED
    BY <2>1, <2>2
<1>3. ASSUME NEW r \in Requests, Job(r) \/ Revoke(r) \/ Time(r)
      PROVE  Grants!Next \/ UNCHANGED Grants!vars
  <2>1. CASE EnforceElevationExpiry(r) \/ ExpireStaleRequests(r) \/ Revoke(r)
    BY <1>0, <2>1, EndRefines DEF EnforceElevationExpiry, ExpireStaleRequests, Revoke
  <2>2. CASE ReapExpiredApprovals(r) \/ Time(r)
    BY <2>2, StutterRefines, Zenon DEF ReapExpiredApprovals, Time, WindowPasses, CardPasses,
       DeadlinePasses, elevationVars
  <2> QED
    BY <1>3, <2>1, <2>2 DEF Job
<1>4. ASSUME NEW u \in Users, Technician(u) PROVE Grants!Next \/ UNCHANGED Grants!vars
  <2>1. ASSUME NEW r \in Requests, NEW v \in Verdicts, RequestElevation(u, r, v)
        PROVE  Grants!Next
    <3>1. status[r] = "none"
      BY <1>0, <2>1, Zenon DEF RowsAgree, RequestElevation
    <3> QED
      BY <1>0, <2>1, <3>1, InsertRefines, Zenon DEF RequestElevation
  <2>2. CASE ~\E r \in Requests, v \in Verdicts : RequestElevation(u, r, v)
    BY <1>4, <2>2, StutterRefines, Zenon DEF Technician, RespondReads, ChatReads, CardReads,
       ActuateReads, ReportReads, Reads, elevationVars
  <2> QED
    BY <2>1, <2>2
<1>5. ASSUME NEW o \in ops, Handler(o) PROVE Grants!Next \/ UNCHANGED Grants!vars
  <2>1. CASE ChatDecides(o) \/ CardDecides(o) \/ ReportWrites(o) \/ HandlerFails(o)
    BY <2>1, StutterRefines DEF ChatDecides, CardDecides, ReportWrites, HandlerFails,
       elevationVars
  <2> QED
    BY <1>5, <2>1, RespondRefines, ActuateRefines DEF Handler
<1>6. ASSUME NEW r \in Requests, Chat(r) PROVE Grants!Next \/ UNCHANGED Grants!vars
  BY <1>6, StutterRefines, Zenon DEF Chat, ChatOpens, ProposeActionPlan, PlanApproved,
     PlanRejected, PauseSession, AbortPlan, PlanCompletes, StartsEnding, PlanEnds, ChatSkips,
     ChatCalls, requestVars, elevationVars
<1>7. CASE UNCHANGED vars
  BY <1>7, StutterRefines DEF vars, requestVars, elevationVars
<1> QED
  BY <1>1, <1>2, <1>3, <1>4, <1>5, <1>6, <1>7 DEF Next

\* The respond, revoke and actuate routes, the rules and the jobs implement
\* OneGrant: every request is decided at most once and not by its subject, and
\* an approval is turned into a device command at most once.
THEOREM WorkflowImplementsOneGrant == Spec => GrantSpec
<1>1. Init => Grants!Init
  <2> SUFFICES ASSUME Init PROVE Grants!Init
    OBVIOUS
  <2>1. \A q \in Requests : Phase(status[q]) = "none"
    BY DEF Init, Phase, Active
  <2> QED
    BY <2>1 DEF Init, Grants!Init
<1> QED
  BY <1>1, DecisionInvHolds, NextRefines, PTL DEF Spec, GrantSpec, Grants!Spec
=============================================================================
