------------------------- MODULE CommandQueueProofs -------------------------
(***************************************************************************)
(* Proofs about CommandQueue for any set of commands, any kinds, any       *)
(* number of send attempts, any claim limit and any number of crashes.     *)
(***************************************************************************)
EXTENDS CommandQueue, TLAPS

-----------------------------------------------------------------------------
(***************************************************************************)
(* Type correctness.                                                       *)
(***************************************************************************)

\* The initial state has the types.
LEMMA TypeInit == Init => TypeOK
<1> SUFFICES ASSUME Init PROVE TypeOK
  OBVIOUS
<1>1. connected \in BOOLEAN
  BY Zenon DEF Init
<1>2. visible \in [Commands -> BOOLEAN]
  BY ZenonT(30) DEF Init
<1> QED
  BY <1>1, <1>2, ConstantsAssumption DEF Init, TypeOK

\* Every step of every process preserves the types.
LEMMA TypeStep == TypeOK /\ [Next]_vars => TypeOK'
<1> SUFFICES ASSUME TypeOK, [Next]_vars PROVE TypeOK'
  OBVIOUS
<1> USE ConstantsAssumption DEF TypeOK, Open, Terminal
<1>1. ASSUME NEW c \in Commands, FastFail(c) PROVE TypeOK'
  BY <1>1 DEF FastFail, agentVars, AllKinds
<1>2. ASSUME NEW c \in Commands, NEW k \in Kinds, Insert(c, k) PROVE TypeOK'
  BY <1>2 DEF Insert, agentVars, AfterDispatch
<1>3. ASSUME NEW c \in Commands, Claim(c) PROVE TypeOK'
  BY <1>3 DEF Claim, agentVars, AfterDispatch
<1>4. ASSUME NEW c \in Commands, SendOk(c) PROVE TypeOK'
  BY <1>4 DEF SendOk, rowVars, AfterDispatch, Deliveries, Vias
<1>5. ASSUME NEW c \in Commands, SendFails(c) PROVE TypeOK'
  <2>1. connected' \in BOOLEAN
    BY <1>5, Zenon DEF SendFails
  <2> QED
    BY <1>5, <2>1 DEF SendFails, rowVars, agentVars
<1>6. ASSUME NEW c \in Commands, Release(c) PROVE TypeOK'
  BY <1>6 DEF Release, OwnClaim, agentVars, AfterDispatch
<1>7. ASSUME NEW c \in Commands, CommitTx(c) \/ RollbackTx(c) PROVE TypeOK'
  <2>1. visible' \in [Commands -> BOOLEAN]
    BY <1>7, Zenon DEF CommitTx, RollbackTx
  <2> QED
    BY <1>7, <2>1 DEF CommitTx, RollbackTx, agentVars
<1>8. ASSUME NEW c \in Commands, WaitReturns(c) PROVE TypeOK'
  BY <1>8 DEF WaitReturns, rowVars, agentVars
<1>9. ASSUME NEW c \in Commands, WaitTimesOut(c) PROVE TypeOK'
  BY <1>9 DEF WaitTimesOut, agentVars
<1>10. ASSUME NEW c \in Commands, WaitRereads(c) PROVE TypeOK'
  BY <1>10 DEF WaitRereads, rowVars, agentVars
<1>11. ASSUME NEW S \in SUBSET Commands, AgentConnects(S) PROVE TypeOK'
  BY <1>11 DEF AgentConnects, claimPendingCommandsForDevice, callerVars, Deliveries, Vias
<1>12. ASSUME AgentDisconnects PROVE TypeOK'
  BY <1>12, Zenon DEF AgentDisconnects, rowVars, callerVars, agentVars
<1>13. ASSUME NEW role \in {"agent", "watchdog"}, NEW S \in SUBSET Commands, Polls(role, S)
       PROVE  TypeOK'
  BY <1>13 DEF Polls, claimPendingCommandsForDevice, callerVars, Deliveries, Vias
<1>14. ASSUME NEW m \in toAgent, DeliveryIsLost(m) PROVE TypeOK'
  BY <1>14 DEF DeliveryIsLost, rowVars, callerVars
<1>15. ASSUME NEW m \in toAgent, executeOnDevice(m) PROVE TypeOK'
  BY <1>15 DEF executeOnDevice, rowVars, callerVars, Deliveries
<1>16. ASSUME NEW m \in toAgent, NEW chans \in {{"ws"}, {"ws", "rest"}}, AgentRefuses(m, chans)
       PROVE  TypeOK'
  BY <1>16 DEF AgentRefuses, ResultsOf, rowVars, callerVars, Deliveries, Results
<1>17. ASSUME NEW m \in running, NEW s \in {"completed", "failed"}, DeviceFinishes(m, s)
       PROVE  TypeOK'
  BY <1>17 DEF DeviceFinishes, ResultsOf, rowVars, callerVars, Deliveries, Results
<1>18. ASSUME DeviceRestarts \/ \E c \in Commands : EvictSeen(c) PROVE TypeOK'
  BY <1>18 DEF DeviceRestarts, EvictSeen, rowVars, callerVars
<1>19. ASSUME NEW r \in results, ResultIsLost(r) PROVE TypeOK'
  BY <1>19 DEF ResultIsLost, rowVars, callerVars
<1>20. ASSUME NEW r \in results, NEW malformed \in BOOLEAN, NEW again \in BOOLEAN,
              ProcessResult(r, malformed, again)
       PROVE  TypeOK'
  BY <1>20 DEF ProcessResult, callerVars, Results
<1>21. ASSUME NEW c \in Commands, CancelCommand(c) \/ ReaperSelects(c) \/ ReaperUpdates(c)
       PROVE  TypeOK'
  BY <1>21 DEF CancelCommand, ReaperSelects, ReaperUpdates, rowVars, callerVars, agentVars
<1>22. ASSUME ApiCrashes PROVE TypeOK'
  <2>1. connected' \in BOOLEAN
    BY <1>22, Zenon DEF ApiCrashes
  <2> QED
    BY <1>22, <2>1 DEF ApiCrashes, agentVars
<1>23. ASSUME UNCHANGED vars PROVE TypeOK'
  BY <1>23 DEF vars, rowVars, callerVars, agentVars
<1> QED
  BY <1>1, <1>2, <1>3, <1>4, <1>5, <1>6, <1>7, <1>8, <1>9, <1>10, <1>11, <1>12, <1>13,
     <1>14, <1>15, <1>16, <1>17, <1>18, <1>19, <1>20, <1>21, <1>22, <1>23, ZenonT(40)
     DEF Next, Caller, Claimants, Device, Closing

\* Every reachable state has the types: the row's status is one of the five the
\* code writes, messages concern known commands, crashes stay below their bound.
THEOREM TypeCorrect == Spec => []TypeOK
BY TypeInit, TypeStep, PTL DEF Spec
-----------------------------------------------------------------------------
(***************************************************************************)
(* The delivery invariant.                                                 *)
(***************************************************************************)

\* Nothing is issued, handed over or executed in the initial state.
LEMMA DeliveryInit == Init => DeliveryInv
BY SMTT(20) DEF Init, DeliveryInv, ChannelInv, TokenInv, RowInv, Dispatching, Waits, Terminal, Open

\* Every step keeps the token of every command in one place.
LEMMA DeliveryStep == TypeOK /\ DeliveryInv /\ [Next]_vars => DeliveryInv'
<1> SUFFICES ASSUME TypeOK, DeliveryInv, [Next]_vars PROVE DeliveryInv'
  OBVIOUS
<1>a. ChannelInv /\ \A c \in Commands : TokenInv(c) /\ RowInv(c)
  BY DEF DeliveryInv
<1> DEFINE Goal == ChannelInv' /\ \A d \in Commands : TokenInv(d)' /\ RowInv(d)'
<1> SUFFICES Goal
  BY DEF DeliveryInv
<1> USE ConstantsAssumption DEF TypeOK, Open, Terminal, Dispatching
<1>1. ASSUME NEW c \in Commands, FastFail(c)
       PROVE  Goal
  <2>1. ChannelInv'
    BY <1>a, <1>1 DEF FastFail, agentVars, ChannelInv
  <2>2. ASSUME NEW d \in Commands PROVE TokenInv(d)'
    BY <1>a, <1>1 DEF FastFail, agentVars, TokenInv
  <2>3. ASSUME NEW d \in Commands PROVE RowInv(d)'
    BY <1>a, <1>1 DEF FastFail, agentVars, RowInv, TokenInv
  <2> QED
    BY <2>1, <2>2, <2>3
<1>2. ASSUME NEW c \in Commands, NEW k \in Kinds, Insert(c, k)
       PROVE  Goal
  <2>1. ChannelInv'
    BY <1>a, <1>2 DEF Insert, agentVars, AfterDispatch, dispatchViaWs,
       InTransaction, Waits, AllKinds, ChannelInv
  <2>2. ASSUME NEW d \in Commands PROVE TokenInv(d)'
    BY <1>a, <1>2 DEF Insert, agentVars, AfterDispatch, dispatchViaWs,
       InTransaction, Waits, AllKinds, TokenInv
  <2>3. ASSUME NEW d \in Commands PROVE RowInv(d)'
    <3>1. (k \notin InTransaction) <=> (k \in Waits)
      BY DEF InTransaction, Waits, AllKinds
    <3>2. /\ (visible'[c] <=> k \in Waits) /\ kind'[c] = k /\ status'[c] = "pending"
          /\ disp'[c] = IF k \in dispatchViaWs THEN "inserted" ELSE AfterDispatch(k)
      BY <1>2, <3>1, Zenon DEF Insert
    <3>3. CASE d = c
      BY <1>a, <1>2, <3>2, <3>3 DEF Insert, agentVars, AfterDispatch, RowInv, TokenInv
    <3>4. CASE d # c
      BY <1>a, <1>2, <3>4 DEF Insert, agentVars, RowInv
    <3> QED
      BY <3>3, <3>4
  <2> QED
    BY <2>1, <2>2, <2>3
<1>3. ASSUME NEW c \in Commands, Claim(c)
       PROVE  Goal
  <2>1. ChannelInv'
    BY <1>a, <1>3 DEF Claim, agentVars, AfterDispatch, ChannelInv
  <2>2. ASSUME NEW d \in Commands PROVE TokenInv(d)'
    BY <1>a, <1>3 DEF Claim, agentVars, AfterDispatch, TokenInv
  <2>3. ASSUME NEW d \in Commands PROVE RowInv(d)'
    BY <1>a, <1>3 DEF Claim, agentVars, AfterDispatch, RowInv
  <2> QED
    BY <2>1, <2>2, <2>3
<1>4. ASSUME NEW c \in Commands, SendOk(c)
       PROVE  Goal
  <2>1. ChannelInv'
    BY <1>a, <1>4 DEF SendOk, rowVars, AfterDispatch, ChannelInv, TokenInv
  <2>2. ASSUME NEW d \in Commands PROVE TokenInv(d)'
    BY <1>a, <1>4 DEF SendOk, rowVars, AfterDispatch, TokenInv
  <2>3. ASSUME NEW d \in Commands PROVE RowInv(d)'
    BY <1>a, <1>4 DEF SendOk, rowVars, AfterDispatch, RowInv
  <2> QED
    BY <2>1, <2>2, <2>3
<1>5. ASSUME NEW c \in Commands, SendFails(c)
       PROVE  Goal
  <2>1. ChannelInv'
    BY <1>a, <1>5 DEF SendFails, rowVars, agentVars, ChannelInv
  <2>2. ASSUME NEW d \in Commands PROVE TokenInv(d)'
    BY <1>a, <1>5 DEF SendFails, rowVars, agentVars, TokenInv
  <2>3. ASSUME NEW d \in Commands PROVE RowInv(d)'
    BY <1>a, <1>5 DEF SendFails, rowVars, agentVars, RowInv
  <2> QED
    BY <2>1, <2>2, <2>3
<1>6. ASSUME NEW c \in Commands, Release(c)
       PROVE  Goal
  <2>1. ChannelInv'
    BY <1>a, <1>6 DEF Release, OwnClaim, agentVars, AfterDispatch, Waits, ChannelInv
  <2>2. ASSUME NEW d \in Commands PROVE TokenInv(d)'
    BY <1>a, <1>6 DEF Release, OwnClaim, agentVars, AfterDispatch, Waits, TokenInv
  <2>3. ASSUME NEW d \in Commands PROVE RowInv(d)'
    BY <1>a, <1>6 DEF Release, OwnClaim, agentVars, AfterDispatch, Waits, RowInv
  <2> QED
    BY <2>1, <2>2, <2>3
<1>7. ASSUME NEW c \in Commands, CommitTx(c)
       PROVE  Goal
  <2>1. ChannelInv'
    BY <1>a, <1>7 DEF CommitTx, agentVars, ChannelInv
  <2>2. ASSUME NEW d \in Commands PROVE TokenInv(d)'
    BY <1>a, <1>7 DEF CommitTx, agentVars, TokenInv
  <2>3. ASSUME NEW d \in Commands PROVE RowInv(d)'
    BY <1>a, <1>7 DEF CommitTx, agentVars, RowInv
  <2> QED
    BY <2>1, <2>2, <2>3
<1>8. ASSUME NEW c \in Commands, RollbackTx(c)
       PROVE  Goal
  <2>1. ChannelInv'
    BY <1>a, <1>8 DEF RollbackTx, agentVars, ChannelInv
  <2>2. ASSUME NEW d \in Commands PROVE TokenInv(d)'
    BY <1>a, <1>8 DEF RollbackTx, agentVars, TokenInv
  <2>3. ASSUME NEW d \in Commands PROVE RowInv(d)'
    BY <1>a, <1>8 DEF RollbackTx, agentVars, RowInv
  <2> QED
    BY <2>1, <2>2, <2>3
<1>9. ASSUME NEW c \in Commands, WaitReturns(c)
       PROVE  Goal
  <2>1. ChannelInv'
    BY <1>a, <1>9 DEF WaitReturns, rowVars, agentVars, ChannelInv
  <2>2. ASSUME NEW d \in Commands PROVE TokenInv(d)'
    BY <1>a, <1>9 DEF WaitReturns, rowVars, agentVars, TokenInv
  <2>3. ASSUME NEW d \in Commands PROVE RowInv(d)'
    BY <1>a, <1>9 DEF WaitReturns, rowVars, agentVars, RowInv
  <2> QED
    BY <2>1, <2>2, <2>3
<1>10. ASSUME NEW c \in Commands, WaitTimesOut(c)
       PROVE  Goal
  <2>1. ChannelInv'
    BY <1>a, <1>10 DEF WaitTimesOut, agentVars, ChannelInv
  <2>2. ASSUME NEW d \in Commands PROVE TokenInv(d)'
    BY <1>a, <1>10 DEF WaitTimesOut, agentVars, TokenInv
  <2>3. ASSUME NEW d \in Commands PROVE RowInv(d)'
    BY <1>a, <1>10 DEF WaitTimesOut, agentVars, RowInv
  <2> QED
    BY <2>1, <2>2, <2>3
<1>11. ASSUME NEW c \in Commands, WaitRereads(c)
       PROVE  Goal
  <2>1. ChannelInv'
    BY <1>a, <1>11 DEF WaitRereads, rowVars, agentVars, ChannelInv
  <2>2. ASSUME NEW d \in Commands PROVE TokenInv(d)'
    BY <1>a, <1>11 DEF WaitRereads, rowVars, agentVars, TokenInv
  <2>3. ASSUME NEW d \in Commands PROVE RowInv(d)'
    BY <1>a, <1>11 DEF WaitRereads, rowVars, agentVars, RowInv
  <2> QED
    BY <2>1, <2>2, <2>3
<1>12. ASSUME NEW S \in SUBSET Commands, AgentConnects(S)
       PROVE  Goal
  <2>1. ChannelInv'
    BY <1>a, <1>12, SMTT(20) DEF AgentConnects, claimPendingCommandsForDevice, Claimable,
       callerVars, ChannelInv, TokenInv, Deliveries, Results
  <2>2. ASSUME NEW d \in Commands PROVE TokenInv(d)'
    BY <1>a, <1>12 DEF AgentConnects, claimPendingCommandsForDevice, Claimable,
       callerVars, TokenInv, RowInv
  <2>3. ASSUME NEW d \in Commands PROVE RowInv(d)'
    BY <1>a, <1>12 DEF AgentConnects, claimPendingCommandsForDevice, Claimable,
       callerVars, RowInv
  <2> QED
    BY <2>1, <2>2, <2>3
<1>13. ASSUME AgentDisconnects
       PROVE  Goal
  <2>1. ChannelInv'
    BY <1>a, <1>13 DEF AgentDisconnects, rowVars, callerVars, agentVars, ChannelInv
  <2>2. ASSUME NEW d \in Commands PROVE TokenInv(d)'
    BY <1>a, <1>13 DEF AgentDisconnects, rowVars, callerVars, agentVars, TokenInv
  <2>3. ASSUME NEW d \in Commands PROVE RowInv(d)'
    BY <1>a, <1>13 DEF AgentDisconnects, rowVars, callerVars, agentVars, RowInv
  <2> QED
    BY <2>1, <2>2, <2>3
<1>14. ASSUME NEW role \in {"agent", "watchdog"}, NEW S \in SUBSET Commands,
            Polls(role, S)
       PROVE  Goal
  <2>1. ChannelInv'
    BY <1>a, <1>14 DEF Polls, claimPendingCommandsForDevice, Claimable, callerVars,
       ChannelInv, TokenInv, Deliveries, Results
  <2>2. ASSUME NEW d \in Commands PROVE TokenInv(d)'
    BY <1>a, <1>14 DEF Polls, claimPendingCommandsForDevice, Claimable, callerVars,
       TokenInv, RowInv
  <2>3. ASSUME NEW d \in Commands PROVE RowInv(d)'
    BY <1>a, <1>14 DEF Polls, claimPendingCommandsForDevice, Claimable, callerVars,
       RowInv
  <2> QED
    BY <2>1, <2>2, <2>3
<1>15. ASSUME NEW m \in toAgent, DeliveryIsLost(m)
       PROVE  Goal
  <2>1. ChannelInv'
    BY <1>a, <1>15 DEF DeliveryIsLost, rowVars, callerVars, ChannelInv
  <2>2. ASSUME NEW d \in Commands PROVE TokenInv(d)'
    BY <1>a, <1>15 DEF DeliveryIsLost, rowVars, callerVars, TokenInv
  <2>3. ASSUME NEW d \in Commands PROVE RowInv(d)'
    BY <1>a, <1>15 DEF DeliveryIsLost, rowVars, callerVars, RowInv
  <2> QED
    BY <2>1, <2>2, <2>3
<1>16. ASSUME NEW m \in toAgent, executeOnDevice(m)
       PROVE  Goal
  <2>1. ChannelInv'
    BY <1>a, <1>16, SMTT(20) DEF executeOnDevice, rowVars, callerVars, ChannelInv, Deliveries,
       Results
  <2>2. ASSUME NEW d \in Commands PROVE TokenInv(d)'
    BY <1>a, <1>16 DEF executeOnDevice, rowVars, callerVars, TokenInv, ChannelInv
  <2>3. ASSUME NEW d \in Commands PROVE RowInv(d)'
    BY <1>a, <1>16 DEF executeOnDevice, rowVars, callerVars, RowInv
  <2> QED
    BY <2>1, <2>2, <2>3
<1>17. ASSUME NEW m \in toAgent, NEW chans \in {{"ws"}, {"ws", "rest"}},
            AgentRefuses(m, chans)
       PROVE  Goal
  <2>1. ChannelInv'
    BY <1>a, <1>17 DEF AgentRefuses, ResultsOf, rowVars, callerVars, ChannelInv
  <2>2. ASSUME NEW d \in Commands PROVE TokenInv(d)'
    BY <1>a, <1>17 DEF AgentRefuses, ResultsOf, rowVars, callerVars, TokenInv
  <2>3. ASSUME NEW d \in Commands PROVE RowInv(d)'
    BY <1>a, <1>17 DEF AgentRefuses, ResultsOf, rowVars, callerVars, RowInv
  <2> QED
    BY <2>1, <2>2, <2>3
<1>18. ASSUME NEW m \in running, NEW s \in {"completed", "failed"}, DeviceFinishes(m, s)
       PROVE  Goal
  <2>1. ChannelInv'
    BY <1>a, <1>18 DEF DeviceFinishes, ResultsOf, rowVars, callerVars, ChannelInv,
       TokenInv, Deliveries
  <2>2. ASSUME NEW d \in Commands PROVE TokenInv(d)'
    BY <1>a, <1>18, SMTT(20) DEF DeviceFinishes, ResultsOf, rowVars, callerVars, TokenInv
  <2>3. ASSUME NEW d \in Commands PROVE RowInv(d)'
    BY <1>a, <1>18 DEF DeviceFinishes, ResultsOf, rowVars, callerVars, RowInv
  <2> QED
    BY <2>1, <2>2, <2>3
<1>19. ASSUME DeviceRestarts \/ \E c \in Commands : EvictSeen(c)
       PROVE  Goal
  <2>1. ChannelInv'
    BY <1>a, <1>19 DEF DeviceRestarts, EvictSeen, rowVars, callerVars, ChannelInv
  <2>2. ASSUME NEW d \in Commands PROVE TokenInv(d)'
    BY <1>a, <1>19 DEF DeviceRestarts, EvictSeen, rowVars, callerVars, TokenInv
  <2>3. ASSUME NEW d \in Commands PROVE RowInv(d)'
    BY <1>a, <1>19 DEF DeviceRestarts, EvictSeen, rowVars, callerVars, RowInv
  <2> QED
    BY <2>1, <2>2, <2>3
<1>20. ASSUME NEW r \in results, ResultIsLost(r)
       PROVE  Goal
  <2>1. ChannelInv'
    BY <1>a, <1>20, SMTT(20) DEF ResultIsLost, rowVars, callerVars, ChannelInv
  <2>2. ASSUME NEW d \in Commands PROVE TokenInv(d)'
    BY <1>a, <1>20, SMTT(20) DEF ResultIsLost, rowVars, callerVars, TokenInv
  <2>3. ASSUME NEW d \in Commands PROVE RowInv(d)'
    BY <1>a, <1>20 DEF ResultIsLost, rowVars, callerVars, RowInv
  <2> QED
    BY <2>1, <2>2, <2>3
<1>21. ASSUME NEW r \in results, NEW malformed \in BOOLEAN, NEW again \in BOOLEAN,
            ProcessResult(r, malformed, again)
       PROVE  Goal
  <2>1. ChannelInv'
    BY <1>a, <1>21 DEF ProcessResult, Accepts, callerVars, ChannelInv
  <2>2. ASSUME NEW d \in Commands PROVE TokenInv(d)'
    BY <1>a, <1>21, SMTT(20) DEF ProcessResult, Accepts, callerVars, TokenInv, Results
  <2>3. ASSUME NEW d \in Commands PROVE RowInv(d)'
    BY <1>a, <1>21 DEF ProcessResult, Accepts, callerVars, RowInv, ChannelInv,
       Results
  <2> QED
    BY <2>1, <2>2, <2>3
<1>22. ASSUME NEW c \in Commands, CancelCommand(c)
       PROVE  Goal
  <2>1. ChannelInv'
    BY <1>a, <1>22 DEF CancelCommand, callerVars, agentVars, ChannelInv
  <2>2. ASSUME NEW d \in Commands PROVE TokenInv(d)'
    BY <1>a, <1>22, SMTT(20) DEF CancelCommand, callerVars, agentVars, TokenInv
  <2>3. ASSUME NEW d \in Commands PROVE RowInv(d)'
    BY <1>a, <1>22, SMTT(20) DEF CancelCommand, callerVars, agentVars, RowInv
  <2> QED
    BY <2>1, <2>2, <2>3
<1>23. ASSUME NEW c \in Commands, ReaperSelects(c)
       PROVE  Goal
  <2>1. ChannelInv'
    BY <1>a, <1>23 DEF ReaperSelects, rowVars, callerVars, agentVars, ChannelInv
  <2>2. ASSUME NEW d \in Commands PROVE TokenInv(d)'
    BY <1>a, <1>23 DEF ReaperSelects, rowVars, callerVars, agentVars, TokenInv
  <2>3. ASSUME NEW d \in Commands PROVE RowInv(d)'
    BY <1>a, <1>23 DEF ReaperSelects, rowVars, callerVars, agentVars, RowInv
  <2> QED
    BY <2>1, <2>2, <2>3
<1>24. ASSUME NEW c \in Commands, ReaperUpdates(c)
       PROVE  Goal
  <2>1. ChannelInv'
    BY <1>a, <1>24 DEF ReaperUpdates, callerVars, agentVars, ChannelInv
  <2>2. ASSUME NEW d \in Commands PROVE TokenInv(d)'
    BY <1>a, <1>24 DEF ReaperUpdates, callerVars, agentVars, TokenInv
  <2>3. ASSUME NEW d \in Commands PROVE RowInv(d)'
    BY <1>a, <1>24, SMTT(20) DEF ReaperUpdates, callerVars, agentVars, RowInv
  <2> QED
    BY <2>1, <2>2, <2>3
<1>25. ASSUME ApiCrashes
       PROVE  Goal
  <2>1. ChannelInv'
    BY <1>a, <1>25, SMTT(20) DEF ApiCrashes, agentVars, ChannelInv
  <2>2. ASSUME NEW d \in Commands PROVE TokenInv(d)'
    BY <1>a, <1>25 DEF ApiCrashes, agentVars, TokenInv
  <2>3. ASSUME NEW d \in Commands PROVE RowInv(d)'
    BY <1>a, <1>25, SMTT(20) DEF ApiCrashes, agentVars, RowInv
  <2> QED
    BY <2>1, <2>2, <2>3
<1>26. ASSUME UNCHANGED vars
       PROVE  Goal
  <2>1. ChannelInv'
    BY <1>a, <1>26 DEF vars, rowVars, callerVars, agentVars, ChannelInv
  <2>2. ASSUME NEW d \in Commands PROVE TokenInv(d)'
    BY <1>a, <1>26 DEF vars, rowVars, callerVars, agentVars, TokenInv
  <2>3. ASSUME NEW d \in Commands PROVE RowInv(d)'
    BY <1>a, <1>26 DEF vars, rowVars, callerVars, agentVars, RowInv
  <2> QED
    BY <2>1, <2>2, <2>3
<1> QED
  BY SMTT(20), <1>1, <1>2, <1>3, <1>4, <1>5, <1>6, <1>7, <1>8, <1>9, <1>10, <1>11, <1>12, <1>13,
     <1>14, <1>15, <1>16, <1>17, <1>18, <1>19, <1>20, <1>21, <1>22, <1>23, <1>24, <1>25, <1>26
     DEF Next, Caller, Claimants, Device, Closing

\* The right to deliver a command is never in two places.
THEOREM DeliveryCorrect == Spec => []DeliveryInv
<1>1. Init => TypeOK /\ DeliveryInv
  BY TypeInit, DeliveryInit
<1>2. TypeOK /\ DeliveryInv /\ [Next]_vars => (TypeOK /\ DeliveryInv)'
  BY TypeStep, DeliveryStep
<1> QED
  BY <1>1, <1>2, PTL DEF Spec

\* The device runs a command at most once, across reconnects, lost messages,
\* restarts of the agent and crashes of the API.
THEOREM AtMostOnce == Spec => []ExecutedAtMostOnce
<1>1. TypeOK /\ DeliveryInv => ExecutedAtMostOnce
  BY DEF TypeOK, DeliveryInv, TokenInv, ExecutedAtMostOnce
<1> QED
  BY <1>1, TypeCorrect, DeliveryCorrect, PTL

\* A completed row belongs to a command that ran.
THEOREM CompletedRan == Spec => []CompletedWasExecuted
<1>1. DeliveryInv => CompletedWasExecuted
  BY Zenon DEF DeliveryInv, RowInv, CompletedWasExecuted
<1> QED
  BY <1>1, DeliveryCorrect, PTL

\* The caller of executeCommand is told how its row was closed, for ever after,
\* unless it is told at once that an interactive command found no device.
THEOREM CallerAgrees == Spec => []CallerAgreesWithRow
<1>1. DeliveryInv => CallerAgreesWithRow
  BY Zenon DEF DeliveryInv, RowInv, CallerAgreesWithRow
<1> QED
  BY <1>1, DeliveryCorrect, PTL

\* A result of a command issued by executeCommand finds its row committed.
THEOREM ExecuteFindsRow == Spec => []ExecuteResultsFindRow
<1>1. TypeOK /\ DeliveryInv => ExecuteResultsFindRow
  BY SMTT(20) DEF TypeOK, Results, DeliveryInv, ChannelInv, RowInv, ExecuteResultsFindRow
<1> QED
  BY <1>1, TypeCorrect, DeliveryCorrect, PTL

-----------------------------------------------------------------------------
(***************************************************************************)
(* What a step may do to a row.                                            *)
(***************************************************************************)

\* Every step is one of these, as far as the row of a command d and its runs are
\* concerned: nothing changes for an observer; the row appears, open; an open row
\* closes, as completed only after a run; the command runs for the first time.
Quiet(d)   == Entry(d)' = Entry(d) /\ executed'[d] = executed[d]
Appears(d) == Entry(d) = "absent" /\ Entry(d)' = "open" /\ executed'[d] = executed[d]
Closes(d)  == /\ Entry(d) = "open" /\ Entry(d)' \in Terminal
              /\ Entry(d)' = "completed" => executed[d] = 1
              /\ executed'[d] = executed[d]
RunsOnce(d) == Entry(d)' = Entry(d) /\ executed[d] = 0 /\ executed'[d] = 1

\* A step touches at most one command in one of these ways.
OneChange ==
    \/ \A d \in Commands : Quiet(d)
    \/ \E c \in Commands : /\ Appears(c) \/ Closes(c) \/ RunsOnce(c)
                           /\ \A d \in Commands \ {c} : Quiet(d)

\* Every step of the queue is a stutter or changes one command in one way.
LEMMA OneChangeStep == TypeOK /\ DeliveryInv /\ [Next]_vars => OneChange
<1> SUFFICES ASSUME TypeOK, DeliveryInv, [Next]_vars PROVE OneChange
  OBVIOUS
<1>a. ChannelInv /\ \A c \in Commands : TokenInv(c) /\ RowInv(c)
  BY DEF DeliveryInv
<1> USE DEF TypeOK, Open, Terminal, Dispatching
<1> DEFINE AllQuiet == \A d \in Commands : Quiet(d)
           OthersQuiet(c) == \A d \in Commands \ {c} : Quiet(d)
<1>1. ASSUME NEW c \in Commands, FastFail(c) PROVE AllQuiet
  BY <1>1 DEF FastFail, agentVars, Quiet, Entry
<1>2. ASSUME NEW c \in Commands, NEW k \in Kinds, Insert(c, k) PROVE OneChange
  <2>1. OthersQuiet(c)
    BY <1>2 DEF Insert, agentVars, Quiet, Entry
  <2>2. CASE k \in InTransaction
    <3>1. Quiet(c)
      BY <1>a, <1>2, <2>2 DEF Insert, agentVars, RowInv, Quiet, Entry
    <3> QED
      BY <2>1, <3>1 DEF OneChange
  <2>3. CASE k \notin InTransaction
    <3>1. Appears(c)
      BY <1>a, <1>2, <2>3, Zenon DEF Insert, agentVars, RowInv, Appears, Entry
    <3> QED
      BY <2>1, <3>1 DEF OneChange
  <2> QED
    BY <2>2, <2>3
<1>3. ASSUME NEW c \in Commands, Claim(c) PROVE AllQuiet
  BY <1>3 DEF Claim, agentVars, Quiet, Entry
<1>4. ASSUME NEW c \in Commands, SendOk(c) PROVE AllQuiet
  BY <1>4 DEF SendOk, rowVars, Quiet, Entry
<1>5. ASSUME NEW c \in Commands, SendFails(c) PROVE AllQuiet
  BY <1>5 DEF SendFails, rowVars, agentVars, Quiet, Entry
<1>6. ASSUME NEW c \in Commands, Release(c) PROVE AllQuiet
  BY <1>a, <1>6 DEF Release, OwnClaim, agentVars, RowInv, Waits, Quiet, Entry
<1>7. ASSUME NEW c \in Commands, CommitTx(c) PROVE OneChange
  <2>1. OthersQuiet(c)
    BY <1>7 DEF CommitTx, agentVars, Quiet, Entry
  <2>2. Appears(c)
    BY <1>a, <1>7 DEF CommitTx, agentVars, RowInv, Appears, Entry
  <2> QED
    BY <2>1, <2>2 DEF OneChange
<1>8. ASSUME NEW c \in Commands, RollbackTx(c) PROVE AllQuiet
  BY <1>a, <1>8 DEF RollbackTx, agentVars, RowInv, Quiet, Entry
<1>9. ASSUME NEW c \in Commands, WaitReturns(c) \/ WaitRereads(c) PROVE AllQuiet
  BY <1>9 DEF WaitReturns, WaitRereads, rowVars, agentVars, Quiet, Entry
<1>10. ASSUME NEW c \in Commands, WaitTimesOut(c) PROVE OneChange
  <2>1. OthersQuiet(c)
    BY <1>10, SMTT(20) DEF WaitTimesOut, agentVars, Quiet, Entry
  <2>2. Quiet(c) \/ Closes(c)
    BY <1>a, <1>10 DEF WaitTimesOut, agentVars, RowInv, Quiet, Closes, Entry
  <2> QED
    BY <2>1, <2>2 DEF OneChange
<1>11. ASSUME NEW S \in SUBSET Commands, AgentConnects(S) PROVE AllQuiet
  BY <1>11 DEF AgentConnects, claimPendingCommandsForDevice, Claimable, Quiet, Entry
<1>12. ASSUME AgentDisconnects PROVE AllQuiet
  BY <1>12 DEF AgentDisconnects, rowVars, agentVars, Quiet, Entry
<1>13. ASSUME NEW role \in {"agent", "watchdog"}, NEW S \in SUBSET Commands,
              Polls(role, S)
       PROVE  AllQuiet
  BY <1>13 DEF Polls, claimPendingCommandsForDevice, Claimable, Quiet, Entry
<1>14. ASSUME NEW m \in toAgent, DeliveryIsLost(m) PROVE AllQuiet
  BY <1>14 DEF DeliveryIsLost, rowVars, Quiet, Entry
<1>15. ASSUME NEW m \in toAgent, executeOnDevice(m) PROVE OneChange
  <2>1. m.cmd \in Commands
    BY DEF Deliveries
  <2>2. OthersQuiet(m.cmd)
    BY <1>15, <2>1, SMTT(20) DEF executeOnDevice, rowVars, Quiet, Entry
  <2>3. Quiet(m.cmd) \/ RunsOnce(m.cmd)
    BY <1>a, <1>15, <2>1, SMTT(20) DEF executeOnDevice, rowVars, ChannelInv, Quiet, RunsOnce, Entry
  <2> QED
    BY <2>1, <2>2, <2>3 DEF OneChange
<1>16. ASSUME NEW m \in toAgent, NEW chans \in {{"ws"}, {"ws", "rest"}},
              AgentRefuses(m, chans)
       PROVE  AllQuiet
  BY <1>16 DEF AgentRefuses, rowVars, Quiet, Entry
<1>17. ASSUME NEW m \in running, NEW s \in {"completed", "failed"}, DeviceFinishes(m, s)
       PROVE  AllQuiet
  BY <1>17 DEF DeviceFinishes, rowVars, Quiet, Entry
<1>18. ASSUME DeviceRestarts \/ \E c \in Commands : EvictSeen(c) PROVE AllQuiet
  BY <1>18 DEF DeviceRestarts, EvictSeen, rowVars, Quiet, Entry
<1>19. ASSUME NEW r \in results, ResultIsLost(r) PROVE AllQuiet
  BY <1>19 DEF ResultIsLost, rowVars, Quiet, Entry
<1>20. ASSUME NEW r \in results, NEW malformed \in BOOLEAN, NEW again \in BOOLEAN,
              ProcessResult(r, malformed, again)
       PROVE  OneChange
  <2>1. r.cmd \in Commands /\ r.status \in {"completed", "failed"}
    BY DEF Results
  <2>2. OthersQuiet(r.cmd)
    BY <1>20, <2>1 DEF ProcessResult, Quiet, Entry
  <2>3. r.status = "completed" => executed[r.cmd] = 1
    BY <1>a, <2>1, SMTT(20) DEF ChannelInv, TokenInv
  <2>4. Quiet(r.cmd) \/ Closes(r.cmd)
    BY <1>20, <2>1, <2>3 DEF ProcessResult, Accepts, Quiet, Closes, Entry
  <2> QED
    BY <2>1, <2>2, <2>4 DEF OneChange
<1>21. ASSUME NEW c \in Commands, CancelCommand(c) PROVE OneChange
  <2>1. OthersQuiet(c)
    BY <1>21 DEF CancelCommand, agentVars, Quiet, Entry
  <2>2. Closes(c)
    BY <1>21 DEF CancelCommand, agentVars, Closes, Entry
  <2> QED
    BY <2>1, <2>2 DEF OneChange
<1>22. ASSUME NEW c \in Commands, ReaperSelects(c) PROVE AllQuiet
  BY <1>22 DEF ReaperSelects, rowVars, agentVars, Quiet, Entry
<1>23. ASSUME NEW c \in Commands, ReaperUpdates(c) PROVE OneChange
  <2>1. OthersQuiet(c)
    BY <1>23, SMTT(20) DEF ReaperUpdates, agentVars, Quiet, Entry
  <2>2. Quiet(c) \/ Closes(c)
    BY <1>a, <1>23 DEF ReaperUpdates, agentVars, RowInv, Quiet, Closes, Entry
  <2> QED
    BY <2>1, <2>2 DEF OneChange
<1>24. ASSUME ApiCrashes PROVE AllQuiet
  BY <1>24 DEF ApiCrashes, agentVars, Quiet, Entry
<1>25. ASSUME UNCHANGED vars PROVE AllQuiet
  BY <1>25 DEF vars, rowVars, agentVars, Quiet, Entry
<1> QED
  BY SMTT(20), <1>1, <1>2, <1>3, <1>4, <1>5, <1>6, <1>7, <1>8, <1>9, <1>10, <1>11, <1>12, <1>13,
     <1>14, <1>15, <1>16, <1>17, <1>18, <1>19, <1>20, <1>21, <1>22, <1>23, <1>24, <1>25
     DEF Next, Caller, Claimants, Device, Closing, OneChange

\* A closed row stays as it was closed, whichever writer comes late.
THEOREM TerminalStable == Spec => TerminalIsStable
<1>1. TypeOK /\ TypeOK' /\ OneChange => KeepsTerminal
  <2> SUFFICES ASSUME TypeOK, TypeOK', OneChange, NEW c \in Commands,
                      visible[c], status[c] \in Terminal
               PROVE  status'[c] = status[c] /\ visible'[c]
    BY SMTT(20) DEF KeepsTerminal
  <2>1. Entry(c) = status[c] /\ Entry(c) \notin {"absent", "open"}
    BY DEF Entry, Open, Terminal
  <2>2. Entry(c)' = Entry(c)
    BY <2>1 DEF OneChange, Quiet, Appears, Closes, RunsOnce
  <2> QED
    BY <2>1, <2>2, SMTT(20) DEF Entry, TypeOK
<1>2. TypeOK /\ DeliveryInv /\ [Next]_vars => KeepsTerminal
  BY <1>1, TypeStep, OneChangeStep
<1> QED
  BY <1>2, TypeCorrect, DeliveryCorrect, PTL DEF Spec, TerminalIsStable

\* The queue implements the ledger: what the rest of the system can see of a
\* command is an entry that opens once and closes once, and at most one run.
THEOREM Refinement == Spec => ImplementsLedger
<1>1. Init => Ledger!Init
  BY DEF Init, Ledger!Init, Entry
<1>2. TypeOK /\ TypeOK' /\ OneChange => [Ledger!Next]_(Ledger!ledgerVars)
  <2> SUFFICES ASSUME TypeOK, TypeOK', OneChange
               PROVE  Ledger!Next \/ UNCHANGED Ledger!ledgerVars
    OBVIOUS
  <2> DEFINE e == [c \in Commands |-> Entry(c)]
  <2>1. CASE \A d \in Commands : Quiet(d)
    <3>1. e' = e
      BY <2>1 DEF Quiet
    <3>2. executed' = executed
      BY <2>1 DEF Quiet, TypeOK
    <3> QED
      BY <3>1, <3>2 DEF Ledger!ledgerVars
  <2>2. ASSUME NEW c \in Commands, Appears(c) \/ Closes(c),
               \A d \in Commands \ {c} : Quiet(d)
        PROVE  Ledger!Next
    <3>1. e' = [e EXCEPT ![c] = Entry(c)']
      BY <2>2, Zenon DEF Quiet
    <3>2. executed' = executed
      BY <2>2 DEF Quiet, Appears, Closes, TypeOK
    <3>3. CASE Appears(c)
      <4>1. Ledger!Enter({c})
        BY <3>1, <3>2, <3>3, Zenon DEF Appears, Ledger!Enter
      <4> QED
        BY <4>1 DEF Ledger!Next
    <3>4. CASE Closes(c)
      <4>1. Ledger!Close(c, Entry(c)')
        BY <3>1, <3>2, <3>4 DEF Closes, Ledger!Close
      <4> QED
        BY <3>4, <4>1, SMTT(20) DEF Closes, Terminal, Ledger!Next
    <3> QED
      BY <2>2, <3>3, <3>4
  <2>3. ASSUME NEW c \in Commands, RunsOnce(c), \A d \in Commands \ {c} : Quiet(d)
        PROVE  Ledger!Next
    <3>1. e' = e
      BY <2>3 DEF Quiet, RunsOnce
    <3>2. executed' = [executed EXCEPT ![c] = 1]
      BY <2>3 DEF Quiet, RunsOnce, TypeOK
    <3>3. Ledger!Run(c)
      BY <2>3, <3>1, <3>2 DEF RunsOnce, Ledger!Run
    <3> QED
      BY <3>3 DEF Ledger!Next
  <2> QED
    BY <2>1, <2>2, <2>3 DEF OneChange
<1>3. TypeOK /\ DeliveryInv /\ [Next]_vars => [Ledger!Next]_(Ledger!ledgerVars)
  BY <1>2, TypeStep, OneChangeStep
<1> QED
  BY <1>1, <1>3, TypeCorrect, DeliveryCorrect, PTL DEF Spec, ImplementsLedger, Ledger!Spec

\* Every step keeps commands on their way to the process they are addressed to.
LEMMA TargetStep == TypeOK /\ DeliveryInv /\ TargetInv /\ [Next]_vars => TargetInv'
<1> SUFFICES ASSUME TypeOK, DeliveryInv, TargetInv, [Next]_vars
             PROVE  TargetInv'
  OBVIOUS
<1> USE DEF TypeOK, TargetInv, Dispatching
<1>1. ASSUME NEW c \in Commands, FastFail(c) \/ \E k \in Kinds : Insert(c, k)
      PROVE  TargetInv'
  <2>1. disp[c] = "idle"
    BY <1>1 DEF FastFail, Insert
  <2>2. handed[c] = 0 /\ executed[c] = 0
    BY <2>1 DEF DeliveryInv, TokenInv
  <2>3. \A m \in toAgent \cup running : m.cmd \in Commands /\ m.cmd # c
    BY <2>2 DEF DeliveryInv, ChannelInv, Deliveries
  <2> QED
    BY <1>1, <2>3 DEF FastFail, Insert, agentVars, targetRole, dispatchViaWs, AfterDispatch
<1>2. ASSUME NEW c \in Commands, SendOk(c)
      PROVE  TargetInv'
  BY <1>2 DEF SendOk, rowVars, AfterDispatch
<1>3. ASSUME NEW c \in Commands,
             \/ Claim(c) \/ SendFails(c) \/ Release(c) \/ CommitTx(c) \/ RollbackTx(c)
             \/ WaitReturns(c) \/ WaitTimesOut(c) \/ WaitRereads(c)
      PROVE  TargetInv'
  BY <1>3 DEF Claim, SendFails, Release, CommitTx, RollbackTx, WaitReturns, WaitTimesOut,
     WaitRereads, AfterDispatch, rowVars, agentVars
<1>4. ASSUME NEW S \in SUBSET Commands, AgentConnects(S)
      PROVE  TargetInv'
  BY <1>4 DEF AgentConnects, claimPendingCommandsForDevice, Claimable, callerVars
<1>5. ASSUME NEW role \in {"agent", "watchdog"}, NEW S \in SUBSET Commands, Polls(role, S)
      PROVE  TargetInv'
  BY <1>5 DEF Polls, claimPendingCommandsForDevice, Claimable, callerVars
<1>6. ASSUME NEW m \in toAgent, executeOnDevice(m)
      PROVE  TargetInv'
  BY <1>6 DEF executeOnDevice, rowVars, callerVars
<1>7. CASE AgentDisconnects \/ Closing \/ UNCHANGED vars
  BY <1>7, Zenon DEF AgentDisconnects, Closing, ResultIsLost, ProcessResult, CancelCommand, ReaperSelects,
     ReaperUpdates, vars, rowVars, callerVars, agentVars
<1>8. ASSUME NEW m \in toAgent,
             DeliveryIsLost(m) \/ \E chans \in {{"ws"}, {"ws", "rest"}} : AgentRefuses(m, chans)
      PROVE  TargetInv'
  BY <1>8, Zenon DEF DeliveryIsLost, AgentRefuses, rowVars, callerVars
<1>9. CASE \/ \E m \in running, s \in {"completed", "failed"} : DeviceFinishes(m, s)
           \/ DeviceRestarts \/ \E c \in Commands : EvictSeen(c)
  BY <1>9 DEF DeviceFinishes, DeviceRestarts, EvictSeen, rowVars, callerVars
<1>10. CASE ApiCrashes
  BY <1>10 DEF ApiCrashes, agentVars
<1> QED
  BY Zenon, <1>1, <1>2, <1>3, <1>4, <1>5, <1>6, <1>7, <1>8, <1>9, <1>10
     DEF Next, Caller, Claimants, Device

\* The watchdog never runs a command of the agent nor the agent one of the
\* watchdog, on any path from the insert to the handler.
THEOREM TargetRespected == Spec => []RunsOnItsTarget
<1>1. Init => TargetInv
  BY DEF Init, TargetInv, Dispatching
<1>2. TargetInv => RunsOnItsTarget
  BY Zenon DEF TargetInv, RunsOnItsTarget
<1> QED
  BY <1>1, <1>2, TargetStep, TypeCorrect, DeliveryCorrect, PTL DEF Spec
=============================================================================
