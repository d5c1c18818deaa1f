------------------------ MODULE ScriptExecutionProofs ------------------------
(***************************************************************************)
(* Proofs about ScriptExecution for any finite set of devices.             *)
(***************************************************************************)
EXTENDS ScriptExecution, FiniteSetTheorems, TLAPS

\* One more counted device adds one to the size of the set.
LEMMA CountOneMore ==
    ASSUME NEW S \in SUBSET Devices, NEW d \in Devices \ S
    PROVE  /\ Cardinality(S) \in Nat
           /\ Cardinality(S \cup {d}) = Cardinality(S) + 1
<1>1. IsFiniteSet(S)
  BY DevicesAssumption, FS_Subset
<1> QED
  BY <1>1, FS_CardinalityType, FS_AddElement

\* A set of devices as large as the batch is the batch.
LEMMA CountedAll ==
    ASSUME NEW S \in SUBSET Devices, Cardinality(S) >= Cardinality(Devices)
    PROVE  S = Devices
<1>1. /\ IsFiniteSet(S)
      /\ Cardinality(S) <= Cardinality(Devices)
      /\ Cardinality(S) = Cardinality(Devices) => S = Devices
  BY DevicesAssumption, FS_Subset
<1>2. Cardinality(S) \in Nat /\ Cardinality(Devices) \in Nat
  BY <1>1, DevicesAssumption, FS_CardinalityType
<1> QED
  BY <1>1, <1>2

\* Nothing is stored and nothing runs at the start.
LEMMA ScriptInit == Init => ScriptInv
BY FS_EmptySet DEF Init, ScriptInv, TypeOK, CountedOnce, FinishedBatchIsOver,
   ExecutionTellsTheOutcome, OpenExecution, OpenCommand, Outcomes

\* Every step of the request, the devices, the results, the cancel route and the
\* reaper keeps the invariant.
LEMMA ScriptStep == ScriptInv /\ [Next]_vars => ScriptInv'
<1> SUFFICES ASSUME ScriptInv, [Next]_vars PROVE ScriptInv'
  OBVIOUS
<1> USE DEF ScriptInv, TypeOK, CountedOnce, FinishedBatchIsOver, ExecutionTellsTheOutcome, Over,
        OpenExecution, OpenCommand, Outcomes, rowVars, deviceVars
<1>1. ASSUME NEW d \in Devices, NEW sent \in BOOLEAN, ExecuteOnDevice(d, sent) PROVE ScriptInv'
  BY <1>1 DEF ExecuteOnDevice
<1>2. ASSUME CommitRequest PROVE ScriptInv'
  BY <1>2 DEF CommitRequest
<1>3. ASSUME RollbackRequest PROVE ScriptInv'
  BY <1>3 DEF RollbackRequest
<1>4. ASSUME NEW d \in Devices, HeartbeatClaims(d) PROVE ScriptInv'
  BY <1>4 DEF HeartbeatClaims
<1>5. ASSUME NEW d \in Devices, NEW o \in Outcomes, ScriptEnds(d, o) PROVE ScriptInv'
  BY <1>5 DEF ScriptEnds
<1>6. ASSUME NEW d \in Devices, HandleScriptResult(d) PROVE ScriptInv'
  <2>1. CASE exec[d] \in OpenExecution /\ batch # "none"
    <3>1. d \notin counted
      BY <2>1
    <3>2. Cardinality(counted) \in Nat /\ Cardinality(counted \cup {d}) = Cardinality(counted) + 1
      BY <3>1, CountOneMore
    <3>3. /\ counted' = counted \cup {d}
          /\ devicesCompleted' \in Nat /\ devicesFailed' \in Nat
          /\ devicesCompleted' + devicesFailed' = devicesCompleted + devicesFailed + 1
      BY <1>6, <2>1 DEF HandleScriptResult, Count
    <3>4. \A e \in counted' : Over(e)'
      BY <1>6, <2>1, <3>3 DEF HandleScriptResult
    <3>5. CountedOnce'
      BY <3>2, <3>3, <3>4, Zenon
    <3> QED
      BY <1>6, <2>1, <3>3, <3>5 DEF HandleScriptResult
  <2>2. CASE ~(exec[d] \in OpenExecution /\ batch # "none")
    BY <1>6, <2>2 DEF HandleScriptResult, Count
  <2> QED
    BY <2>1, <2>2
<1>7. ASSUME NEW d \in Devices, CancelReads(d) PROVE ScriptInv'
  BY <1>7 DEF CancelReads
<1>8. ASSUME NEW d \in Devices, CancelWrites(d) PROVE ScriptInv'
  BY <1>8 DEF CancelWrites
<1>9. ASSUME NEW d \in Devices, ReapExecution(d) PROVE ScriptInv'
  <2>1. CASE batch # "none"
    <3>1. d \notin counted
      BY <1>9 DEF ReapExecution
    <3>2. Cardinality(counted) \in Nat /\ Cardinality(counted \cup {d}) = Cardinality(counted) + 1
      BY <3>1, CountOneMore
    <3>3. /\ counted' = counted \cup {d}
          /\ devicesCompleted' \in Nat /\ devicesFailed' \in Nat
          /\ devicesCompleted' + devicesFailed' = devicesCompleted + devicesFailed + 1
      BY <1>9, <2>1 DEF ReapExecution, Count
    <3>4. \A e \in counted' : Over(e)'
      BY <1>9, <2>1, <3>3 DEF ReapExecution
    <3>5. CountedOnce'
      BY <3>2, <3>3, <3>4, Zenon
    <3>6. devicesCompleted' + devicesFailed' >= Cardinality(Devices) => counted' = Devices
      BY <3>3, <3>5, CountedAll
    <3>7. FinishedBatchIsOver'
      BY <1>9, <2>1, <3>4, <3>6 DEF ReapExecution
    <3> QED
      BY <1>9, <2>1, <3>3, <3>5, <3>7 DEF ReapExecution
  <2>2. CASE batch = "none"
    BY <1>9, <2>2 DEF ReapExecution, Count
  <2> QED
    BY <2>1, <2>2
<1>10. ASSUME NEW d \in Devices, ReapCommand(d) PROVE ScriptInv'
  BY <1>10 DEF ReapCommand
<1>11. ASSUME NEW r \in results, ResultIsLost(r) PROVE ScriptInv'
  BY <1>11 DEF ResultIsLost
<1>12. ASSUME NEW r \in results, RestResult(r) PROVE ScriptInv'
  BY <1>12 DEF RestResult, StoresResult
<1>13. ASSUME NEW r \in results, WsResult(r) PROVE ScriptInv'
  BY <1>13 DEF WsResult, StoresResult
<1>14. ASSUME NEW r \in results, StaleResult(r) PROVE ScriptInv'
  BY <1>14 DEF StaleResult
<1>15. ASSUME ApiCrashes PROVE ScriptInv'
  BY <1>15 DEF ApiCrashes
<1>16. ASSUME UNCHANGED vars PROVE ScriptInv'
  BY <1>16 DEF vars
<1> HIDE DEF ScriptInv, TypeOK, CountedOnce, FinishedBatchIsOver, ExecutionTellsTheOutcome, Over
<1> QED
  BY <1>1, <1>2, <1>3, <1>4, <1>5, <1>6, <1>7, <1>8, <1>9, <1>10,
     <1>11, <1>12, <1>13, <1>14, <1>15, <1>16
     DEF Next, Dispatch, OnDevice, Result

\* The invariant holds throughout, and with it the type invariant.
THEOREM ScriptCorrect == Spec => []ScriptInv
BY ScriptInit, ScriptStep, PTL DEF Spec

\* The counters of a batch never count a device twice.
THEOREM CountsOnce == Spec => []CountedOnce
<1>1. ScriptInv => CountedOnce
  BY DEF ScriptInv
<1> QED
  BY <1>1, ScriptCorrect, PTL

\* A batch that was given its final status has no open execution.
THEOREM FinishedBatch == Spec => []FinishedBatchIsOver
<1>1. ScriptInv => FinishedBatchIsOver
  BY DEF ScriptInv
<1> QED
  BY <1>1, ScriptCorrect, PTL

\* An execution that is completed or failed tells what its script did.
THEOREM TellsTheOutcome == Spec => []ExecutionTellsTheOutcome
<1>1. ScriptInv => ExecutionTellsTheOutcome
  BY DEF ScriptInv
<1> QED
  BY <1>1, ScriptCorrect, PTL

\* Results and the reaper count what they end, cancellation ends without a
\* trace in the counters.
LEMMA EndedIsCountedStep == ScriptInv /\ EndedIsCounted /\ [Next]_vars => EndedIsCounted'
<1> SUFFICES ASSUME ScriptInv, EndedIsCounted, [Next]_vars PROVE EndedIsCounted'
  OBVIOUS
<1> USE DEF ScriptInv, TypeOK, EndedIsCounted, OpenExecution, Outcomes
<1>1. CASE Dispatch \/ ApiCrashes \/ UNCHANGED vars
  BY <1>1 DEF Dispatch, ExecuteOnDevice, CommitRequest, RollbackRequest, ApiCrashes, vars, rowVars
<1>2. ASSUME NEW r \in results, Result(r) PROVE EndedIsCounted'
  BY <1>2 DEF Result, ResultIsLost, RestResult, WsResult, StoresResult, StaleResult, rowVars
<1>3. ASSUME NEW d \in Devices, HandleScriptResult(d) \/ ReapExecution(d) PROVE EndedIsCounted'
  BY <1>3 DEF HandleScriptResult, ReapExecution, Count
<1>4. ASSUME NEW d \in Devices,
             \/ HeartbeatClaims(d) \/ (\E o \in Outcomes : ScriptEnds(d, o))
             \/ CancelReads(d) \/ CancelWrites(d) \/ ReapCommand(d)
      PROVE  EndedIsCounted'
  BY <1>4 DEF HeartbeatClaims, ScriptEnds, CancelReads, CancelWrites, ReapCommand, rowVars
<1> QED
  BY <1>1, <1>2, <1>3, <1>4 DEF Next, OnDevice

\* The execution that the reaper ends last ends its batch, for any devices and
\* any order of the results before it, unless one was cancelled.
THEOREM LastReapedEndsBatch == Spec => ReaperEndsBatch
<1>1. Init => EndedIsCounted
  BY DEF Init, EndedIsCounted
<1>2. ScriptInv /\ ScriptInv' /\ EndedIsCounted' /\ [Next]_vars => LastReapEndsBatch
  <2> SUFFICES ASSUME ScriptInv, ScriptInv', EndedIsCounted', [Next]_vars, NEW d \in Devices,
                      exec[d] \in OpenExecution, exec'[d] = "timeout", handling'[d] = handling[d],
                      batch # "none", \A e \in Devices : exec'[e] \in Outcomes
               PROVE  batch' \in {"completed", "failed"}
    BY DEF LastReapEndsBatch
  <2> USE DEF OpenExecution
  <2>1. CASE \E e \in Devices : ReapExecution(e)
    <3>1. PICK e \in Devices : ReapExecution(e)
      BY <2>1
    <3>2. CASE batch' # "none"
      <4>1. counted' = Devices
        <5>1. Devices \subseteq counted'
          BY <3>2 DEF EndedIsCounted
        <5>2. counted' \subseteq Devices
          BY DEF ScriptInv, TypeOK
        <5> QED
          BY <5>1, <5>2
      <4>2. devicesCompleted' + devicesFailed' >= Cardinality(Devices)
        BY <4>1, FS_CardinalityType, DevicesAssumption DEF ScriptInv, CountedOnce
      <4> QED
        BY <3>1, <4>2 DEF ReapExecution
    <3>3. CASE batch' = "none"
      BY <3>1, <3>3 DEF ReapExecution
    <3> QED
      BY <3>2, <3>3
  <2>2. ASSUME NEW e \in Devices, HandleScriptResult(e) PROVE FALSE
    BY <2>2 DEF HandleScriptResult, ScriptInv, TypeOK
  <2>3. ASSUME NEW e \in Devices,
               \/ HeartbeatClaims(e) \/ (\E o \in Outcomes : ScriptEnds(e, o))
               \/ CancelReads(e) \/ CancelWrites(e) \/ ReapCommand(e)
        PROVE  FALSE
    BY <2>3 DEF HeartbeatClaims, ScriptEnds, CancelReads, CancelWrites, ReapCommand, rowVars,
       ScriptInv, TypeOK
  <2>4. ASSUME NEW r \in results, Result(r) PROVE FALSE
    BY <2>4 DEF Result, ResultIsLost, RestResult, WsResult, StoresResult, StaleResult, rowVars
  <2>5. CASE Dispatch \/ ApiCrashes \/ UNCHANGED vars
    BY <2>5 DEF Dispatch, ExecuteOnDevice, CommitRequest, RollbackRequest, ApiCrashes, vars, rowVars,
       ScriptInv
  <2> QED
    BY <2>1, <2>2, <2>3, <2>4, <2>5 DEF Next, OnDevice
<1> QED
  BY <1>1, <1>2, EndedIsCountedStep, ScriptCorrect, PTL DEF Spec, ReaperEndsBatch
-----------------------------------------------------------------------------
(* The rows of a batch as entries of the ledger *)

\* A step that leaves the commands of the other devices alone and changes that of
\* d, if at all, by closing its open row is a step of the ledger.
LEMMA CloseRefines ==
    ASSUME ScriptInv, NEW d \in Devices, NEW v \in {"completed", "failed", "cancelled"},
           command[d] \in OpenCommand, command' = [command EXCEPT ![d] = v], UNCHANGED script,
           v = "completed" => script[d] # "absent"
    PROVE  Ledger!Next
<1> DEFINE e == [c \in Devices |-> Entry(c)]
<1>1. command \in [Devices -> {"none", "completed", "failed", "cancelled"} \cup OpenCommand]
  BY DEF ScriptInv, TypeOK
<1>2. e' = [e EXCEPT ![d] = v]
  BY <1>1, Zenon DEF Entry, OpenCommand
<1>3. Ledger!Close(d, v)
  BY <1>2 DEF Ledger!Close, Entry, OpenCommand
<1> QED
  BY <1>3 DEF Ledger!Next

\* A step that leaves commands and scripts as the ledger sees them is none of it.
LEMMA StutterRefines ==
    ASSUME \A d \in Devices : Entry(d)' = Entry(d) /\ (script'[d] = "absent" <=> script[d] = "absent")
    PROVE  UNCHANGED Ledger!ledgerVars
BY DEF Ledger!ledgerVars

\* Every step is a step of the ledger or none of it.
LEMMA BatchStepRefines == ScriptInv /\ [Next]_vars => [Ledger!Next]_(Ledger!ledgerVars)
<1> SUFFICES ASSUME ScriptInv, [Next]_vars
             PROVE  Ledger!Next \/ UNCHANGED Ledger!ledgerVars
  OBVIOUS
<1>1. /\ command \in [Devices -> {"none", "completed", "failed", "cancelled"} \cup OpenCommand]
      /\ script \in [Devices -> {"absent", "running"} \cup Outcomes]
      /\ draft \in [Devices -> {"none"} \cup OpenExecution]
  BY DEF ScriptInv, TypeOK
<1>2. ASSUME NEW d \in Devices, script[d] = "absent", script' = [script EXCEPT ![d] = "running"],
             \A c \in Devices : Entry(c)' = Entry(c)
      PROVE  Ledger!Next
  <2>1. Ledger!Run(d)
    BY <1>1, <1>2, Zenon DEF Ledger!Run
  <2> QED
    BY <2>1 DEF Ledger!Next
<1>3. ASSUME NEW d \in Devices, NEW sent \in BOOLEAN, ExecuteOnDevice(d, sent)
      PROVE  Ledger!Next \/ UNCHANGED Ledger!ledgerVars
  <2>1. command' = command /\ script[d] = "absent"
    BY <1>3 DEF ExecuteOnDevice, rowVars, ScriptInv
  <2>2. CASE sent
    BY <1>2, <1>3, <2>1, <2>2 DEF ExecuteOnDevice, Entry
  <2>3. CASE ~sent
    BY <1>3, <2>1, <2>3, StutterRefines DEF ExecuteOnDevice, Entry
  <2> QED
    BY <2>2, <2>3
<1>4. ASSUME CommitRequest PROVE Ledger!Next
  <2>1. \A d \in Devices : command[d] = "none" /\ command'[d] \in OpenCommand
    BY <1>4 DEF CommitRequest, ScriptInv, OpenCommand
  <2>2. script' = script
    BY <1>4 DEF CommitRequest, deviceVars
  <2>3. \A d \in Devices : Entry(d) = "absent" /\ Entry(d)' = "open"
    BY <2>1 DEF Entry, OpenCommand
  <2>4. Ledger!Enter(Devices)
    BY <2>2, <2>3 DEF Ledger!Enter
  <2> QED
    BY <2>4 DEF Ledger!Next
<1>5. ASSUME NEW d \in Devices, HeartbeatClaims(d) PROVE Ledger!Next
  <2>1. script[d] = "absent"
    BY <1>5 DEF HeartbeatClaims, ScriptInv
  <2>2. \A c \in Devices : Entry(c)' = Entry(c)
    BY <1>1, <1>5 DEF HeartbeatClaims, Entry, OpenCommand
  <2> QED
    BY <1>2, <1>5, <2>1, <2>2, Zenon DEF HeartbeatClaims
<1>6. ASSUME NEW d \in Devices, NEW o \in Outcomes, ScriptEnds(d, o)
      PROVE  UNCHANGED Ledger!ledgerVars
  <2>1. command' = command
    BY <1>6 DEF ScriptEnds, rowVars
  <2>2. \A c \in Devices : script'[c] = "absent" <=> script[c] = "absent"
    BY <1>1, <1>6 DEF ScriptEnds, Outcomes
  <2> QED
    BY <2>1, <2>2, StutterRefines DEF Entry
<1>7. ASSUME NEW r \in results, StoresResult(r) PROVE Ledger!Next
  <2>1. r.dev \in Devices /\ script[r.dev] \in Outcomes
    BY <1>7 DEF ScriptInv, TypeOK
  <2> QED
    BY <1>7, <2>1, CloseRefines, Zenon DEF StoresResult, Outcomes
<1>8. ASSUME NEW d \in Devices, CancelWrites(d) PROVE Ledger!Next \/ UNCHANGED Ledger!ledgerVars
  <2>1. script' = script
    BY <1>8 DEF CancelWrites, deviceVars
  <2>2. CASE command[d] = "pending"
    BY <1>8, <2>1, <2>2, CloseRefines, Zenon DEF CancelWrites, OpenCommand
  <2>3. CASE command[d] # "pending"
    <3>1. command' = command
      BY <1>1, <1>8, <2>3 DEF CancelWrites
    <3> QED
      BY <2>1, <3>1, StutterRefines DEF Entry
  <2> QED
    BY <2>2, <2>3
<1>9. ASSUME NEW d \in Devices, ReapCommand(d) PROVE Ledger!Next
  BY <1>9, CloseRefines, Zenon DEF ReapCommand, deviceVars
<1>10. CASE UNCHANGED <<command, script>>
  BY <1>10, StutterRefines DEF Entry
<1>11. ASSUME NEW d \in Devices, HandleScriptResult(d) \/ CancelReads(d) \/ ReapExecution(d)
       PROVE  UNCHANGED <<command, script>>
  BY <1>11, Zenon DEF HandleScriptResult, CancelReads, ReapExecution, rowVars, deviceVars
<1>12. ASSUME NEW r \in results, ResultIsLost(r) \/ StaleResult(r) PROVE UNCHANGED <<command, script>>
  BY <1>12 DEF ResultIsLost, StaleResult, rowVars
<1>13. CASE RollbackRequest \/ ApiCrashes \/ UNCHANGED vars
  BY <1>10, <1>13 DEF RollbackRequest, ApiCrashes, vars, rowVars, deviceVars
<1> QED
  BY <1>3, <1>4, <1>5, <1>6, <1>7, <1>8, <1>9, <1>10, <1>11, <1>12, <1>13
     DEF Next, Dispatch, OnDevice, Result, RestResult, WsResult

\* The commands of a batch, committed together and closed one by one, keep the
\* promises of the command queue.
THEOREM BatchRefinement == Spec => BatchImplementsLedger
<1>1. Init => Ledger!Init
  BY DEF Init, Ledger!Init, Entry
<1> QED
  BY <1>1, ScriptCorrect, BatchStepRefines, PTL DEF Spec, BatchImplementsLedger, Ledger!Spec
==============================================================================
