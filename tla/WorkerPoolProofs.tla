-------------------------- MODULE WorkerPoolProofs --------------------------
(***************************************************************************)
(* Proofs about WorkerPool for any tasks, any workers and any queue size.  *)
(***************************************************************************)
EXTENDS WorkerPool, FiniteSetTheorems, TLAPS

\* The pool starts with nothing submitted and nobody waiting.
LEMMA PoolInit == Init => PoolInv
<1> SUFFICES ASSUME Init PROVE PoolInv
  OBVIOUS
<1>1. accepting \in BOOLEAN /\ stopped \in BOOLEAN /\ closed \in BOOLEAN /\ waitDone \in BOOLEAN
  BY Zenon DEF Init
<1> QED
  BY <1>1 DEF Init, PoolInv, TypeOK, NoTaskStranded

\* Every step of a submitter, a worker or Drain keeps the invariant.
LEMMA PoolStep == PoolInv /\ [Next]_vars => PoolInv'
<1> SUFFICES ASSUME PoolInv, [Next]_vars PROVE PoolInv'
  OBVIOUS
<1> USE PoolAssumption DEF PoolInv, TypeOK, NoTaskStranded
<1>1. ASSUME NEW t \in Tasks, SubmitChecks(t) PROVE PoolInv'
  BY <1>1 DEF SubmitChecks
<1>2. ASSUME NEW t \in Tasks, SubmitAdds(t) PROVE PoolInv'
  BY <1>2 DEF SubmitAdds
<1>3. ASSUME NEW t \in Tasks, SubmitSends(t) PROVE PoolInv'
  BY <1>3 DEF SubmitSends
<1>4. ASSUME NEW w \in Workers, NEW t \in Tasks, WorkerTakes(w, t) PROVE PoolInv'
  BY <1>4 DEF WorkerTakes
<1>5. ASSUME NEW w \in Workers, WorkerSeesStop(w) \/ WorkerSeesClose(w) PROVE PoolInv'
  BY <1>5 DEF WorkerSeesStop, WorkerSeesClose, Queued
<1>6. ASSUME NEW w \in Workers, WorkerFinishes(w) PROVE PoolInv'
  BY <1>6 DEF WorkerFinishes
<1>7. ASSUME StopAccepting PROVE PoolInv'
  <2>1. accepting' \in BOOLEAN /\ ~accepting'
    BY <1>7, Zenon DEF StopAccepting
  <2> QED
    BY <1>7, <2>1 DEF StopAccepting
<1>8. ASSUME DrainBegins PROVE PoolInv'
  <2>1. accepting' \in BOOLEAN /\ ~accepting' /\ stopped' \in BOOLEAN
    BY <1>8, Zenon DEF DrainBegins
  <2> QED
    BY <1>8, <2>1 DEF DrainBegins
<1>9. ASSUME WaitReturns PROVE PoolInv'
  BY <1>9 DEF WaitReturns
<1>10. ASSUME DrainSelects PROVE PoolInv'
  BY <1>10 DEF DrainSelects
<1>11. ASSUME DrainCloses PROVE PoolInv'
  BY <1>11 DEF DrainCloses
<1>12. ASSUME UNCHANGED vars PROVE PoolInv'
  BY <1>12 DEF vars
<1> HIDE DEF PoolInv, TypeOK, NoTaskStranded
<1> QED
  BY Zenon, <1>1, <1>2, <1>3, <1>4, <1>5, <1>6, <1>7, <1>8, <1>9, <1>10, <1>11, <1>12
     DEF Next, Submit, Worker, Drain

\* The WaitGroup accounts for every task between its Add and its Done.
THEOREM PoolCorrect == Spec => []PoolInv
BY PoolInit, PoolStep, PTL DEF Spec

\* A Drain that did not time out leaves no task behind that was enqueued before
\* the pool stopped accepting.
THEOREM DrainComplete == Spec => []DrainWaitsForAccepted
<1>1. PoolInv => DrainWaitsForAccepted
  BY DEF PoolInv, DrainWaitsForAccepted
<1> QED
  BY <1>1, PoolCorrect, PTL

-----------------------------------------------------------------------------
(* The pool implements BoundedPool *)

\* The running tasks are the image of the busy workers under holds, so there are
\* no more of them.
LEMMA RunningAreHeld ==
    ASSUME PoolInv
    PROVE  LET Running == {t \in Tasks : task[t] = "running"}
               Busy    == {v \in Workers : holds[v] # NoTask}
           IN  /\ IsFiniteSet(Busy) /\ Cardinality(Busy) \in Nat
               /\ Cardinality(Running) \in Nat
               /\ Cardinality(Running) <= Cardinality(Busy)
<1> DEFINE Running == {t \in Tasks : task[t] = "running"}
           Busy    == {v \in Workers : holds[v] # NoTask}
           f       == [v \in Busy |-> holds[v]]
<1>1. IsFiniteSet(Busy)
  BY PoolAssumption, FS_Subset
<1>2. f \in Surjection(Busy, Running)
  <2>1. f \in [Busy -> Running]
    BY DEF PoolInv, TypeOK
  <2>2. \A t \in Running : \E v \in Busy : f[v] = t
    BY PoolAssumption DEF PoolInv
  <2> QED
    BY <2>1, <2>2 DEF Surjection
<1>3. IsFiniteSet(Running) /\ Cardinality(Running) <= Cardinality(Busy)
  BY <1>1, <1>2, FS_Surjection
<1> QED
  BY <1>1, <1>3, FS_CardinalityType

\* At most as many tasks run as there are workers ...
LEMMA RunningWithinWorkers ==
    ASSUME PoolInv
    PROVE  Cardinality({t \in Tasks : task[t] = "running"}) <= Cardinality(Workers)
<1> DEFINE Busy == {v \in Workers : holds[v] # NoTask}
<1>1. Cardinality(Busy) <= Cardinality(Workers) /\ Cardinality(Workers) \in Nat
  BY PoolAssumption, FS_Subset, FS_CardinalityType
<1> QED
  BY <1>1, RunningAreHeld

\* ... and fewer while a worker is idle.
LEMMA IdleWorkerLeavesRoom ==
    ASSUME PoolInv, NEW w \in Workers, holds[w] = NoTask
    PROVE  Cardinality({t \in Tasks : task[t] = "running"}) < Cardinality(Workers)
<1> DEFINE Busy == {v \in Workers : holds[v] # NoTask}
<1>1. /\ IsFiniteSet(Workers \ {w})
      /\ Cardinality(Workers \ {w}) = Cardinality(Workers) - 1
      /\ Cardinality(Workers) \in Nat
  BY PoolAssumption, FS_RemoveElement, FS_CardinalityType
<1>2. Busy \in SUBSET (Workers \ {w})
  OBVIOUS
<1>3. Cardinality(Busy) <= Cardinality(Workers \ {w})
  BY <1>1, <1>2, FS_Subset
<1> QED
  BY <1>1, <1>3, RunningAreHeld

\* BoundedPool counts as the standard module does.
LEMMA SameCardinality == ASSUME NEW S PROVE Pool!Cardinality(S) = Cardinality(S)
BY Zenon DEF Pool!Cardinality, Cardinality

\* The waiting and the running tasks of BoundedPool are the queued and the running
\* ones of the pool.
LEMMA SameSets ==
    ASSUME PoolInv
    PROVE  /\ Pool!In("waiting") = Queued
           /\ Pool!In("running") = {t \in Tasks : task[t] = "running"}
<1>1. \A t \in Tasks : Phase(t) = "waiting" <=> task[t] = "queued"
  BY DEF PoolInv, TypeOK, Phase
<1>2. \A t \in Tasks : Phase(t) = "running" <=> task[t] = "running"
  BY DEF PoolInv, TypeOK, Phase
<1> QED
  BY <1>1, <1>2 DEF Pool!In, Queued

\* A step that changes one task changes the phase of that task only.
LEMMA OnePhase ==
    ASSUME PoolInv, NEW t \in Tasks, NEW s, task' = [task EXCEPT ![t] = s]
    PROVE  [u \in Tasks |-> Phase(u)]' = [[u \in Tasks |-> Phase(u)] EXCEPT ![t] = Phase(t)']
BY Zenon DEF PoolInv, TypeOK, Phase

\* Every step is a step of BoundedPool or none of it.
LEMMA PoolStepRefines ==
    PoolInv /\ [Next]_vars => [Pool!Next]_([t \in Tasks |-> Phase(t)])
<1> DEFINE phase == [t \in Tasks |-> Phase(t)]
<1> SUFFICES ASSUME PoolInv, [Next]_vars PROVE Pool!Next \/ phase' = phase
  BY Zenon
<1>1. task \in [Tasks -> {"new", "checked", "added", "queued", "running", "finished",
                          "rejected", "panicked"}]
  BY DEF PoolInv, TypeOK
<1>2. ASSUME NEW t \in Tasks, SubmitChecks(t) PROVE Pool!Next \/ phase' = phase
  <2>1. CASE accepting
    BY <1>1, <1>2, <2>1 DEF SubmitChecks, Phase
  <2>2. CASE ~accepting
    <3>1. task' = [task EXCEPT ![t] = "rejected"] /\ task[t] = "new"
      BY <1>2, <2>2 DEF SubmitChecks
    <3>2. Pool!Refuse(t)
      BY <1>1, <3>1, OnePhase, Zenon DEF Pool!Refuse, Phase
    <3> QED
      BY <3>2 DEF Pool!Next
  <2> QED
    BY <2>1, <2>2
<1>3. ASSUME NEW t \in Tasks, SubmitAdds(t) PROVE phase' = phase
  BY <1>1, <1>3 DEF SubmitAdds, Phase
<1>4. ASSUME NEW t \in Tasks, SubmitSends(t) PROVE Pool!Next \/ phase' = phase
  <2>1. CASE task' = [task EXCEPT ![t] = "panicked"]
    BY <1>1, <1>4, <2>1 DEF SubmitSends, Phase
  <2>2. CASE Cardinality(Queued) < QueueSize /\ task' = [task EXCEPT ![t] = "queued"]
    <3>1. task[t] = "added"
      BY <1>4 DEF SubmitSends
    <3>2. Pool!Accept(t)
      BY <1>1, <2>2, <3>1, OnePhase, SameSets, SameCardinality, Zenon DEF Pool!Accept, Phase
    <3> QED
      BY <3>2 DEF Pool!Next
  <2>3. CASE task' = [task EXCEPT ![t] = "rejected"]
    <3>1. task[t] = "added"
      BY <1>4 DEF SubmitSends
    <3>2. Pool!Refuse(t)
      BY <1>1, <2>3, <3>1, OnePhase, Zenon DEF Pool!Refuse, Phase
    <3> QED
      BY <3>2 DEF Pool!Next
  <2> QED
    BY <1>4, <2>1, <2>2, <2>3 DEF SubmitSends
<1>5. ASSUME NEW w \in Workers, NEW t \in Tasks, WorkerTakes(w, t) PROVE Pool!Next
  <2>1. /\ task[t] = "queued" /\ holds[w] = NoTask
        /\ task' = [task EXCEPT ![t] = "running"]
    BY <1>5 DEF WorkerTakes
  <2>2. Cardinality(Pool!In("running")) < Cardinality(Workers)
    BY <2>1, IdleWorkerLeavesRoom, SameSets
  <2>3. Pool!Start(t)
    BY <1>1, <2>1, <2>2, OnePhase, SameCardinality, Zenon DEF Pool!Start, Phase
  <2> QED
    BY <2>3 DEF Pool!Next
<1>6. ASSUME NEW w \in Workers, WorkerFinishes(w) PROVE Pool!Next
  <2>1. /\ holds[w] \in Tasks /\ task[holds[w]] = "running"
        /\ task' = [task EXCEPT ![holds[w]] = "finished"]
    BY <1>6 DEF WorkerFinishes, PoolInv, TypeOK
  <2>2. Pool!Finish(holds[w])
    BY <1>1, <2>1, OnePhase DEF Pool!Finish, Phase
  <2> QED
    BY <2>1, <2>2 DEF Pool!Next
<1>7. ASSUME task' = task PROVE phase' = phase
  BY <1>7 DEF Phase
<1>8. ASSUME NEW w \in Workers, WorkerSeesStop(w) \/ WorkerSeesClose(w) PROVE task' = task
  BY <1>8 DEF WorkerSeesStop, WorkerSeesClose
<1>9. CASE StopAccepting \/ Drain \/ UNCHANGED vars
  BY <1>7, <1>9 DEF StopAccepting, Drain, DrainBegins, WaitReturns, DrainSelects, DrainCloses, vars
<1> QED
  BY <1>2, <1>3, <1>4, <1>5, <1>6, <1>7, <1>8, <1>9 DEF Next, Submit, Worker

\* For any tasks, workers and queue size the pool keeps its limits and runs what
\* it accepted once, whatever the order of submissions, workers and shutdown.
THEOREM PoolRefinement == Spec => ImplementsPool
<1>1. Init => Pool!Init
  BY DEF Init, Pool!Init, Phase
<1> QED
  BY <1>1, PoolCorrect, PoolStepRefines, PTL DEF Spec, ImplementsPool, Pool!Spec

-----------------------------------------------------------------------------
(* The limits, and the workers a queued task can count on *)

\* A worker that has left sees no task come: the core of the argument that every
\* accepted task runs.
THEOREM QueuedTasksHaveWorkers == Spec => []NoTaskStranded
<1>1. PoolInv => NoTaskStranded
  BY DEF PoolInv
<1> QED
  BY <1>1, PoolCorrect, PTL

\* The queue is a finite set within its capacity.
QueueInv == IsFiniteSet(Queued) /\ Cardinality(Queued) <= QueueSize

\* A send adds one task to a queue that has room; nothing else adds one.
LEMMA QueueStep == PoolInv /\ QueueInv /\ [Next]_vars => QueueInv'
<1> SUFFICES ASSUME PoolInv, QueueInv, [Next]_vars PROVE QueueInv'
  OBVIOUS
<1>1. ASSUME Queued' \subseteq Queued PROVE QueueInv'
  <2>1. IsFiniteSet(Queued') /\ Cardinality(Queued') <= Cardinality(Queued)
    BY <1>1, FS_Subset DEF QueueInv
  <2>2. Cardinality(Queued) \in Nat /\ Cardinality(Queued') \in Nat
    BY <2>1, FS_CardinalityType DEF QueueInv
  <2> QED
    BY <2>1, <2>2, PoolAssumption DEF QueueInv
<1>2. ASSUME NEW t \in Tasks, Queued' = Queued \cup {t}, Cardinality(Queued) < QueueSize
      PROVE  QueueInv'
  <2>1. IsFiniteSet(Queued \cup {t}) /\ Cardinality(Queued \cup {t}) <= Cardinality(Queued) + 1
    BY FS_AddElement, FS_CardinalityType, SMTT(20) DEF QueueInv
  <2>2. Cardinality(Queued) \in Nat /\ Cardinality(Queued \cup {t}) \in Nat
    BY <2>1, FS_CardinalityType DEF QueueInv
  <2> QED
    BY <1>2, <2>1, <2>2, PoolAssumption DEF QueueInv
<1>3. task \in [Tasks -> {"new", "checked", "added", "queued", "running", "finished",
                          "rejected", "panicked"}]
  BY DEF PoolInv, TypeOK
<1>4. ASSUME NEW t \in Tasks, NEW s, s # "queued", task' = [task EXCEPT ![t] = s]
      PROVE  QueueInv'
  BY <1>1, <1>3, <1>4 DEF Queued
<1>5. ASSUME NEW t \in Tasks, Submit(t) PROVE QueueInv'
  <2>1. CASE task' = [task EXCEPT ![t] = "queued"] /\ Cardinality(Queued) < QueueSize
    <3>1. Queued' = Queued \cup {t}
      BY <1>3, <2>1 DEF Queued
    <3> QED
      BY <1>2, <2>1, <3>1, Zenon
  <2>2. CASE \E s \in {"checked", "added", "panicked", "rejected"} : task' = [task EXCEPT ![t] = s]
    BY <1>4, <2>2, Zenon
  <2> QED
    BY <1>5, <2>1, <2>2 DEF Submit, SubmitChecks, SubmitAdds, SubmitSends
<1>6. ASSUME NEW w \in Workers, Worker(w) PROVE QueueInv'
  <2>1. CASE \E t \in Tasks, s \in {"running", "finished"} : task' = [task EXCEPT ![t] = s]
    BY <1>4, <2>1, Zenon
  <2>2. CASE task' = task
    BY <1>1, <2>2 DEF Queued
  <2> QED
    BY <1>6, <2>1, <2>2 DEF Worker, WorkerTakes, WorkerSeesStop, WorkerSeesClose, WorkerFinishes,
                            PoolInv, TypeOK
<1>7. CASE StopAccepting \/ Drain \/ UNCHANGED vars
  <2>1. task' = task
    BY <1>7 DEF StopAccepting, Drain, DrainBegins, WaitReturns, DrainSelects, DrainCloses, vars
  <2> QED
    BY <1>1, <2>1 DEF Queued
<1> QED
  BY <1>5, <1>6, <1>7 DEF Next

\* The queue holds at most QueueSize tasks and at most as many run as there are
\* workers, for any number of submissions.
THEOREM LimitsKept == Spec => []WithinLimits
<1>1. Init => QueueInv
  <2>1. Init => Queued = {}
    BY DEF Init, Queued
  <2> QED
    BY <2>1, FS_EmptySet, PoolAssumption DEF QueueInv
<1>2. PoolInv /\ QueueInv => WithinLimits
  BY RunningWithinWorkers DEF QueueInv, WithinLimits
<1> QED
  BY <1>1, <1>2, QueueStep, PoolCorrect, PTL DEF Spec
=============================================================================
