----------------------------- MODULE WorkerPool -----------------------------
(***************************************************************************)
(* The agent's bounded worker pool (agent/internal/workerpool/pool.go):    *)
(* goroutines that submit tasks, the workers, and Drain, which shuts the   *)
(* pool down while submissions may still be under way.                     *)
(*                                                                         *)
(* Every task is submitted by a call of its own, so the WaitGroup is       *)
(* represented by the tasks whose Add has not met its Done; its counter is *)
(* the size of that set.  The queue is the set of the queued tasks: which  *)
(* of them a worker takes first matters to no property.                    *)
(***************************************************************************)
EXTENDS Naturals, FiniteSets

CONSTANTS
    Tasks,      \* the tasks submitted during a run of the pool
    Workers,    \* maxWorkers goroutines
    QueueSize,  \* capacity of the queue channel
    NoTask      \* what an idle worker holds

ASSUME PoolAssumption ==
    /\ IsFiniteSet(Workers)
    /\ QueueSize \in Nat \ {0}
    /\ NoTask \notin Tasks

VARIABLES
    task,        \* where each task and its Submit call stand
    wg,          \* tasks added to the WaitGroup and not done
    accepting,   \* Pool.accepting
    stopped,     \* stopChan is closed
    closed,      \* the queue channel is closed
    worker,      \* each worker: in its select, in its range loop, or gone
    holds,       \* the task each worker is running
    waitDone,    \* the goroutine of Drain saw the WaitGroup at zero
    drain,       \* where Drain stands
    early        \* history: tasks enqueued while the pool was accepting

vars == <<task, wg, accepting, stopped, closed, worker, holds, waitDone, drain, early>>

Queued == {t \in Tasks : task[t] = "queued"}

\* New: the workers are started and the pool accepts tasks.
Init ==
    /\ task = [t \in Tasks |-> "new"]
    /\ wg = {}
    /\ accepting = TRUE
    /\ stopped = FALSE
    /\ closed = FALSE
    /\ worker = [w \in Workers |-> "select"]
    /\ holds = [w \in Workers |-> NoTask]
    /\ waitDone = FALSE
    /\ drain = "idle"
    /\ early = {}

-----------------------------------------------------------------------------
\* Submit, first statement: the accepting flag is read, and only here.
SubmitChecks(t) ==
    /\ task[t] = "new"
    /\ task' = [task EXCEPT ![t] = IF accepting THEN "checked" ELSE "rejected"]
    /\ UNCHANGED <<wg, accepting, stopped, closed, worker, holds, waitDone, drain, early>>

\* Submit, second statement: wg.Add(1).
SubmitAdds(t) ==
    /\ task[t] = "checked"
    /\ task' = [task EXCEPT ![t] = "added"]
    /\ wg'   = wg \cup {t}
    /\ UNCHANGED <<accepting, stopped, closed, worker, holds, waitDone, drain, early>>

\* Submit, the select: a send on the closed channel panics even with a default
\* branch; a full queue undoes the Add.
SubmitSends(t) ==
    /\ task[t] = "added"
    /\ \/ /\ closed
          /\ task' = [task EXCEPT ![t] = "panicked"]
          /\ UNCHANGED <<wg, early>>
       \/ /\ ~closed
          /\ Cardinality(Queued) < QueueSize
          /\ task' = [task EXCEPT ![t] = "queued"]
          /\ early' = IF accepting THEN early \cup {t} ELSE early
          /\ UNCHANGED wg
       \/ /\ ~closed
          /\ Cardinality(Queued) >= QueueSize
          /\ task' = [task EXCEPT ![t] = "rejected"]
          /\ wg' = wg \ {t}
          /\ UNCHANGED early
    /\ UNCHANGED <<accepting, stopped, closed, worker, holds, waitDone, drain>>

-----------------------------------------------------------------------------
\* Mutant of WorkerTakes: the task gets a goroutine of its own.
WorkerSpawns(w, t) ==
    /\ worker[w] \in {"select", "range"}
    /\ task[t] = "queued"
    /\ task'  = [task EXCEPT ![t] = "running"]
    /\ holds' = [holds EXCEPT ![w] = t]
    /\ UNCHANGED <<wg, accepting, stopped, closed, worker, waitDone, drain, early>>

\* A worker receives a task, in its select or in its range loop.
WorkerTakes(w, t) ==
    /\ worker[w] \in {"select", "range"}
    /\ holds[w] = NoTask
    /\ task[t] = "queued"
    /\ task'  = [task EXCEPT ![t] = "running"]
    /\ holds' = [holds EXCEPT ![w] = t]
    /\ UNCHANGED <<wg, accepting, stopped, closed, worker, waitDone, drain, early>>

\* Mutant of WorkerSeesStop: the worker leaves at once.
WorkerLeavesOnStop(w) ==
    /\ worker[w] = "select"
    /\ holds[w] = NoTask
    /\ stopped
    /\ worker' = [worker EXCEPT ![w] = "exited"]
    /\ UNCHANGED <<task, wg, accepting, stopped, closed, holds, waitDone, drain, early>>

\* The select sees stopChan closed; Go chooses freely when a task is ready too.
WorkerSeesStop(w) ==
    /\ worker[w] = "select"
    /\ holds[w] = NoTask
    /\ stopped
    /\ worker' = [worker EXCEPT ![w] = "range"]
    /\ UNCHANGED <<task, wg, accepting, stopped, closed, holds, waitDone, drain, early>>

\* Mutant of WorkerSeesClose: the range loop does not notice the close.
SelectSeesClose(w) ==
    /\ worker[w] = "select"
    /\ holds[w] = NoTask
    /\ closed
    /\ Queued = {}
    /\ worker' = [worker EXCEPT ![w] = "exited"]
    /\ UNCHANGED <<task, wg, accepting, stopped, closed, holds, waitDone, drain, early>>

\* A receive from the closed and empty queue ends the worker.
WorkerSeesClose(w) ==
    /\ worker[w] \in {"select", "range"}
    /\ holds[w] = NoTask
    /\ closed
    /\ Queued = {}
    /\ worker' = [worker EXCEPT ![w] = "exited"]
    /\ UNCHANGED <<task, wg, accepting, stopped, closed, holds, waitDone, drain, early>>

\* runTask returns, by itself or after recovering a panic of the task.
WorkerFinishes(w) ==
    /\ holds[w] # NoTask
    /\ task'  = [task EXCEPT ![holds[w]] = "finished"]
    /\ wg'    = wg \ {holds[w]}
    /\ holds' = [holds EXCEPT ![w] = NoTask]
    /\ UNCHANGED <<accepting, stopped, closed, worker, waitDone, drain, early>>

-----------------------------------------------------------------------------
StopAccepting ==
    /\ accepting
    /\ accepting' = FALSE
    /\ UNCHANGED <<task, wg, stopped, closed, worker, holds, waitDone, drain, early>>

\* Drain: stop accepting if the caller did not, close stopChan, start waiting.
DrainBegins ==
    /\ drain = "idle"
    /\ accepting' = FALSE
    /\ stopped' = TRUE
    /\ drain' = "waiting"
    /\ UNCHANGED <<task, wg, closed, worker, holds, waitDone, early>>

\* Mutant of WaitReturns: the wait ends when nothing is queued.
WaitReturnsOnEmptyQueue ==
    /\ drain # "idle"
    /\ Queued = {}
    /\ ~waitDone
    /\ waitDone' = TRUE
    /\ UNCHANGED <<task, wg, accepting, stopped, closed, worker, holds, drain, early>>

\* The goroutine of Drain: wg.Wait returns and done is closed.
WaitReturns ==
    /\ drain # "idle"
    /\ wg = {}
    /\ ~waitDone
    /\ waitDone' = TRUE
    /\ UNCHANGED <<task, wg, accepting, stopped, closed, worker, holds, drain, early>>

\* The select of Drain: done, or the deadline of its context.
DrainSelects ==
    /\ drain = "waiting"
    /\ \/ waitDone /\ drain' = "drained"
       \/ drain' = "timedOut"
    /\ UNCHANGED <<task, wg, accepting, stopped, closed, worker, holds, waitDone, early>>

\* Drain cancels the context, closes the queue and returns.
DrainCloses ==
    /\ drain \in {"drained", "timedOut"}
    /\ ~closed
    /\ closed' = TRUE
    /\ UNCHANGED <<task, wg, accepting, stopped, worker, holds, waitDone, drain, early>>

-----------------------------------------------------------------------------
Submit(t) == SubmitChecks(t) \/ SubmitAdds(t) \/ SubmitSends(t)

Worker(w) == (\E t \in Tasks : WorkerTakes(w, t)) \/ WorkerSeesStop(w)
             \/ WorkerSeesClose(w) \/ WorkerFinishes(w)

Drain == DrainBegins \/ WaitReturns \/ DrainSelects \/ DrainCloses

Next == (\E t \in Tasks : Submit(t)) \/ (\E w \in Workers : Worker(w))
        \/ StopAccepting \/ Drain

Spec == Init /\ [][Next]_vars

(***************************************************************************)
(* Goroutines that can run do run, tasks return, and a Drain that began    *)
(* goes on.  Nobody has to call Drain, and its deadline need not pass.     *)
(***************************************************************************)
Fairness == /\ \A t \in Tasks : WF_vars(Submit(t))
            /\ \A w \in Workers : WF_vars(Worker(w))
            /\ WF_vars(WaitReturns \/ DrainCloses)
            /\ WF_vars(waitDone /\ DrainSelects)

FairSpec == Spec /\ Fairness

-----------------------------------------------------------------------------
\* Every variable has its type.
TypeOK ==
    /\ task \in [Tasks -> {"new", "checked", "added", "queued", "running", "finished",
                           "rejected", "panicked"}]
    /\ wg \subseteq Tasks
    /\ accepting \in BOOLEAN
    /\ stopped \in BOOLEAN
    /\ closed \in BOOLEAN
    /\ worker \in [Workers -> {"select", "range", "exited"}]
    /\ holds \in [Workers -> Tasks \cup {NoTask}]
    /\ waitDone \in BOOLEAN
    /\ drain \in {"idle", "waiting", "drained", "timedOut"}
    /\ early \subseteq Tasks

\* No worker leaves while a task is queued, nor is a task queued once a worker has
\* left: as long as the queue holds a task, all workers are there to take it.
NoTaskStranded ==
    \A t \in Tasks, w \in Workers : task[t] = "queued" => worker[w] # "exited"

\* The channel never holds more than its capacity and never more than maxWorkers
\* tasks run at once.
WithinLimits ==
    /\ Cardinality(Queued) <= QueueSize
    /\ Cardinality({t \in Tasks : task[t] = "running"}) <= Cardinality(Workers)

\* The WaitGroup covers every task between its Add and its Done, the running
\* tasks are those the workers hold, each held by one, and once the wait is over the tasks that were enqueued
\* in time are finished and no other can become one of them.
PoolInv ==
    /\ TypeOK
    /\ \A t \in Tasks : task[t] \in {"added", "queued", "running"} => t \in wg
    /\ \A w \in Workers : holds[w] # NoTask => task[holds[w]] = "running"
    /\ \A v, w \in Workers : holds[v] # NoTask /\ holds[v] = holds[w] => v = w
    /\ \A t \in Tasks : task[t] = "running" => \E w \in Workers : holds[w] = t
    /\ \A t \in early : task[t] \in {"queued", "running", "finished"}
    /\ \A w \in Workers : worker[w] = "exited" => closed /\ holds[w] = NoTask
    /\ drain # "idle" => ~accepting
    /\ NoTaskStranded
    /\ waitDone => drain # "idle" /\ \A t \in early : task[t] = "finished"
    /\ drain = "drained" => waitDone

\* A Drain that did not time out has waited for every task that was enqueued
\* before the pool stopped accepting: none of them is queued or running.
DrainWaitsForAccepted ==
    drain = "drained" => \A t \in early : task[t] = "finished"

\* A task as those see it who submit tasks.  A Submit under way promised nothing
\* yet, and one that panics never will.
Phase(t) == CASE task[t] = "queued"   -> "waiting"
              [] task[t] = "rejected" -> "refused"
              [] task[t] \in {"running", "finished"} -> task[t]
              [] OTHER -> "new"

Pool == INSTANCE BoundedPool WITH
            Slots <- QueueSize,
            Limit <- Cardinality(Workers),
            phase <- [t \in Tasks |-> Phase(t)]

\* Whatever submitters, workers and Drain do at the same time, the queue and the
\* number of tasks that run stay within their limits, a task that was accepted
\* runs once, to its end, and a rejected one never runs: the pool implements
\* BoundedPool, during and after the shutdown too.
ImplementsPool == Pool!Spec

\* Every task that Submit accepted runs to its end, also when it is enqueued
\* after Drain began and when Drain gave up at its deadline.
EveryAcceptedTaskRuns ==
    \A t \in Tasks : (task[t] = "queued") ~> (task[t] = "finished")

\* Once Drain has returned every worker goroutine exits: none is leaked.
WorkersExit == \A w \in Workers : closed ~> (worker[w] = "exited")

\* "wg.Add is called here (before enqueue) to prevent a race with Drain"
\* (Submit): when Drain has waited for the WaitGroup, no Submit that is under way
\* sends on the queue that Drain closes next.
NoSendAfterDrain == drain = "drained" => \A t \in Tasks : task[t] # "panicked"
=============================================================================
