---------------------------- MODULE BoundedPool -----------------------------
(***************************************************************************)
(* What the agent's worker pool promises to those who submit tasks,        *)
(* without channels, goroutines or shutdown: at most Slots tasks wait and  *)
(* at most Limit run at a time; a task that was accepted runs once, to its *)
(* end, and one that was refused never runs.  WorkerPool implements it.    *)
(***************************************************************************)
EXTENDS Naturals, FiniteSets

CONSTANTS Tasks, Slots, Limit

VARIABLE phase  \* of each task: "new", "waiting", "running", "finished" or "refused"

In(p) == {t \in Tasks : phase[t] = p}

Init == phase = [t \in Tasks |-> "new"]

Accept(t) ==
    /\ phase[t] = "new"
    /\ Cardinality(In("waiting")) < Slots
    /\ phase' = [phase EXCEPT ![t] = "waiting"]

\* The queue is full, or the pool no longer accepts.
Refuse(t) ==
    /\ phase[t] = "new"
    /\ phase' = [phase EXCEPT ![t] = "refused"]

Start(t) ==
    /\ phase[t] = "waiting"
    /\ Cardinality(In("running")) < Limit
    /\ phase' = [phase EXCEPT ![t] = "running"]

Finish(t) ==
    /\ phase[t] = "running"
    /\ phase' = [phase EXCEPT ![t] = "finished"]

Next == \E t \in Tasks : Accept(t) \/ Refuse(t) \/ Start(t) \/ Finish(t)

Spec == Init /\ [][Next]_phase
=============================================================================
