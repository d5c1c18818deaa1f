---------------------------- MODULE MCWorkerPool ----------------------------
(***************************************************************************)
(* A pool of two workers with a queue of one and three submissions.        *)
(***************************************************************************)
EXTENDS WorkerPool

CONSTANTS t1, t2, t3, w1, w2

MCTasks   == {t1, t2, t3}
MCWorkers == {w1, w2}
=============================================================================
