SPECIFICATION FairSpec
CONSTANTS
    t1 = t1
    t2 = t2
    t3 = t3
    w1 = w1
    w2 = w2
    NoTask = NoTask
    Tasks <- MCTasks
    Workers <- MCWorkers
    QueueSize = 1
CHECK_DEADLOCK FALSE
INVARIANTS DrainWaitsForAccepted
PROPERTIES ImplementsPool EveryAcceptedTaskRuns WorkersExit
