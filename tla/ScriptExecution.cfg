\* A batch of two devices.
SPECIFICATION FairSpec
CONSTANT Devices = {d1, d2}
INVARIANTS CountedOnce FinishedBatchIsOver ExecutionTellsTheOutcome
PROPERTIES EveryExecutionEnds ReaperEndsBatch BatchImplementsLedger
CHECK_DEADLOCK FALSE
