SPECIFICATION FairSpec
CONSTANTS
    c1 = c1
    Commands <- MCCommands
    Kinds <- MCAllKinds
    SEND_RETRY_ATTEMPTS = 3
    ClaimLimit = 1
    MaxCrashes = 1
INVARIANTS
    ExecutedAtMostOnce
    CallerAgreesWithRow
    ExecuteResultsFindRow
    RunsOnItsTarget
PROPERTIES
    TerminalIsStable
    ImplementsLedger
    EveryCommandCloses
    EveryRequestEnds
