SPECIFICATION FairSpec
CONSTANTS
    MaxRotations = 2
    MaxRestarts = 1
    MaxDrops = 1
INVARIANTS
    AgentAccepted
    HelperFollows
PROPERTIES
    HelperCatchesUp
    DueIsRotated
CHECK_DEADLOCK FALSE
