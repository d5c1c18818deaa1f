SPECIFICATION FairSpec
CONSTANTS
    MaxRotations = 2
    MaxRestarts = 1
    MaxDrops = 0
PROPERTIES
    NoDowntime
CHECK_DEADLOCK FALSE
