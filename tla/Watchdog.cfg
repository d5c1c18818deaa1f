SPECIFICATION FairSpec
CONSTANTS
    MaxRecoveryAttempts = 3
    MaxRestartsPer24h = 1
    HistoryCap = 1
    IpcFailThreshold = 2
    InboxSize = 1
    MaxAged = 1
    MaxCommanded = 1
    MaxDeaths = 1
INVARIANTS
    TypeOK
    RestartBudget
PROPERTIES
    VerifiedByHeartbeat
