SPECIFICATION FairSpec
CONSTANTS
    MaxRecoveryAttempts = 3
    MaxRestartsPer24h = 2
    HistoryCap = 2
    IpcFailThreshold = 2
    InboxSize = 1
    MaxAged = 0
    MaxCommanded = 0
    MaxDeaths = 0
PROPERTIES
    DeadAgentHandled
    ReconnectRecovers
