\* Two overlapping connections, a detector job, database failures included.
SPECIFICATION FairSpec
CONSTANTS
    Sockets = {s1, s2}
    NoSocket = NoSocket
    Jobs = {j1}
    DbFails = TRUE
INVARIANTS LatestIsActive PingStateIsSwept
PROPERTIES OneOfflineUpdate WatchedStaleIsDetected TimersStop ConnectedIsNotOffline SilentBecomesOffline
