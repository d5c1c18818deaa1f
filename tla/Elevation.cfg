SPECIFICATION FairSpec
CONSTANTS
    Requests = {r1}
    Users = {ann, bob}
    NoOne = NoOne
    Rule = Rule
INVARIANTS
    ToolRunsApproved
    MirrorAgrees
PROPERTIES
    GrantSpec
    GrantsEnd
    PendingCloses
    ToolCallEnds
CHECK_DEADLOCK FALSE
