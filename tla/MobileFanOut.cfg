SPECIFICATION FairSpec
CONSTANTS
    Requests = {r1}
    Users = {ann, bob}
    NoOne = NoOne
    Rule = Rule
INVARIANTS
    FanOutAfterCommit
CHECK_DEADLOCK FALSE
