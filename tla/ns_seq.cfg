SPECIFICATION Spec
CONSTANTS
    Workers = {w1}
    Names <- SeqNames
    Like <- Patterns
    NoPattern <- Unbalanced
    NoGroup <- NoNumber
    NoFileName <- TooLong
    MaxFid = 6
    MaxDepth = 4
    FirstFree = 5
    InitNumbered <- FlatNumbered
    InitNamed <- FlatNamed
    InitDirs <- FlatDirs
    Requests <- SeqRequests
    MaxRequests = 4
    MaxCrashes = 1
INVARIANTS NoLeak CacheSound NeverPoisoned Findable
CHECK_DEADLOCK FALSE
