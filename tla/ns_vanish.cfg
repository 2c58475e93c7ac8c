SPECIFICATION Spec
CONSTANTS
    Workers = {w1, w2}
    Names = {"d1", "d2", "foo", "bar"}
    Like <- Plain
    NoPattern = {}
    NoGroup = {}
    NoFileName = {}
    MaxFid = 6
    MaxDepth = 3
    FirstFree = 5
    InitNumbered <- FlatNumbered
    InitNamed <- FlatNamed
    InitDirs <- FlatDirs
    Requests <- ToAndFroRequests
    MaxRequests = 3
    MaxCrashes = 0
INVARIANT Findable
CHECK_DEADLOCK FALSE
