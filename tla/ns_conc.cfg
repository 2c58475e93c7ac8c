SPECIFICATION Spec
CONSTANTS
    Workers = {w1, w2}
    Names = {"d1", "d2", "foo", "bar"}
    Like <- Plain
    NoPattern = {}
    NoGroup = {}
    NoFileName = {}
    MaxFid = 7
    MaxDepth = 3
    FirstFree = 5
    InitNumbered <- FlatNumbered
    InitNamed <- FlatNamed
    InitDirs <- FlatDirs
    Requests <- OneWayRequests
    MaxRequests = 4
    MaxCrashes = 1
SYMMETRY WorkerSymmetry
INVARIANTS NamesUnique Findable
CHECK_DEADLOCK FALSE
PROPERTY AtomicTree
