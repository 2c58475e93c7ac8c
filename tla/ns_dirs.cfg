SPECIFICATION Spec
CONSTANTS
    Workers = {w1, w2}
    Names = {"a", "b", "foo"}
    Like <- Plain
    NoPattern = {}
    NoGroup = {}
    NoFileName = {}
    MaxFid = 6
    MaxDepth = 4
    FirstFree = 5
    InitNumbered <- AsideNumbered
    InitNamed <- AsideNamed
    InitDirs <- NestDirs
    Requests <- NestRequests
    MaxRequests = 4
    MaxCrashes = 1
SYMMETRY WorkerSymmetry
INVARIANTS TypeOK LockOwned TreeInv
CHECK_DEADLOCK FALSE
PROPERTY OnlyAsked
