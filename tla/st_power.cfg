SPECIFICATION Spec
CONSTANTS
    Workers = {w1, w2}
    NoWorker = NoWorker
    Dirs = {A, B}
    Names = {x, y}
    A = A
    B = B
    x = x
    y = y
    Data = Data
    MaxFid = 4
    MaxInode = 5
    InitLinks <- Links
    FirstFree = 3
    Requests <- AllRequests
    MaxRequests = 4
    MaxFailures = 1
INVARIANTS StorageInv Survives Gone Existing AtomicWrites WritesSeen
CHECK_DEADLOCK FALSE
SYMMETRY Sym
