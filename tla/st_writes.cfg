SPECIFICATION Spec
CONSTANTS
    Workers = {w1, w2}
    NoWorker = NoWorker
    Dirs = {A, B}
    Names = {x, y}
    A = A
    B = B
    x = x
    y = y
    Data = Data
    MaxFid = 3
    MaxInode = 4
    InitLinks <- Links
    FirstFree = 3
    Requests <- Writes
    MaxRequests = 1
    MaxFailures = 1
INVARIANT DurableWrites
CHECK_DEADLOCK FALSE
