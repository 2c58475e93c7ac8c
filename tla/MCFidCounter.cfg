SPECIFICATION Spec
CONSTANTS
    Threads = {t1, t2, t3}
    NoThread = NoThread
    FirstFid = 9
    MaxCount = 15
    MaxCrashes = 2
SYMMETRY WorkerSymmetry
INVARIANT CounterInv
PROPERTY EpochNewest
PROPERTY ReturnsFresh
CHECK_DEADLOCK FALSE
