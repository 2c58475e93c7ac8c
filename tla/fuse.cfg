SPECIFICATION FairSpec
CONSTANTS
    MaxFid = 9
    Names = {d, x, y, z, p}
    d = d
    x = x
    y = y
    z = z
    p = p
    Like <- Patterns
    InitNumbered <- Numbered
    InitNamed <- NamedFiles
    InitDirs = {1, 2}
    FirstFree = 5
    Length <- Bytes
    MaxBufLen = 2
    MaxEntries = 2
    Requests <- Callbacks
    OtherRequests <- Others
    ListDir = 1
    MaxTries = 2
    MaxOps = 3
    MaxOthers = 1
    MaxCrashes = 1
    MaxBreaks = 1
INVARIANTS ClientInv AtMostOnce AnswerTrue ListingComplete ReadExact
PROPERTY OpReturns
CHECK_DEADLOCK FALSE
