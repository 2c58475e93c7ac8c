SPECIFICATION FairSpec
CONSTANTS
    Files = {x}
    Blocks = {k1}
    Workers = {h1, h2}
    NoWorker = NoWorker
    MaxTries = 2
    MaxBuffers = 4
    MaxWrites = 2
    MaxCommits = 2
    MaxCrashes = 1
    MaxBreaks = 2
    MaxFailures = 1
INVARIANT ProtocolInv
PROPERTY FsyncReturns
CHECK_DEADLOCK FALSE
