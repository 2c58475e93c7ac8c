SPECIFICATION Spec
CONSTANTS
    Files = {x, y}
    Blocks = {k1}
    Workers = {h1}
    NoWorker = NoWorker
    MaxTries = 2
    MaxBuffers = 3
    MaxWrites = 2
    MaxCommits = 2
    MaxCrashes = 1
    MaxBreaks = 0
    MaxFailures = 0
INVARIANT FsyncDurable
CHECK_DEADLOCK FALSE
