SPECIFICATION Spec
CONSTANTS
    Files = {x}
    Blocks = {k1, k2}
    Workers = {h1}
    NoWorker = NoWorker
    MaxTries = 2
    MaxBuffers = 3
    MaxWrites = 3
    MaxCommits = 2
    MaxCrashes = 2
    MaxBreaks = 0
    MaxFailures = 0
INVARIANTS NothingLost FsyncDurable Resendable
PROPERTY NeverBack
CHECK_DEADLOCK FALSE
