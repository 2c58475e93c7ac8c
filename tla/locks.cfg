SPECIFICATION FairSpec
CONSTANTS
    Workers = {w1, w2, w3}
    Nobody = Nobody
    MaxDepth = 2
    MaxRequests = 3
    WriterFirst = FALSE
INVARIANT NoCircle
PROPERTY Drains
CHECK_DEADLOCK FALSE
