SPECIFICATION Spec
CONSTANTS
    u1 = u1
    c1 = c1
    NoRecord = NoRecord
    Uris = {u1}
    Cids = {c1}
    Stream <- PutNoop
    BufferSize = 1
    DisableCursor = FALSE
    EarlierRow = TRUE
    MaxConns = 1
    MaxLoops = 1
    MaxBoots = 1
INVARIANT FailureHoldsCursor
CHECK_DEADLOCK FALSE
