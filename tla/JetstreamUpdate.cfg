SPECIFICATION FairSpec
CONSTANTS
    u1 = u1
    c1 = c1
    NoRecord = NoRecord
    Uris = {u1}
    Cids = {c1}
    Stream <- PutBad
    BufferSize = 1
    DisableCursor = FALSE
    EarlierRow = FALSE
    MaxConns = 2
    MaxLoops = 2
    MaxBoots = 1
INVARIANT CursorCovered
PROPERTIES PanicOnlyOnTeardown Progress
CHECK_DEADLOCK FALSE
