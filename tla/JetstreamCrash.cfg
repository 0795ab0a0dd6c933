SPECIFICATION Spec
CONSTANTS
    u1 = u1
    c1 = c1
    NoRecord = NoRecord
    Uris = {u1}
    Cids = {c1}
    Stream <- PutDel
    BufferSize = 1
    DisableCursor = FALSE
    EarlierRow = TRUE
    MaxConns = 2
    MaxLoops = 1
    MaxBoots = 2
INVARIANTS TypeOK CursorCovered TableIsPrefix
PROPERTY ImplementsCursorLog
CHECK_DEADLOCK FALSE
