SPECIFICATION FairSpec
CONSTANTS
    a = a
    b = b
    x = x
    y = y
    p = p
    q = q
    NoId = NoId
    AnyColl = AnyColl
    Ids = {a}
    Colls = {x}
    Asked = {AnyColl}
    Publishers = {p}
    MaxSubs = 1
    BufferSize = 1
    MaxRuns = 2
    MaxEvents = 0
PROPERTIES CloseEndsAll
CHECK_DEADLOCK FALSE
