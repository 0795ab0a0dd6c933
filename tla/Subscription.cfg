SPECIFICATION FairSpec
CONSTANTS
    a = a
    b = b
    x = x
    y = y
    p = p
    q = q
    NoId = NoId
    AnyColl = AnyColl
    Ids = {a, b}
    Colls = {x, y}
    Asked = {AnyColl, x}
    Publishers = {p}
    MaxSubs = 1
    BufferSize = 1
    MaxRuns = 2
    MaxEvents = 2
INVARIANTS TypeOK TableSound NoSendOnClosed FeedComplete CapHolds CloseReaches
PROPERTIES CancelReleases
CHECK_DEADLOCK FALSE
