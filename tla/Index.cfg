SPECIFICATION Spec
CONSTANTS
    d1 = d1  u1 = u1  u2 = u2  c1 = c1  c2 = c2  h1 = h1
    Dids = {d1}  Uris = {u1, u2}  Cids = {c1, c2}  Handles = {h1}
    Owner <- MCOwner  Feed <- MCFeed
    ValMode = "enforce"  NoRow = NoRow  Null = Null
    Quotas <- MCQuotas  MaxRetries = 1
    Admins = {a1}  Reqs = {r1, r2}  Spellings = {s1, s2}  TTL = 1  MaxClock = 1  MaxUsedSigs = 1
INVARIANTS TypeOK Converges ActivitySettled TokenOnce
PROPERTY EventuallyAcked
CHECK_DEADLOCK FALSE
