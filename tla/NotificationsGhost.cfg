SPECIFICATION Spec
CONSTANTS
    r1 = r1
    r2 = r2
    ann = ann
    bob = bob
    cat = cat
    s1 = s1
    s2 = s2
    w1 = w1
    w2 = w2
    NoKey = NoKey
    NoTime = NoTime
    Workers = {w1}
    Records = {r1, r2}
    Actors = {ann, bob, cat}
    Keys = {s1, s2}
    Times = {1, 2}
    Logs <- MCLogs
    MaxFanOutPerRecord = 2
    MaxIds = 6
    MaxStarts = 2
    MaxFaults = 0
INVARIANT NoGhost
CHECK_DEADLOCK FALSE
