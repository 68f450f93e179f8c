SPECIFICATION ReconnectSpec
CONSTANTS
    r1 = r1
    r2 = r2
    w1 = w1
    w2 = w2
    Keys = {r1, r2}
    Vals = {1, 2}
    Absent = Absent
    Start <- OnlyA
    Updates <- Counter
    Writers = {w1}
    MaxCommits = 2
    MaxConns = 2
    BcastCap = 3
    ChanCap = 3
    SyncCap = 3
    Root = TRUE
    Joins = {TRUE}
    Faults = {"disconnect"}
INVARIANT Identical
CHECK_DEADLOCK FALSE
