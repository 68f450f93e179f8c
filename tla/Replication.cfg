SPECIFICATION MCSpec
CONSTANTS
    r1 = r1
    r2 = r2
    w1 = w1
    w2 = w2
    Keys = {r1, r2}
    Vals = {1, 2}
    Absent = Absent
    Start <- OnlyA
    Updates <- TwoRows
    Writers = {w1}
    MaxCommits = 3
    MaxConns = 1
    BcastCap = 4
    ChanCap = 4
    SyncCap = 4
    Root = TRUE
    Joins = {TRUE}
    Faults = {"resubscribe"}
INVARIANTS StreamExact OrderKept
PROPERTY CatchesUp
CHECK_DEADLOCK FALSE
