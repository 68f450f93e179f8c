SPECIFICATION FairSpec
CONSTANTS
    a = a
    b = b
    c = c
    big = big
    Reqs <- MCReqs
    Rows <- MCRows
    ChanCap = 2
    MaxBatch = 2
    Faults = {"stmt", "begin", "commit", "crash", "cancel", "close"}
INVARIANTS
    AckInv
    AckedIsStored
    RowsExact
    NoDirtyRead
    EventsFollowCommits
PROPERTIES
    KeepsPromise
    CallsAnswered
CHECK_DEADLOCK FALSE
