SPECIFICATION Spec
CONSTANTS
    c1 = c1
    c2 = c2
    v1 = v1
    v2 = v2
    Calls = {c1, c2}
    Requests <- ConcurrentRequests
    Vals = {v1, v2}
    MaxId = 6
    LastId = 4
    Initial <- Cycle
    MaxActive = 2
    Faulty = FALSE
    None = None
INVARIANT UniqueValues
CHECK_DEADLOCK FALSE
