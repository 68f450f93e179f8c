SPECIFICATION MCSpec
CONSTANTS
    p = p
    q = q
    r = r
    v = v
    w = w
    None = None
    Absent = Absent
SYMMETRY Interchangeable
INVARIANT OwnersListed
CHECK_DEADLOCK FALSE
