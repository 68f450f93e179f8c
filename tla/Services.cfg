SPECIFICATION MCSpec
CONSTANTS
    p = p
    q = q
    r = r
    v = v
    w = w
    None = None
    Absent = Absent
SYMMETRY Interchangeable
INVARIANTS
    QueueSafe
    
    
    
    AccountsSafe
    SchemaSafe
    RecordsExact
    ReadersAgree
    

    
CHECK_DEADLOCK FALSE
