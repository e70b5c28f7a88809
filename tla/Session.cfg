SPECIFICATION Spec
CONSTANTS
    t1 = t1
    t2 = t2
    s1 = s1
    s2 = s2
    c1 = c1
    c2 = c2
    NoOne = NoOne
    NumRows = 2
    Trajs <- BothTrajs
    Sessions <- BothSessions
    Calls <- BothCalls
    Settings <- AllSettings
CHECK_DEADLOCK FALSE
INVARIANTS
    OwnersAgree
    SessionsAccounted
PROPERTIES
    OwnerKept
    RowsEnd
