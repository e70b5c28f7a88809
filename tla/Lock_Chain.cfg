CONSTANTS
    c1 = c1
    c2 = c2
    c3 = c3
    c4 = c4
    c5 = c5
    k1 = k1
    k2 = k2
    NoCall = NoCall
    Calls = {c1, c2, c3, c4, c5}
    Keys = {k1, k2}
    KeyOf <- FourAndOne
    Detaches = {c1}
    Hangs = {c2}
SPECIFICATION FairSpec
CHECK_DEADLOCK FALSE
INVARIANTS
    LockSafe
    Serialized
PROPERTIES
    Refines
    WaitersMove
