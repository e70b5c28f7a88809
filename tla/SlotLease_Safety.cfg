CONSTANTS
    n1 = n1
    s1 = s1
    s2 = s2
    s3 = s3
    t1 = t1
    None = None
    Nodes = {n1}
    Slots = {0, 1}
    Sessions = {s1, s2, s3}
    Trajectories = {t1}
    Capacity <- TwoEach
SPECIFICATION FairSpec
CHECK_DEADLOCK FALSE
INVARIANTS
    LeaseInv
    SlotsAccounted
PROPERTIES
    OpenSettles
