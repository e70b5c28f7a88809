CONSTANTS
    s1 = s1
    s2 = s2
    s3 = s3
    None = None
    Slots = {0, 1}
    Sessions = {s1, s2, s3}
    Settings <- BothSettings
SPECIFICATION FairSpec
CHECK_DEADLOCK FALSE
INVARIANTS
    SlotsInv
    CloseSparesOthers
    BibsAgree
PROPERTIES
    CallsEnd
