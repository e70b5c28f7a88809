CONSTANTS
    s1 = s1
    s2 = s2
    e1 = e1
    Syncs <- MCSyncs
    Edits <- MCEdits
    Settings <- MCSettings
    NumActions = 3
    NumPhases = 2
    MaxRows = 4
    MaxBeside = 2
    Given = {0, 2}
SPECIFICATION LedgerSpec
CHECK_DEADLOCK FALSE
INVARIANTS
    LedgerAgrees
    PicturesAgree
    OrderKept
PROPERTIES
    MoveKeepsOthers
