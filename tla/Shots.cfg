CONSTANTS
    w1 = w1
    w2 = w2
    timer = timer
    bulk = bulk
    Writers <- MCWriters
    Scanners <- MCScanners
    Timer = timer
    MaxRetry = 2
    MaxForced = 3
    MaxCrashes = 1
    MaxRows = 3
    MaxObjects = 12
    Settings <- MCSettings
SPECIFICATION FairShotSpec
CHECK_DEADLOCK FALSE
INVARIANTS
    StoresAgree
    NewestWins
PROPERTIES
    PendingSettles
