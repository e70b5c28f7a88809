CONSTANTS
    j1 = j1
    j2 = j2
    w1 = w1
    w2 = w2
    c1 = c1
    None = None
    Boot = Boot
    Items = {1, 2}
    Jobs = {j1, j2}
    JobOf <- OneEach
    Mode <- MixedModes
    Workers = {w1, w2}
    Cancels = {}
    FreeSlots = 1
    AnalyzeConcurrency = 1
    MaxAttempts = 1
    ClaimLimit = 20
    ManualRecording = FALSE
    MaxVersion = 1000
    MaxRestarts = 1
SPECIFICATION Spec
VIEW VersionView
SYMMETRY WorkerSymmetry
CHECK_DEADLOCK FALSE
INVARIANTS
    OneTrajectoryPerItem
    RowsAreOwned
