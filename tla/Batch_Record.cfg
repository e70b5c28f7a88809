CONSTANTS
    j1 = j1
    j2 = j2
    w1 = w1
    w2 = w2
    c1 = c1
    None = None
    Boot = Boot
    Items = {1, 2}
    Jobs = {j1}
    JobOf <- AllInOne
    Mode <- RecordMode
    Workers = {w1, w2}
    Cancels = {c1}
    FreeSlots = 1
    AnalyzeConcurrency = 1
    MaxAttempts = 1
    ClaimLimit = 20
    ManualRecording = TRUE
    MaxVersion = 1000
    MaxRestarts = 0
SPECIFICATION Spec
VIEW VersionView
SYMMETRY WorkerSymmetry
CHECK_DEADLOCK FALSE
INVARIANTS
    JobsAgree
PROPERTIES
    TerminalItemsStay
