CONSTANTS
    j1 = j1
    j2 = j2
    w1 = w1
    w2 = w2
    c1 = c1
    None = None
    Boot = Boot
    Items = {1}
    Jobs = {j1}
    JobOf <- AllInOne
    Mode <- RecordMode
    Workers = {w1}
    Cancels = {c1}
    FreeSlots = 1
    AnalyzeConcurrency = 1
    MaxAttempts = 1
    ClaimLimit = 20
    ManualRecording = FALSE
    MaxVersion = 8
    MaxRestarts = 1
SPECIFICATION FairSpec
CHECK_DEADLOCK FALSE
PROPERTIES
    JobSettles
