CONSTANTS
    MaxBatches = 2
    NumSteps = 2
    Checkpoints <- MCCheckpoints
    Retries = 1
    MaxLog = 2
    MaxStops = 1
    Settings <- MCSettings
SPECIFICATION Spec
CHECK_DEADLOCK FALSE
INVARIANTS
    FlagsHeld
    TableIsTrue
    NoEcho
PROPERTIES
    SendsNothingMore
    BatchEnds
