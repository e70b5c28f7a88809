CONSTANTS
    r1 = r1
    r2 = r2
    d1 = d1
    Runs <- MCRuns
    Stops <- MCStops
    Settings <- MCSettings
    NumPhases = 2
    MaxQueue = 2
SPECIFICATION Spec
CHECK_DEADLOCK FALSE
INVARIANTS
    VerdictsAgree
    NoFalseSuccess
PROPERTIES
    StopStands
    RunsEnd
