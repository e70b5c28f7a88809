CONSTANTS
    a1 = a1
    a2 = a2
    c1 = c1
    c2 = c2
    c3 = c3
    Agents = {a1, a2}
    Sockets = {c1, c2}
    NoSocket = NoSocket
    MaxLog = 2
    QueueMax = 1
    MaxFaults = 1
    Scenarios <- Operations
SPECIFICATION Spec
CHECK_DEADLOCK FALSE
INVARIANTS
    LinkInv
    KnownIsRouted
PROPERTIES
    RouteRecovers
    SessionsConverge
