CONSTANTS
    c1 = c1
    c2 = c2
    n1 = n1
    ShutdownCallers <- MCShutdownCallers
    NowCallers <- MCNowCallers
    MaxPoints = 1
    MaxTicks = 1
    MaxDrops = 0
SPECIFICATION Spec
INVARIANTS
    FinalPublicationIsLast
CHECK_DEADLOCK FALSE
