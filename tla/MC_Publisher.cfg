CONSTANTS
    c1 = c1
    c2 = c2
    n1 = n1
    ShutdownCallers <- MCShutdownCallers
    NowCallers <- MCNowCallers
    MaxPoints = 2
    MaxTicks = 2
    MaxDrops = 1
SPECIFICATION Spec
PROPERTIES
    LoopStopsAfterShutdown
    ShutdownCompletes
    ImplementsContract
CHECK_DEADLOCK FALSE
