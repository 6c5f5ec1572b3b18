SPECIFICATION ProviderSpec
CONSTANTS
    w1 = w1
    s1 = s1
    main = main
    Workers = {w1}
    Stoppers = {s1, main}
    Closer = main
    MaxStarts = 2
    Cap = 1
    Free = Free
    Visitor = Visitor
    MaxDeploys = 2
    maxSlots = 2
    maxCPU = 2
    maxMemory = 2
    Requests <- MCOneRequest
    MaxLimit = 1
    MinMemory = 1
    ClockRepeats = FALSE
    EarlyStops = FALSE
    DockerFails = FALSE
CHECK_DEADLOCK FALSE
INVARIANTS
    ProviderTypeOK
    ProviderAccounting
    RoutesLive
    ShutdownStopsSettled
PROPERTIES
    NoPanicWhileUp
    ShutdownEnds
