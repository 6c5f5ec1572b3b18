SPECIFICATION Spec
CONSTANTS
    w1 = w1
    w2 = w2
    s1 = s1
    s2 = s2
    Workers = {w1, w2}
    Stoppers = {s1, s2}
    MaxDeploys = 3
    maxSlots = 2
    maxCPU = 3
    maxMemory = 3
    Requests <- MCRequests
    MaxLimit = 2
    MinMemory = 1
    ClockRepeats = FALSE
    EarlyStops = FALSE
    DockerFails = FALSE
INVARIANTS
    NoOrphans
    StopComplete
PROPERTY ImplementsLifecycle
