SPECIFICATION Spec
CONSTANTS
    w1 = w1
    w2 = w2
    s1 = s1
    Workers = {w1, w2}
    Stoppers = {s1}
    MaxDeploys = 3
    maxSlots = 1
    maxCPU = 3
    maxMemory = 3
    Requests <- MCRequests
    MaxLimit = 2
    MinMemory = 1
    ClockRepeats = TRUE
    EarlyStops = TRUE
    DockerFails = TRUE
SYMMETRY MCSymmetry
INVARIANTS
    TypeOK
    Accounting
    SlotsBound
