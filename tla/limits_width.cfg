SPECIFICATION LimitsSpec
CONSTANTS
    c1 = c1
    c2 = c2
    c3 = c3
    NaN = NaN
    None = None
    W = 6
    Kilo = 2
    Fine = 2
    MaxCores = 11
    MinMemory = 3
    maxCPU = 9
    maxMemory = 8
    maxSlots = 2
    Calls = {c1, c2, c3}
    Handlers = 2
    CPUFlags <- MCCPUFlags
    MemFlags <- MCMemFlags
SYMMETRY MCSymmetry
INVARIANTS
    LimitsTypeOK
    BooksBalance
    CPUBudget
    MemoryBudget
