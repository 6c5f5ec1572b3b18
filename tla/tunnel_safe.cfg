SPECIFICATION TunnelSpec
CONSTANTS
    r1 = r1
    r2 = r2
    d1 = d1
    s1 = s1
    Free = Free
    GwReader = GwReader
    None = None
    Reqs = {r1, r2}
    Deps = {d1}
    Stops = {s1}
    Cap = 2
CHECK_DEADLOCK FALSE
SYMMETRY MCSymmetry
INVARIANTS
    TunnelTypeOK
    RightAnswer
    ChannelHasRoom
    NoPendingLeft
    RoutesAgree
PROPERTY NotFoundIsTrue
