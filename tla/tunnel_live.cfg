SPECIFICATION TunnelSpec
CONSTANTS
    r1 = r1
    d1 = d1
    s2 = s2
    s1 = s1
    Free = Free
    GwReader = GwReader
    None = None
    Reqs = {r1}
    Deps = {d1}
    Stops = {s1, s2}
    Cap = 1
CHECK_DEADLOCK FALSE
PROPERTIES RequestEndsOrWedged LostConnectionCleared
