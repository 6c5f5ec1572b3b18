SPECIFICATION GatewaySpec
CONSTANTS
    p1 = p1
    p2 = p2
    c1 = c1
    c2 = c2
    d1 = d1
    d2 = d2
    v1 = v1
    None = None
    Peers = {p1, p2}
    Conns = {c1, c2}
    Deps = {d1, d2}
    Visitors = {v1}
    Cap = 1
INVARIANTS
    GatewayTypeOK
    RoutesServed
    RoutesKept
    TunnelsListed
PROPERTY GatewayStops
CHECK_DEADLOCK FALSE
