SPECIFICATION Spec
CONSTANTS
    Peers = {p1, p2}
    Ctls = {c1, c2, c3}
SYMMETRY MCSymmetry
INVARIANTS
    TrustTypeOK
    OnlyAdded
    LedgerKept
PROPERTY SerialRestartRevokes
