SPECIFICATION Spec
CONSTANTS
    Procs = {a, b, c}
    MaxKeys = 5
SYMMETRY MCSymmetry
INVARIANTS
    IdentityTypeOK
    StoredIsHeld
    EstablishedKept
