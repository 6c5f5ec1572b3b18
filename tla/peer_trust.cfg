SPECIFICATION PeeringSpec
CONSTANTS
    a = a
    b = b
    Nobody = Nobody
    Nodes = {a, b}
    Users = {a}
INVARIANTS
    PeeringTypeOK
    MutualTrust
    AnswerIsTrue
PROPERTY CommandEnds
