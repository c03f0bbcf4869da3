SPECIFICATION Spec
SYMMETRY Symmetry
CONSTANTS
    Users = {u1, u2}
    Calls = {c1, c2, c3}
    Cap = 1
    MaxVersion = 3
    MaxShare = 1
    MaxGrant = 3
    MaxCall = 6
INVARIANTS
    CapHolds
    TwoGrantsOnlyByOverlap
    RevokedShareKeepsLateGrantsOnly
    OrdinalsDense
PROPERTIES
    PDFHashKept
CHECK_DEADLOCK FALSE
