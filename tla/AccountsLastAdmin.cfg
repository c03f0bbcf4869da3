SPECIFICATION Spec
SYMMETRY Symmetry
CONSTANTS
    Users = {u1, u2}
    First = u1
    Mapped = {}
    Calls = {c1, c2}
    MaxCall = 5
INVARIANTS
    AnAdminRemains
CHECK_DEADLOCK FALSE
