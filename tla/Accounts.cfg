SPECIFICATION Spec
SYMMETRY Symmetry
CONSTANTS
    Users = {u1, u2}
    First = u1
    Mapped = {"member"}
    Calls = {c1, c2}
    MaxCall = 4
INVARIANTS
    AdminsLostOnlyByUnguardedWrite
    DisabledHoldsNoSession
PROPERTIES
    EnabledOnPurpose
CHECK_DEADLOCK FALSE
