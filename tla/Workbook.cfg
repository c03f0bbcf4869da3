SPECIFICATION Spec
INVARIANTS
    PinsDivergeOnlyByOverlap
    LeadLostOnlyByOverlap
    OrdinalsDense
CONSTANTS
    Calls = {c1, c2}
    Pins = {v1, v2}
    Users = {u1, u2}
    Creator = u1
    Starts = {2}
    PlanSize = 2
    MaxOrdinal = 4
    MaxCall = 4
SYMMETRY Symmetry
CHECK_DEADLOCK FALSE
