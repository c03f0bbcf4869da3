SPECIFICATION Spec
CONSTANTS
    Calls = {c1, c2}
    Steps = {s1}
    Categories = {d1}
    MaxVersion = 4
    NoStep = NoStep
SYMMETRY Symmetry
INVARIANTS
    NoLostUpdate
    ShutRefusesLateCalls
    StartedIsRevealed
PROPERTIES
    StatusMovesLegally
