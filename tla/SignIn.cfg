SPECIFICATION Spec
SYMMETRY Symmetry
CONSTANTS
    Calls = {c1, c2}
    Skew = 1
    MaxStep = 2
    MaxPw = 2
    MaxSecret = 2
    MaxCode = 2
    MaxChallenge = 2
    MaxSession = 2
    MaxCall = 6
INVARIANTS
    CodeBuysOneSession
    OldPasswordOnlyInFlight
    RemovedFactorLeavesNoCodes
CHECK_DEADLOCK FALSE
