SPECIFICATION Spec
SYMMETRY Symmetry
CONSTANTS
    Accounts = {a1, a2}
    Sources = {i1}
    NoKey = NoKey
    NoEntry = NoEntry
    Requests = {r1, r2}
    AccountFailures = 2
    SourceFailures = 1
    AccountLockout = 1
    SourceLockout = 1
    MaxKeys = 1
    SweepInterval = 2
    MaxTime = 10
    MaxAttempts = 3
INVARIANTS
    LockoutExact
    OvertimeBounded
PROPERTIES
    CrowdedOutBriefly
CHECK_DEADLOCK FALSE
