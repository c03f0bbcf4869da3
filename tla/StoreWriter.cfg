SPECIFICATION FairSpec
INVARIANTS
    OneWriter
    NoConnLeak
    FanOutMatchesOutcome
    PublishedInCommitOrder
PROPERTIES
    KeepsPromise
    QuietAfterClose
    EveryWriteReturns
    CloseReturns
CONSTANTS
    Writes = {w1, w2}
    Readers = {r1, r2}
    PoolSize = 2
    MaxRecords = 2
CHECK_DEADLOCK FALSE
