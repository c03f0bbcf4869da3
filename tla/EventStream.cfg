SPECIFICATION FairSpec
INVARIANTS
    LossOnlyByOvertaking
    RecordedOvertakenByPresenceOnly
PROPERTIES
    EveryRowArrives
CONSTANTS
    Recorded = {e1}
    Alone = {a1}
    Beats = {b1}
    Buffer = 1
    MaxReplay = 1
    MaxDrops = 2
CHECK_DEADLOCK FALSE
