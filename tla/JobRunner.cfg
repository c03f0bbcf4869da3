SPECIFICATION Spec
INVARIANTS
    InFlightIsHeld
    SlotSharedOnlyByRace
    SourcesSettle
    UploadKept
CONSTANTS
    Jobs = {j1, j2}
    Uploads = {j2}
    Sources = {s1}
    Cancellers = {c1}
    NoJob = NoJob
    MaxFaults = 1
CHECK_DEADLOCK FALSE
