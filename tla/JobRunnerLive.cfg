SPECIFICATION FairSpec
PROPERTIES
    EveryJobSettles
CONSTANTS
    Jobs = {j1}
    Uploads = {j1}
    Sources = {s1}
    Cancellers = {c1}
    NoJob = NoJob
    MaxFaults = 1
CHECK_DEADLOCK FALSE
