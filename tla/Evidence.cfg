SPECIFICATION Spec
SYMMETRY Symmetry
CONSTANTS
    b1 = b1
    e1 = e1
    e2 = e2
    Blobs = {b1, b2}
    Owners = {e1, e2}
    Stored <- MCStored
    Uploaded = {b1, b2}
    Requests = {c1, c2, c3}
    MaxRow = 7
    MaxCall = 4
    MaxFault = 1
INVARIANTS
    EvidenceOutlivesFaults
    QuietContentStorable
    CountCoversRows
CHECK_DEADLOCK FALSE
