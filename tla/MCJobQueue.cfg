SPECIFICATION Spec
CONSTANTS
    None = None
    j1 = j1
    j2 = j2
    j3 = j3
    c1 = c1
    c2 = c2
    key1 = key1
    key2 = key2
    key3 = key3
    JobIds = {j1, j2}
    Contents = {c1, c2}
    Requests <- MCRequests
    MaxAttempts = 2
    UnlinkMayFail = TRUE
    MaxSeq = 3
    MaxRowid = 3
    MaxTries = 3
    MaxCrashes = 2
SYMMETRY JobSymmetry
INVARIANTS
    AtMostOneActiveHighQuality
    DurableMirror
    NoDanglingArtifacts
PROPERTIES
    CrashKeepsPublishedJobs
    ImplementsLedger
CHECK_DEADLOCK FALSE
