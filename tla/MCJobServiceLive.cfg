SPECIFICATION ServiceSpec
CONSTANTS
    None = None
    j1 = j1
    j2 = j2
    j3 = j3
    t1 = t1
    t2 = t2
    t3 = t3
    a1 = a1
    a2 = a2
    w1 = w1
    c1 = c1
    key1 = key1
    key2 = key2
    JobIds = {j1, j2}
    Threads = {t1, t2}
    Actors = {a1}
    Workers = {}
    Contents = {c1}
    Requests <- MCMixed
    MaxAttempts = 1
    UnlinkMayFail = FALSE
    MaxSeq = 8
    MaxRowid = 3
    MaxTries = 3
    MaxCrashes = 2
PROPERTIES
    EventuallyAnswered
    
CHECK_DEADLOCK FALSE
