SPECIFICATION FairSpec
CONSTANTS
    None = None
    s1 = s1
    s2 = s2
    Saves = {s1, s2}
    Urls = 2
    MaxNames = 2
    MaxProofs = 2
    MaxTokens = 4
    MaxRestarts = 1
INVARIANTS
    OutcomeMatchesAudit
    AuditedFilesKept
PROPERTIES
    EverySaveEnds
CHECK_DEADLOCK FALSE
