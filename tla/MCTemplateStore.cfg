SPECIFICATION Spec
CONSTANTS
    custom = custom
    seeded = seeded
    u1 = u1
    u2 = u2
    TemplateIds = {custom, seeded}
    Names = {"n0", "n1", "n2"}
    Fields = {"f0", "f1", "f2"}
    Mappings = {"m1", "m2"}
    Seed <- MCSeed
    Requests <- MCRequests
    Principals = {u1, u2}
    SeedActor = seedActor
    Jobs = {j1}
    None = None
    Malformed = Malformed
    Authentication = TRUE
    MaxVersions = 3
    MaxRestarts = 1
INVARIANTS
    UpdatesLoseNothing
    PinnedDefinitionsUsed
CHECK_DEADLOCK FALSE
