SPECIFICATION Spec
CONSTANTS
    Absent = Absent
    d1 = d1
    j1 = j1
    k1 = k1
    r1 = r1
    a0 = a0
    a1 = a1
    i1 = i1
    x1 = x1
    u1 = u1
    v1 = v1
    v2 = v2
    Docs = {d1}
    Jobs = {j1}
    Keys = {k1}
    Results = {r1}
    ArtifactIds = {a0, a1}
    Items = {i1}
    Decisions = {x1}
    Actors = {u1}
    Contents = {v1, v2}
    Roles = {"reviewer", "approver"}
    Outcomes = {"approved", "edited"}
    Actions = {"download_result", "review_opened", "artifact_generated", "approved", "desktop_upload"}
    ClientPayloads <- MCPayloads
    MaxAttempts = 1
    MaxAudit = 2
    MaxChanges = 1
    SourceIds = {a0}
    NewContents = {v1}
    NewJobStatuses = {"queued", "succeeded"}
    MaxJobEvents = 1
INVARIANTS
    AuditStaysVerifiable
    ProvenanceBound
    DecisionAnswerTrue
    DecidableUnlessFrozen
CHECK_DEADLOCK FALSE
