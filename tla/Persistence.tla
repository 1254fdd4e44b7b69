---------------------------- MODULE Persistence ----------------------------
(***************************************************************************)
(* The SQLite repository of services/api/persistence_repository.py, the    *)
(* schema and triggers of persistence_schema.py and the review decision    *)
(* workflow on top of them.  The whole database is one record; a           *)
(* repository call, a transaction and a direct UPDATE or DELETE are one    *)
(* step each (SQLite serialises writers).  A call that raises rolls back   *)
(* and is no step.                                                         *)
(*                                                                         *)
(* Every append to the audit chain, and every read of it, re-verifies the  *)
(* whole chain against the rows as they are NOW: the triggers must allow   *)
(* no change that makes an accepted event look wrong later.                *)
(*                                                                         *)
(* "content" stands for the declared columns of a row other than its       *)
(* status (for a job its idempotency key, for results and review items     *)
(* the status stands for all of them), "file" of a payload for the pair    *)
(* output_sha256 and download_filename, "Absent" for a field left out.     *)
(***************************************************************************)
EXTENDS AuditContracts, Sequences, FiniteSets

CONSTANTS
    Docs, Jobs, Keys, Results, ArtifactIds, Items, Decisions,
    Actors,
    Contents,        \* values of the declared columns
    Roles, Outcomes, \* of reviewers and their decisions
    Absent,
    Actions,         \* the audit actions clients use
    ClientPayloads,  \* and the payloads they send with them
    SourceIds, NewContents, NewJobStatuses,  \* what rows are created with
    MaxAttempts, MaxAudit, MaxJobEvents,
    MaxChanges       \* bounds of the model; MaxChanges on UPDATEs and DELETEs

ASSUME ActionsAssumption == Actions \subseteq DOMAIN Contracts
ASSUME ReviewAssumption ==
    /\ Roles \subseteq {"viewer", "operator", "reviewer", "approver", "admin"}
    /\ Outcomes \subseteq {"approved", "edited", "rejected"}
ASSUME AbsentAssumption == Absent \notin Contents \cup Nat \cup JobStatuses
ASSUME NewRowsAssumption == NewJobStatuses \subseteq JobStatuses
ASSUME BoundsAssumption == MaxAttempts \in Nat

VARIABLES
    schema,  \* the database file: absent, an older schema, or current
    db,      \* the tables
    call,    \* one client of record_authoritative_review_decision
    changes  \* UPDATEs and DELETEs so far

vars == <<schema, db, call, changes>>

ItemStatuses == {"open", "closed"}
DocumentStatuses == {"uploaded", "inspected"}
Severities == {"high", "review"}

Range(s) == {s[k] : k \in DOMAIN s}
Put(f, k, v) == [x \in DOMAIN f \cup {k} |-> IF x = k THEN v ELSE f[x]]
Drop(f, k) == [x \in DOMAIN f \ {k} |-> f[x]]

NoRows == [x \in {} |-> x]
EmptyDb ==
    [documents |-> NoRows, sources |-> NoRows, jobs |-> NoRows, events |-> NoRows,
     results |-> NoRows, artifacts |-> NoRows, items |-> NoRows,
     decisions |-> NoRows, audit |-> <<>>]

Payloads ==
    [status : JobStatuses \cup ItemStatuses \cup DocumentStatuses \cup {Absent},
     attempts : 0..MaxAttempts \cup {Absent},
     content : Contents \cup Keys \cup (Items \X ArtifactIds) \cup {Absent},
     file : (ArtifactIds \X Contents) \cup {Absent}]

Nothing == [status |-> Absent, attempts |-> Absent, content |-> Absent, file |-> Absent]

ASSUME PayloadsAssumption == ClientPayloads \subseteq Payloads

-----------------------------------------------------------------------------
(* Lookups shared by writing and verifying.                                *)

(* _require_job_document.                                                  *)
JobDocument(D, j, d) == j \in DOMAIN D.jobs /\ D.jobs[j].doc = d

(* An event is known by its sequence number, which the contiguity triggers *)
(* make its position.                                                      *)
JobEvent(D, j, k) == D.events[j][k]

Table(D, scope) ==
    CASE scope \in {"document", "source_document"} -> D.documents
      [] scope = "source_artifact" -> D.sources
      [] scope \in {"job", "job_event"} -> D.jobs
      [] scope = "conversion_result" -> D.results
      [] scope = "artifact" -> D.artifacts
      [] scope = "review_item" -> D.items
      [] scope = "review_decision" -> D.decisions

(* The scope row exists and belongs to the event's job and document        *)
(* (_require_audit_scope, and the trigger audit_events_scope_reference).   *)
InScope(D, scope, id, j, d) ==
    CASE scope \in {"document", "source_document"} -> id = d
      [] scope = "source_artifact" -> id \in DOMAIN D.sources /\ D.sources[id].doc = d
      [] scope = "job" -> id = j
      [] scope = "job_event" -> id \in DOMAIN D.events[j]
      [] OTHER -> /\ id \in DOMAIN Table(D, scope)
                  /\ Table(D, scope)[id].job = j
                  /\ Table(D, scope)[id].doc = d

ScopeRow(D, scope, id, j) ==
    IF scope = "job_event" THEN D.jobs[j] ELSE Table(D, scope)[id]

(* Artifacts a download may claim: stored, of a successful result.  An     *)
(* event that is only being re-read no longer asks for the job's status.   *)
DownloadRows(D, j, action, historical) ==
    {a \in DOMAIN D.artifacts :
        /\ D.artifacts[a].job = j
        /\ D.results[D.artifacts[a].result].status = "succeeded"
        /\ historical \/ D.jobs[j].status \in Contracts[action].jobs}

(* _require_download_evidence: the artifacts the payload identifies.       *)
DownloadMatches(D, j, action, p, historical) ==
    {a \in DownloadRows(D, j, action, historical) :
        \/ action # "desktop_result_download" /\ p.file = Absent
        \/ p.file = <<a, D.artifacts[a].content>>}

-----------------------------------------------------------------------------
(* Payload checks.                                                         *)

ColumnMatches(value, column) == value \in {Absent, column}

(* Aliases of the job's status and attempts: values the action allows.     *)
StatusPossible(p, action) == p.status \in Contracts[action].jobs \cup {Absent}
AttemptsPossible(p, action) == Contracts[action].unattempted => p.attempts \in {0, Absent}

(* In an event that is re-read they must be possible, no longer current.   *)
HistoricalJobPayload(D, j, p, action) ==
    /\ ColumnMatches(p.content, D.jobs[j].key)
    /\ StatusPossible(p, action)
    /\ AttemptsPossible(p, action)

CurrentJobPayload(D, j, p, action) ==
    /\ HistoricalJobPayload(D, j, p, action)
    /\ ColumnMatches(p.status, D.jobs[j].status)
    /\ ColumnMatches(p.attempts, D.jobs[j].attempts)

(* An audit of a job event repeats the event's own snapshot.               *)
SnapshotMatches(p, e) ==
    ColumnMatches(p.status, e.payload.status) /\ ColumnMatches(p.attempts, e.payload.attempts)

(* A desktop event on a document may carry the attempts of the job.        *)
DesktopJobPayload(D, scope, j, p, action, historical) ==
    p.attempts # Absent =>
        /\ scope = "document" /\ action \in DesktopActions
        /\ historical \/ p.attempts = D.jobs[j].attempts
        /\ AttemptsPossible(p, action)

FileDeclared(p, action) == p.file # Absent => Contracts[action].evidence

(* _require_audit_scope_semantics and the checks it calls.                 *)
ScopePayload(D, scope, id, j, action, p, historical) ==
    LET row == ScopeRow(D, scope, id, j) IN
    /\ FileDeclared(p, action)
    /\ CASE scope = "job" ->
              IF historical THEN HistoricalJobPayload(D, j, p, action)
                            ELSE CurrentJobPayload(D, j, p, action)
         [] scope = "job_event" ->
              /\ HistoricalJobPayload(D, j, p, JobEvent(D, j, id).action)
              /\ SnapshotMatches(p, JobEvent(D, j, id))
         [] scope \in {"document", "source_document"} ->
              /\ ColumnMatches(p.content, row.content)
              /\ historical \/ ColumnMatches(p.status, row.status)
              /\ DesktopJobPayload(D, scope, j, p, action, historical)
         [] scope \in {"conversion_result", "review_item"} ->
              /\ ColumnMatches(p.status, row.status)
              /\ p.attempts = Absent /\ p.content = Absent
         [] OTHER ->
              ColumnMatches(p.content, row.content) /\ p.status = Absent /\ p.attempts = Absent

(* Who may say so, and whether the row is in the state the action claims.  *)
ScopeActor(D, scope, id, j, actor, action) ==
    /\ Contracts[action].uploader => actor = D.documents[D.jobs[j].doc].by
    /\ scope = "job_event" =>
          /\ actor = JobEvent(D, j, id).actor
          /\ JobEventActionMatches(JobEvent(D, j, id).action, action)
    /\ scope = "conversion_result" => D.results[id].status \in Contracts[action].results
    /\ scope = "review_decision" =>
          /\ actor = D.decisions[id].actor
          /\ DecisionActionMatches(D.decisions[id].decision, action)

-----------------------------------------------------------------------------
(* Verification.                                                           *)

(* _verify_job_event_history.                                              *)
JobEventVerifies(D, j, e) ==
    /\ HistoricalJobPayload(D, j, e.payload, e.action)
    /\ FileDeclared(e.payload, e.action)
    /\ Contracts[e.action].uploader => e.actor = D.documents[D.jobs[j].doc].by
    /\ Contracts[e.action].evidence =>
          /\ e.links # {}
          /\ e.links \subseteq DownloadMatches(D, j, e.action, e.payload, TRUE)

HistoryVerifies(D, j) == \A k \in DOMAIN D.events[j] : JobEventVerifies(D, j, D.events[j][k])

(* SHA-256 over the canonical JSON of the event, taken as collision free.  *)
Digest(e) == <<e.job, e.doc, e.actor, e.action, e.scope, e.sid, e.payload, e.prev>>

TailHash(D) == IF D.audit = <<>> THEN <<>> ELSE D.audit[Len(D.audit)].hash

(* _require_audit_scope: what is asked of a new event and, again, of every *)
(* stored one.                                                             *)
ScopeHolds(D, e, historical) ==
    /\ e.scope \in Contracts[e.action].scopes
    /\ JobDocument(D, e.job, e.doc)
    /\ InScope(D, e.scope, e.sid, e.job, e.doc)
    /\ e.scope = "job_event" => HistoryVerifies(D, e.job)
    /\ ScopePayload(D, e.scope, e.sid, e.job, e.action, e.payload, historical)
    /\ ScopeActor(D, e.scope, e.sid, e.job, e.actor, e.action)
    /\ Contracts[e.action].evidence =>
          /\ e.links # {}
          /\ e.links \subseteq DownloadMatches(D, e.job, e.action, e.payload,
                                               historical \/ e.scope = "job_event")
          /\ e.scope = "job_event" => e.links = JobEvent(D, e.job, e.sid).links
    /\ historical \/ e.scope = "job_event" \/ JobActionAvailable(D.jobs[e.job], e.action)

(* _verify_audit_chain.                                                    *)
ChainVerifies(D) ==
    \A k \in DOMAIN D.audit :
        LET e == D.audit[k] IN
        /\ ScopeHolds(D, e, TRUE)
        /\ e.prev = (IF k = 1 THEN <<>> ELSE D.audit[k - 1].hash)
        /\ e.hash = Digest(e)

-----------------------------------------------------------------------------
(* Creating rows.                                                          *)

Current == schema = "current"

Write(D) == db' = D /\ UNCHANGED <<schema, call, changes>>

Alter(D) ==
    /\ changes < MaxChanges
    /\ changes' = changes + 1
    /\ db' = D
    /\ UNCHANGED <<schema, call>>

(* Artifact ids and storage keys are unique across both artifact tables.   *)
FreshArtifactId(D, a) == a \notin DOMAIN D.sources \cup DOMAIN D.artifacts

(* create_document: the source artifact and the document in one            *)
(* transaction.                                                            *)
CreateDocument(d, a, v, u) ==
    /\ Current
    /\ d \notin DOMAIN db.documents
    /\ FreshArtifactId(db, a)
    /\ Write([db EXCEPT
          !.sources = Put(@, a, [doc |-> d, content |-> v, by |-> u]),
          !.documents = Put(@, d, [artifact |-> a, content |-> v, by |-> u,
                                   status |-> "uploaded"])])

(* create_conversion_job, and create_or_get_conversion_job for a key not   *)
(* seen before; with a known key the latter returns the row or raises.     *)
CreateJob(j, d, key, s) ==
    /\ Current
    /\ j \notin DOMAIN db.jobs
    /\ d \in DOMAIN db.documents
    /\ \A other \in DOMAIN db.jobs : db.jobs[other].key # key
    /\ Write([db EXCEPT
          !.jobs = Put(@, j, [doc |-> d, key |-> key, status |-> s, attempts |-> 0]),
          !.events = Put(@, j, <<>>)])

CreateResult(r, j, d, s) ==
    /\ Current
    /\ r \notin DOMAIN db.results
    /\ JobDocument(db, j, d)
    /\ Write([db EXCEPT !.results =
          Put(@, r, [job |-> j, doc |-> d, status |-> s])])

(* _require_result_scope.                                                  *)
ResultScope(D, r, j, d) == r \in DOMAIN D.results /\ D.results[r].job = j /\ D.results[r].doc = d

CreateArtifact(a, r, j, d, v) ==
    /\ Current
    /\ FreshArtifactId(db, a)
    /\ ResultScope(db, r, j, d)
    /\ Write([db EXCEPT !.artifacts =
          Put(@, a, [result |-> r, job |-> j, doc |-> d, content |-> v])])

CreateItem(i, j, d, sev) ==
    /\ Current
    /\ i \notin DOMAIN db.items
    /\ JobDocument(db, j, d)
    /\ Write([db EXCEPT !.items =
          Put(@, i, [job |-> j, doc |-> d, status |-> "open", severity |-> sev])])

(* _require_review_item_matches_artifact.                                  *)
ItemMatchesArtifact(D, i, a) ==
    /\ i \in DOMAIN D.items /\ a \in DOMAIN D.artifacts
    /\ D.items[i].job = D.artifacts[a].job /\ D.items[i].doc = D.artifacts[a].doc

DecisionRow(D, i, a, actor, role, decision) ==
    [item |-> i, artifact |-> a, job |-> D.items[i].job, doc |-> D.items[i].doc,
     content |-> <<i, a>>, actor |-> actor, role |-> role, decision |-> decision]

(* create_review_decision on its own: no permission is asked for here.     *)
CreateDecision(x, i, a, actor, role, decision) ==
    /\ Current
    /\ x \notin DOMAIN db.decisions
    /\ ItemMatchesArtifact(db, i, a)
    /\ Write([db EXCEPT !.decisions =
          Put(@, x, DecisionRow(db, i, a, actor, role, decision))])

JobEventRow(D, j, action, actor, p) ==
    [action |-> action, actor |-> actor, payload |-> p,
     links |-> IF Contracts[action].evidence THEN DownloadMatches(D, j, action, p, FALSE)
                                             ELSE {}]

(* create_job_event: the history is verified, the job must be in a state   *)
(* the action may claim, the payload must agree with the job as it is now; *)
(* a download is bound to the artifacts it identifies.                     *)
CreateJobEvent(j, action, actor, p) ==
    LET e == JobEventRow(db, j, action, actor, p) IN
    /\ Current
    /\ j \in DOMAIN db.jobs
    /\ Len(db.events[j]) < MaxJobEvents
    /\ HistoryVerifies(db, j)
    /\ "job_event" \in Contracts[action].scopes
    /\ JobActionAvailable(db.jobs[j], action)
    /\ CurrentJobPayload(db, j, p, action)
    /\ JobEventVerifies(db, j, e)
    /\ Write([db EXCEPT !.events[j] = Append(@, e)])

(* The evidence of a download is what it matches now; an audit of a job    *)
(* event takes over the event's own evidence.                              *)
AuditRow(D, j, d, action, actor, scope, sid, p) ==
    LET links ==
            CASE ~Contracts[action].evidence -> {}
              [] Contracts[action].evidence /\ scope = "job_event" -> JobEvent(D, j, sid).links
              [] OTHER -> DownloadMatches(D, j, action, p, FALSE)
        e == [job |-> j, doc |-> d, actor |-> actor, action |-> action,
              scope |-> scope, sid |-> sid, payload |-> p, prev |-> TailHash(D)]
    IN [f \in DOMAIN e \cup {"links", "hash"} |->
            CASE f = "links" -> links [] f = "hash" -> Digest(e) [] OTHER -> e[f]]

(* create_audit_event inside any transaction: the scope, then the whole    *)
(* chain, then the append.                                                 *)
AppendAudit(D, e) ==
    /\ Len(D.audit) < MaxAudit
    /\ ScopeHolds(D, e, FALSE)
    /\ ChainVerifies(D)

CreateAuditEvent(j, d, action, actor, scope, sid, p) ==
    /\ Current
    /\ JobDocument(db, j, d)
    /\ InScope(db, scope, sid, j, d)
    /\ LET e == AuditRow(db, j, d, action, actor, scope, sid, p) IN
       /\ AppendAudit(db, e)
       /\ Write([db EXCEPT !.audit = Append(@, e)])

-----------------------------------------------------------------------------
(* Changing rows: what the triggers let any writer of the database do.     *)

AuditScoped(D, scope, id) ==
    \E e \in Range(D.audit) : e.scope = scope /\ e.sid = id

AuditedDocument(D, d) == \E e \in Range(D.audit) : e.doc = d

EvidenceArtifacts(D) ==
    (UNION {e.links : e \in Range(D.audit)})
        \cup (UNION {e.links : e \in UNION {Range(D.events[j]) : j \in DOMAIN D.events}})

ArtifactsOf(D, r) == {a \in DOMAIN D.artifacts : D.artifacts[a].result = r}
DecidedArtifact(D, a) == \E x \in DOMAIN D.decisions : D.decisions[x].artifact = a
DecidedItem(D, i) == \E x \in DOMAIN D.decisions : D.decisions[x].item = i

(* jobs: identity and source binding never change.                         *)
UpdateJob(j, s, n) ==
    /\ Current
    /\ j \in DOMAIN db.jobs
    /\ Alter([db EXCEPT !.jobs[j].status = s, !.jobs[j].attempts = n])

(* source_documents: columns other than the status only change to what the *)
(* (immutable) source artifact says, and not once the document is audited. *)
(* Bug: the trigger compares the row with itself.                          *)
MatchesItself(D, d, v) == D.documents[d].artifact \in DOMAIN D.sources
MatchesSource(D, d, v) == v = D.sources[D.documents[d].artifact].content
DocumentLocked(D, d, v) == v # D.documents[d].content /\ AuditedDocument(D, d)

UpdateDocument(d, s, v) ==
    /\ Current
    /\ d \in DOMAIN db.documents
    /\ MatchesSource(db, d, v)
    /\ ~DocumentLocked(db, d, v)
    /\ Alter([db EXCEPT !.documents[d].status = s, !.documents[d].content = v])

(* conversion_results_audit_scope_no_update and ..._no_delete.             *)
ResultAudited(D, r) ==
    \/ AuditScoped(D, "conversion_result", r)
    \/ \E a \in ArtifactsOf(D, r) : AuditScoped(D, "artifact", a)
    \/ \E x \in DOMAIN D.decisions :
          D.decisions[x].artifact \in ArtifactsOf(D, r) /\ AuditScoped(D, "review_decision", x)

(* Bug: only the evidence of audit events is looked at.                    *)
ResultIsAuditEvidence(D, r) == ArtifactsOf(D, r) \cap (UNION {e.links : e \in Range(D.audit)}) # {}
ResultIsEvidence(D, r) == ArtifactsOf(D, r) \cap EvidenceArtifacts(D) # {}

UpdateResult(r, s) ==
    /\ Current
    /\ r \in DOMAIN db.results
    /\ ~ResultAudited(db, r) /\ ~ResultIsEvidence(db, r)
    /\ Alter([db EXCEPT !.results[r].status = s])

DeleteResult(r) ==
    /\ Current
    /\ r \in DOMAIN db.results
    /\ ArtifactsOf(db, r) = {}
    /\ ~ResultAudited(db, r)
    /\ Alter([db EXCEPT !.results = Drop(@, r)])

(* The four triggers that freeze a generated artifact.                     *)
ArtifactFrozen(D, a) ==
    \/ DecidedArtifact(D, a)
    \/ a \in EvidenceArtifacts(D)
    \/ AuditScoped(D, "artifact", a)

UpdateArtifact(a, v) ==
    /\ Current
    /\ a \in DOMAIN db.artifacts
    /\ ~ArtifactFrozen(db, a)
    /\ Alter([db EXCEPT !.artifacts[a].content = v])

DeleteArtifact(a) ==
    /\ Current
    /\ a \in DOMAIN db.artifacts
    /\ ~ArtifactFrozen(db, a)
    /\ Alter([db EXCEPT !.artifacts = Drop(@, a)])

(* Bugs: a decided item may change; an item is frozen with its document.   *)
ItemFrozenByAudit(D, i) == AuditScoped(D, "review_item", i)
ItemFrozenByDocument(D, i) == DecidedItem(D, i) \/ AuditedDocument(D, D.items[i].doc)
ItemFrozen(D, i) == DecidedItem(D, i) \/ AuditScoped(D, "review_item", i)

(* update_review_item_status, or an UPDATE of the other columns.           *)
UpdateItem(i, s, sev) ==
    /\ Current
    /\ i \in DOMAIN db.items
    /\ ~ItemFrozen(db, i)
    /\ Alter([db EXCEPT !.items[i].status = s, !.items[i].severity = sev])

DeleteItem(i) ==
    /\ Current
    /\ i \in DOMAIN db.items
    /\ ~ItemFrozen(db, i)
    /\ Alter([db EXCEPT !.items = Drop(@, i)])

JobReferenced(D, j) ==
    \/ D.events[j] # <<>>
    \/ \E r \in DOMAIN D.results : D.results[r].job = j
    \/ \E i \in DOMAIN D.items : D.items[i].job = j

JobAudited(D, j) == \E e \in Range(D.audit) : e.job = j

(* A job can be deleted while nothing refers to it.                        *)
DeleteJob(j) ==
    /\ Current
    /\ j \in DOMAIN db.jobs
    /\ ~JobReferenced(db, j) /\ ~JobAudited(db, j)
    /\ Alter([db EXCEPT !.jobs = Drop(@, j), !.events = Drop(@, j)])

-----------------------------------------------------------------------------
(* The review decision workflow.                                           *)

Permitted(role, decision) ==
    CASE decision \in {"approved", "rejected"} -> role \in {"approver", "admin"}
      [] decision = "edited" -> role \in {"reviewer", "approver", "admin"}

HighRiskHeld(D, i, role, decision) ==
    D.items[i].severity = "high" => role \in {"approver", "admin"} /\ decision = "approved"

(* The tables after the item is closed and the decision stored.            *)
Decided(D, x, i, a, actor, role, decision) ==
    [D EXCEPT !.items[i].status = IF @ = "open" THEN "closed" ELSE @,
              !.decisions = Put(@, x, DecisionRow(D, i, a, actor, role, decision))]

DecisionAudit(D, x) ==
    LET row == D.decisions[x]
    IN AuditRow(D, row.job, row.doc, row.decision, row.actor, "review_decision", x,
                [Nothing EXCEPT !.content = row.content])

(* Every condition of the first transaction of                             *)
(* record_authoritative_review_decision.                                   *)
CanDecide(D, x, i, a, actor, role, decision) ==
    /\ Permitted(role, decision)
    /\ i \in DOMAIN D.items
    /\ HighRiskHeld(D, i, role, decision)
    /\ D.items[i].status = "open" => ~ItemFrozen(D, i)
    /\ x \notin DOMAIN D.decisions
    /\ ItemMatchesArtifact(D, i, a)
    /\ LET after == Decided(D, x, i, a, actor, role, decision)
       IN AppendAudit(after, DecisionAudit(after, x))

Decide(x, i, a, actor, role, decision) ==
    /\ Current
    /\ call.phase # "committed"
    /\ CanDecide(db, x, i, a, actor, role, decision)
    /\ LET after == Decided(db, x, i, a, actor, role, decision)
       IN db' = [after EXCEPT !.audit = Append(@, DecisionAudit(after, x))]
    /\ call' = [phase |-> "committed", id |-> x, item |-> i,
                row |-> DecisionRow(db, i, a, actor, role, decision), reset |-> FALSE]
    /\ UNCHANGED <<schema, changes>>

(* The second transaction: read back the decision and its audit event, and *)
(* with it the whole chain.                                                *)
SnapshotFound(D, x) ==
    /\ x \in DOMAIN D.decisions
    /\ \E e \in Range(D.audit) : e.scope = "review_decision" /\ e.sid = x
    /\ ChainVerifies(D)

Snapshot ==
    /\ call.phase = "committed"
    /\ call' = [call EXCEPT !.phase =
                    IF Current /\ SnapshotFound(db, call.id) THEN "answered" ELSE "raised"]
    /\ UNCHANGED <<schema, db, changes>>

-----------------------------------------------------------------------------
(* initialize: creates what is missing, refuses what differs.              *)
Initialize ==
    /\ schema = "absent"
    /\ schema' = "current"
    /\ UNCHANGED <<db, call, changes>>

(* reset: drops every table, whatever its version, and initializes.  In    *)
(* the model it uses up the budget of changes.                             *)
Reset ==
    /\ changes < MaxChanges
    /\ schema' = "current"
    /\ db' = EmptyDb
    /\ call' = IF call.phase # "idle" THEN [call EXCEPT !.reset = TRUE] ELSE call
    /\ changes' = MaxChanges

Init ==
    /\ schema \in {"absent", "older", "current"}
    /\ db = EmptyDb
    /\ call = [phase |-> "idle"]
    /\ changes = 0

Insert ==
    \/ \E d \in Docs, a \in SourceIds, v \in NewContents, u \in Actors : CreateDocument(d, a, v, u)
    \/ \E j \in Jobs, d \in Docs, key \in Keys, s \in NewJobStatuses : CreateJob(j, d, key, s)
    \/ \E r \in Results, j \in Jobs, d \in Docs, s \in ResultStatuses : CreateResult(r, j, d, s)
    \/ \E a \in ArtifactIds, r \in Results, j \in Jobs, d \in Docs, v \in NewContents :
          CreateArtifact(a, r, j, d, v)
    \/ \E i \in Items, j \in Jobs, d \in Docs, sev \in Severities : CreateItem(i, j, d, sev)
    \/ \E x \in Decisions, i \in Items, a \in ArtifactIds, actor \in Actors, role \in Roles,
          decision \in Outcomes : CreateDecision(x, i, a, actor, role, decision)

Record ==
    \/ \E j \in Jobs, action \in Actions, actor \in Actors, p \in ClientPayloads :
          CreateJobEvent(j, action, actor, p)
    \/ \E j \in Jobs, d \in Docs, action \in Actions, actor \in Actors,
          p \in ClientPayloads :
          \E scope \in Contracts[action].scopes :
          \E sid \in DOMAIN Table(db, scope) \cup 1..MaxJobEvents :
             CreateAuditEvent(j, d, action, actor, scope, sid, p)

Change ==
    \/ \E j \in Jobs, s \in JobStatuses, n \in 0..MaxAttempts : UpdateJob(j, s, n)
    \/ \E d \in Docs, s \in DocumentStatuses, v \in Contents : UpdateDocument(d, s, v)
    \/ \E r \in Results, s \in ResultStatuses : UpdateResult(r, s)
    \/ \E a \in ArtifactIds, v \in Contents : UpdateArtifact(a, v)
    \/ \E i \in Items, s \in ItemStatuses, sev \in Severities : UpdateItem(i, s, sev)

Delete ==
    \/ \E r \in Results : DeleteResult(r)
    \/ \E a \in ArtifactIds : DeleteArtifact(a)
    \/ \E i \in Items : DeleteItem(i)
    \/ \E j \in Jobs : DeleteJob(j)

Workflow ==
    \/ \E x \in Decisions, i \in Items, a \in ArtifactIds, actor \in Actors, role \in Roles,
          decision \in Outcomes : Decide(x, i, a, actor, role, decision)
    \/ Snapshot

Next == Insert \/ Record \/ Change \/ Delete \/ Workflow \/ Initialize \/ Reset

Spec == Init /\ [][Next]_vars

-----------------------------------------------------------------------------
(* Properties.                                                             *)

(* Whatever writers do to the rows an accepted event refers to, the audit  *)
(* chain and every job's history still verify: no later append or read of  *)
(* them raises (_verify_audit_chain, _verify_job_event_history).           *)
AuditStaysVerifiable ==
    ChainVerifies(db) /\ \A j \in DOMAIN db.jobs : HistoryVerifies(db, j)

(* A document and its source artifact describe the same upload, so that    *)
(* get_document and get_source_artifact never raise.                       *)
ProvenanceBound ==
    /\ \A d \in DOMAIN db.documents :
          LET a == db.documents[d].artifact IN
          /\ a \in DOMAIN db.sources
          /\ db.sources[a] = [doc |-> d, content |-> db.documents[d].content,
                              by |-> db.documents[d].by]
    /\ \A a \in DOMAIN db.sources : db.documents[db.sources[a].doc].artifact = a
    /\ DOMAIN db.sources \cap DOMAIN db.artifacts = {}

(* Between the commit of a review decision and its answer other writers    *)
(* may run, but only a reset can take the decision back: the caller reads  *)
(* what it wrote, audited under its own name, on an item that is closed    *)
(* and, at high risk, approved by an approver or admin.                    *)
DecisionAnswerTrue ==
    call.phase # "idle" =>
        /\ call.phase = "raised" => call.reset
        /\ ~call.reset =>
              /\ call.id \in DOMAIN db.decisions /\ db.decisions[call.id] = call.row
              /\ \E e \in Range(db.audit) : /\ e.scope = "review_decision" /\ e.sid = call.id
                                            /\ e.actor = call.row.actor
                                            /\ e.action = call.row.decision
              /\ db.items[call.item].status = "closed"
              /\ HighRiskHeld(db, call.item, call.row.role, call.row.decision)

(* An open review item with a generated artifact can be approved, unless   *)
(* it was decided or audited while open: those rows are frozen, and the    *)
(* workflow can no longer close them.                                      *)
DecidableUnlessFrozen ==
    \A i \in DOMAIN db.items, a \in DOMAIN db.artifacts, x \in Decisions, u \in Actors :
        /\ Current /\ ItemMatchesArtifact(db, i, a)
        /\ ~DecidedItem(db, i) /\ ~AuditScoped(db, "review_item", i)
        /\ x \notin DOMAIN db.decisions /\ Len(db.audit) < MaxAudit
        => CanDecide(db, x, i, a, u, "approver", "approved")
=============================================================================
