------------------------- MODULE PersistenceProofs -------------------------
(***************************************************************************)
(* Theorems about Persistence for every set of rows, actors and payloads   *)
(* and every value of the bounds: what the audit chain relies on is        *)
(* frozen, so it verifies for ever, and a review decision is answered as   *)
(* it was written.                                                         *)
(***************************************************************************)
EXTENDS Persistence, TLAPS

-----------------------------------------------------------------------------
(* The inductive invariant.                                                *)

(* A database has the nine tables, each a function from ids to rows.       *)
Shaped(D) ==
    D = [documents |-> D.documents, sources |-> D.sources, jobs |-> D.jobs,
         events |-> D.events, results |-> D.results, artifacts |-> D.artifacts,
         items |-> D.items, decisions |-> D.decisions, audit |-> D.audit]

AllContents == Contents \cup NewContents
DocumentRows == [artifact : SourceIds, content : AllContents, by : Actors,
                 status : DocumentStatuses]
SourceRows == [doc : Docs, content : AllContents, by : Actors]
JobRows == [doc : Docs, key : Keys, status : JobStatuses, attempts : Nat]
ResultRows == [job : Jobs, doc : Docs, status : ResultStatuses]
ArtifactRows == [result : Results, job : Jobs, doc : Docs, content : AllContents]
ItemRows == [job : Jobs, doc : Docs, status : ItemStatuses, severity : Severities]

IsSeq(s) == s \in Seq(Range(s))

Typed(D) ==
    /\ D.documents \in [DOMAIN D.documents -> DocumentRows]
    /\ D.sources \in [DOMAIN D.sources -> SourceRows]
    /\ D.jobs \in [DOMAIN D.jobs -> JobRows]
    /\ D.results \in [DOMAIN D.results -> ResultRows]
    /\ D.artifacts \in [DOMAIN D.artifacts -> ArtifactRows]
    /\ D.items \in [DOMAIN D.items -> ItemRows]

(* Events are numbered from one, and every audit event has a declared      *)
(* action.                                                                 *)
Logged(D) ==
    /\ IsSeq(D.audit)
    /\ \A k \in DOMAIN D.audit : D.audit[k].action \in DOMAIN Contracts
    /\ D.events = [j \in DOMAIN D.jobs |-> D.events[j]]
    /\ \A j \in DOMAIN D.jobs : IsSeq(D.events[j])

(* The foreign keys.                                                       *)
Referenced(D) ==
    /\ \A j \in DOMAIN D.jobs : D.jobs[j].doc \in DOMAIN D.documents
    /\ \A i \in DOMAIN D.items : JobDocument(D, D.items[i].job, D.items[i].doc)
    /\ \A a \in DOMAIN D.artifacts : D.artifacts[a].result \in DOMAIN D.results
    /\ \A a \in DOMAIN D.sources : D.sources[a].doc \in DOMAIN D.documents

CallOK ==
    /\ call.phase \in {"idle", "committed", "answered", "raised"}
    /\ call.phase = "idle" => call = [phase |-> "idle"]
    /\ call.phase # "idle" =>
          /\ call = [phase |-> call.phase, id |-> call.id, item |-> call.item,
                     row |-> call.row, reset |-> call.reset]
          /\ Current
          /\ ~call.reset => call.item \in DOMAIN db.items /\ call.row.item = call.item

DbInv ==
    /\ Shaped(db)
    /\ Typed(db)
    /\ Logged(db)
    /\ Referenced(db)

Inv ==
    /\ DbInv
    /\ AuditStaysVerifiable
    /\ ProvenanceBound
    /\ CallOK
    /\ DecisionAnswerTrue

-----------------------------------------------------------------------------
(* What a step may never take from the audit: E keeps what D's events rely *)
(* on.                                                                     *)

SameRow(f, g, x) == x \in DOMAIN f => x \in DOMAIN g /\ g[x] = f[x]

LinksKept(D, E, links) ==
    \A a \in links :
        /\ SameRow(D.artifacts, E.artifacts, a)
        /\ a \in DOMAIN D.artifacts =>
              E.results[D.artifacts[a].result].status = D.results[D.artifacts[a].result].status

JobKept(D, E, j) ==
    /\ j \in DOMAIN E.jobs
    /\ E.jobs[j].doc = D.jobs[j].doc
    /\ E.jobs[j].key = D.jobs[j].key
    /\ E.documents[D.jobs[j].doc].by = D.documents[D.jobs[j].doc].by

HistoryKept(D, E, j) == \A k \in DOMAIN D.events[j] : SameRow(D.events[j], E.events[j], k)

Relied(D, j) == D.events[j] # <<>> \/ JobAudited(D, j)

Keeps(D, E) ==
    /\ \A d \in DOMAIN D.documents :
          AuditedDocument(D, d) => E.documents[d].content = D.documents[d].content
    /\ \A a \in DOMAIN D.sources : SameRow(D.sources, E.sources, a)
    /\ \A j \in DOMAIN D.jobs : Relied(D, j) => JobKept(D, E, j) /\ HistoryKept(D, E, j)
    /\ \A r \in DOMAIN D.results :
          AuditScoped(D, "conversion_result", r) => SameRow(D.results, E.results, r)
    /\ \A a \in DOMAIN D.artifacts :
          AuditScoped(D, "artifact", a) => SameRow(D.artifacts, E.artifacts, a)
    /\ \A i \in DOMAIN D.items :
          AuditScoped(D, "review_item", i) \/ DecidedItem(D, i) => SameRow(D.items, E.items, i)
    /\ \A x \in DOMAIN D.decisions : SameRow(D.decisions, E.decisions, x)
    /\ LinksKept(D, E, EvidenceArtifacts(D))

(* Only verified events enter a history.                                   *)
HistoryGrowsVerified(D, E) ==
    \A j \in DOMAIN E.jobs : \A k \in DOMAIN E.events[j] :
        \/ j \in DOMAIN D.jobs /\ k \in DOMAIN D.events[j] /\ E.events[j][k] = D.events[j][k]
        \/ JobEventVerifies(E, j, E.events[j][k])

Verifiable(D) == ChainVerifies(D) /\ \A j \in DOMAIN D.jobs : HistoryVerifies(D, j)

-----------------------------------------------------------------------------
(* Lemmas about the contracts, sequences and the two verifiers.            *)

Scopes ==
    {"document", "source_document", "source_artifact", "job", "job_event",
     "conversion_result", "artifact", "review_item", "review_decision"}

(* The declared scopes of every action.                                    *)
LEMMA ContractScopes ==
    ASSUME NEW action \in DOMAIN Contracts
    PROVE  Contracts[action].scopes \subseteq Scopes
<1>1. /\ Contracts.source_upload.scopes = UploadScopes
      /\ Contracts.desktop_upload.scopes = DesktopScopes
      /\ Contracts.document_inspected.scopes = {"document", "source_document"}
      /\ Contracts.artifact_generated.scopes = {"artifact"}
      /\ Contracts.review_opened.scopes = {"review_item"}
  BY DEF Contracts, Unrestricted
<1>2. /\ Contracts.job_queued.scopes = JobScopes
      /\ Contracts.job_running.scopes = JobScopes
      /\ Contracts.job_failed.scopes = ResultScopes
      /\ Contracts.job_succeeded.scopes = ResultScopes
      /\ Contracts.job_retry.scopes = JobScopes
  BY DEF Contracts, Lifecycle, Unrestricted
<1>3. /\ Contracts.download_result.scopes = JobScopes
      /\ Contracts.desktop_result_download.scopes = DesktopScopes
      /\ Contracts.open_detail.scopes = JobScopes
      /\ Contracts.approve.scopes = ReviewRequestScopes
      /\ Contracts.edit.scopes = ReviewRequestScopes
  BY DEF Contracts, Unrestricted
<1>4. /\ Contracts.approved.scopes = {"review_decision"}
      /\ Contracts.edited.scopes = {"review_decision"}
      /\ Contracts.rejected.scopes = {"review_decision"}
  BY DEF Contracts, Unrestricted
<1>5. action \in {"source_upload", "desktop_upload", "document_inspected", "artifact_generated",
                  "review_opened", "job_queued", "job_running", "job_failed", "job_succeeded",
                  "job_retry", "download_result", "desktop_result_download", "open_detail",
                  "approve", "edit", "approved", "edited", "rejected"}
  BY DEF Contracts
<1> QED
  BY <1>1, <1>2, <1>3, <1>4, <1>5
     DEF Scopes, JobScopes, ResultScopes, DesktopScopes, UploadScopes, ReviewRequestScopes

(* What an append to a log does to its entries.                            *)
LEMMA AppendSeq ==
    ASSUME NEW s, IsSeq(s), NEW e
    PROVE  /\ IsSeq(Append(s, e))
           /\ DOMAIN s = 1..Len(s) /\ Len(s) \in Nat
           /\ DOMAIN Append(s, e) = 1..(Len(s) + 1)
           /\ \A k \in 1..Len(s) : Append(s, e)[k] = s[k]
           /\ Append(s, e)[Len(s) + 1] = e
           /\ Range(Append(s, e)) = Range(s) \cup {e}
<1> DEFINE T == Range(s) \cup {e}
           t == Append(s, e)
<1>1. s \in Seq(Range(s))
  BY DEF IsSeq
<1>2. s \in Seq(T) /\ DOMAIN s = 1..Len(s) /\ Len(s) \in Nat
  BY <1>1
<1>3. t \in Seq(T) /\ DOMAIN t = 1..(Len(s) + 1) /\ Len(t) = Len(s) + 1
  BY <1>2
<1>4. \A k \in 1..Len(s) : t[k] = s[k]
  BY <1>2
<1>5. t[Len(s) + 1] = e
  BY <1>2
<1> HIDE DEF t
<1>6. Range(t) = T
  <2>1. ASSUME NEW y \in T PROVE y \in Range(t)
    <3>1. CASE y = e
      BY <1>2, <1>3, <1>5, <3>1 DEF Range
    <3>2. CASE y \in Range(s)
      <4>1. PICK k \in DOMAIN s : y = s[k]
        BY <3>2 DEF Range
      <4> QED
        BY <1>2, <1>3, <1>4, <4>1 DEF Range
    <3> QED
      BY <2>1, <3>1, <3>2
  <2>2. ASSUME NEW y \in Range(t) PROVE y \in T
    <3>1. PICK k \in DOMAIN t : y = t[k]
      BY <2>2 DEF Range
    <3>2. CASE k = Len(s) + 1
      BY <1>5, <3>1, <3>2
    <3>3. CASE k \in 1..Len(s)
      BY <1>2, <1>4, <3>1, <3>3 DEF Range
    <3> QED
      BY <1>2, <1>3, <3>1, <3>2, <3>3
  <2> QED
    BY <2>1, <2>2
<1>7. IsSeq(t)
  BY <1>3, <1>6 DEF IsSeq
<1> QED
  BY <1>2, <1>3, <1>4, <1>5, <1>6, <1>7 DEF t

(* A download claim still matches artifacts that were kept.                *)
LEMMA MatchesKept ==
    ASSUME NEW D, NEW E, NEW j, NEW action, NEW p, NEW links,
           links \subseteq DownloadMatches(D, j, action, p, TRUE), LinksKept(D, E, links)
    PROVE  links \subseteq DownloadMatches(E, j, action, p, TRUE)
BY DEF DownloadMatches, DownloadRows, LinksKept, SameRow

(* _verify_job_event_history reads the binding of the job, its uploader    *)
(* and the evidence, and nothing else.                                     *)
LEMMA JobEventKept ==
    ASSUME NEW D, NEW E, NEW j, NEW e, JobEventVerifies(D, j, e),
           JobKept(D, E, j), LinksKept(D, E, e.links)
    PROVE  JobEventVerifies(E, j, e)
<1>1. HistoricalJobPayload(E, j, e.payload, e.action)
  BY DEF JobEventVerifies, HistoricalJobPayload, JobKept
<1>2. Contracts[e.action].uploader => e.actor = E.documents[E.jobs[j].doc].by
  BY DEF JobEventVerifies, JobKept
<1>3. Contracts[e.action].evidence =>
        e.links # {} /\ e.links \subseteq DownloadMatches(E, j, e.action, e.payload, TRUE)
  BY MatchesKept DEF JobEventVerifies
<1> QED
  BY <1>1, <1>2, <1>3 DEF JobEventVerifies

(* The rows an audit event relies on.                                      *)
ScopeKept(D, E, e) ==
    /\ JobKept(D, E, e.job)
    /\ HistoryKept(D, E, e.job)
    /\ e.scope = "job_event" => HistoryVerifies(E, e.job)
    /\ E.documents[e.doc].content = D.documents[e.doc].content
    /\ e.scope = "source_artifact" => SameRow(D.sources, E.sources, e.sid)
    /\ e.scope = "conversion_result" => SameRow(D.results, E.results, e.sid)
    /\ e.scope = "artifact" => SameRow(D.artifacts, E.artifacts, e.sid)
    /\ e.scope = "review_item" => SameRow(D.items, E.items, e.sid)
    /\ e.scope = "review_decision" => SameRow(D.decisions, E.decisions, e.sid)
    /\ LinksKept(D, E, e.links)

(* _require_audit_scope accepts a stored event as long as those rows are   *)
(* kept.                                                                   *)
LEMMA ScopeStillHolds ==
    ASSUME NEW D, NEW E, NEW e, e.action \in DOMAIN Contracts,
           ScopeHolds(D, e, TRUE), ScopeKept(D, E, e)
    PROVE  ScopeHolds(E, e, TRUE)
<1>1. e.scope \in Scopes /\ JobDocument(D, e.job, e.doc)
  BY ContractScopes DEF ScopeHolds
<1>2. JobDocument(E, e.job, e.doc)
  BY <1>1 DEF JobDocument, ScopeKept, JobKept
<1>3. InScope(E, e.scope, e.sid, e.job, e.doc)
  <2>1. InScope(D, e.scope, e.sid, e.job, e.doc)
    BY DEF ScopeHolds
  <2> QED
    BY <1>1, <2>1 DEF Scopes, InScope, Table, ScopeKept, SameRow, HistoryKept
<1>4. e.scope = "job_event" =>
        e.sid \in DOMAIN D.events[e.job] /\ JobEvent(E, e.job, e.sid) = JobEvent(D, e.job, e.sid)
  BY DEF ScopeHolds, InScope, ScopeKept, HistoryKept, SameRow, JobEvent
<1>5. \A p, a : HistoricalJobPayload(D, e.job, p, a) => HistoricalJobPayload(E, e.job, p, a)
  BY DEF HistoricalJobPayload, ScopeKept, JobKept
<1>6. ScopePayload(E, e.scope, e.sid, e.job, e.action, e.payload, TRUE)
  <2>1. ScopePayload(D, e.scope, e.sid, e.job, e.action, e.payload, TRUE)
        /\ InScope(D, e.scope, e.sid, e.job, e.doc)
    BY DEF ScopeHolds
  <2>2. CASE e.scope = "job"
    BY <1>5, <2>1, <2>2 DEF ScopePayload
  <2>3. CASE e.scope = "job_event"
    BY <1>4, <1>5, <2>1, <2>3 DEF ScopePayload
  <2>4. CASE e.scope \in {"document", "source_document"}
    <3>1. e.sid = e.doc
      BY <2>1, <2>4 DEF InScope
    <3> QED
      BY <2>1, <2>4, <3>1 DEF ScopePayload, ScopeRow, Table, ScopeKept, DesktopJobPayload
  <2>5. CASE e.scope \in {"conversion_result", "review_item"}
    BY <2>1, <2>5 DEF ScopePayload, ScopeRow, Table, ScopeKept, SameRow, InScope
  <2>6. CASE e.scope \in {"source_artifact", "artifact", "review_decision"}
    BY <2>1, <2>6 DEF ScopePayload, ScopeRow, Table, ScopeKept, SameRow, InScope
  <2> QED
    BY <1>1, <2>2, <2>3, <2>4, <2>5, <2>6 DEF Scopes
<1>7. ScopeActor(E, e.scope, e.sid, e.job, e.actor, e.action)
  <2>1. ScopeActor(D, e.scope, e.sid, e.job, e.actor, e.action)
        /\ InScope(D, e.scope, e.sid, e.job, e.doc)
    BY DEF ScopeHolds
  <2> QED
    BY <1>4, <2>1 DEF ScopeActor, ScopeKept, JobKept, SameRow, InScope, Table
<1>8. Contracts[e.action].evidence =>
        /\ e.links # {}
        /\ e.links \subseteq DownloadMatches(E, e.job, e.action, e.payload, TRUE)
        /\ e.scope = "job_event" => e.links = JobEvent(E, e.job, e.sid).links
  BY <1>4, MatchesKept DEF ScopeHolds, ScopeKept
<1> QED
  BY <1>2, <1>3, <1>6, <1>7, <1>8 DEF ScopeHolds, ScopeKept

(* A step that keeps what is relied on leaves every log verifiable.        *)
LEMMA KeepsVerifiable ==
    ASSUME NEW D, NEW E, Logged(D), Referenced(D), Verifiable(D), Keeps(D, E),
           HistoryGrowsVerified(D, E)
    PROVE  /\ \A j \in DOMAIN E.jobs : HistoryVerifies(E, j)
           /\ \A k \in DOMAIN D.audit : ScopeHolds(E, D.audit[k], TRUE)
<1>1. ASSUME NEW j \in DOMAIN E.jobs PROVE HistoryVerifies(E, j)
  <2>1. SUFFICES ASSUME NEW k \in DOMAIN E.events[j],
                        j \in DOMAIN D.jobs, k \in DOMAIN D.events[j],
                        E.events[j][k] = D.events[j][k]
                 PROVE  JobEventVerifies(E, j, E.events[j][k])
    BY <1>1 DEF HistoryVerifies, HistoryGrowsVerified
  <2> DEFINE e == D.events[j][k]
  <2>2. JobEventVerifies(D, j, e)
    BY <2>1 DEF Verifiable, HistoryVerifies
  <2>3. JobKept(D, E, j)
    <3>1. D.events[j] # <<>>
      BY <2>1
    <3> QED
      BY <2>1, <3>1 DEF Keeps, Relied
  <2>4. LinksKept(D, E, e.links)
    <3>1. e \in Range(D.events[j]) /\ j \in DOMAIN D.events
      BY <2>1 DEF Range, Logged
    <3>2. e.links \subseteq EvidenceArtifacts(D)
      BY <3>1 DEF EvidenceArtifacts
    <3> QED
      BY <3>2 DEF Keeps, LinksKept
  <2> QED
    BY <2>1, <2>2, <2>3, <2>4, JobEventKept
<1>2. ASSUME NEW k \in DOMAIN D.audit PROVE ScopeHolds(E, D.audit[k], TRUE)
  <2> DEFINE e == D.audit[k]
  <2>1. e \in Range(D.audit) /\ e.action \in DOMAIN Contracts /\ ScopeHolds(D, e, TRUE)
    BY <1>2 DEF Range, Logged, Verifiable, ChainVerifies
  <2>2. /\ JobDocument(D, e.job, e.doc) /\ InScope(D, e.scope, e.sid, e.job, e.doc)
        /\ e.job \in DOMAIN D.jobs /\ e.doc \in DOMAIN D.documents
    BY <2>1 DEF ScopeHolds, JobDocument, Referenced
  <2> HIDE DEF e
  <2>3. JobKept(D, E, e.job) /\ HistoryKept(D, E, e.job)
    BY <2>1, <2>2 DEF Keeps, Relied, JobAudited
  <2>4. HistoryVerifies(E, e.job)
    BY <1>1, <2>3 DEF JobKept
  <2>5. E.documents[e.doc].content = D.documents[e.doc].content
    BY <2>1, <2>2 DEF Keeps, AuditedDocument
  <2>6. AuditScoped(D, e.scope, e.sid)
    BY <2>1 DEF AuditScoped
  <2>7. /\ e.scope = "source_artifact" => SameRow(D.sources, E.sources, e.sid)
        /\ e.scope = "conversion_result" => SameRow(D.results, E.results, e.sid)
        /\ e.scope = "artifact" => SameRow(D.artifacts, E.artifacts, e.sid)
        /\ e.scope = "review_item" => SameRow(D.items, E.items, e.sid)
        /\ e.scope = "review_decision" => SameRow(D.decisions, E.decisions, e.sid)
    BY <2>6 DEF Keeps, SameRow
  <2>8. LinksKept(D, E, e.links)
    <3>1. e.links \subseteq EvidenceArtifacts(D)
      BY <2>1 DEF EvidenceArtifacts
    <3> QED
      BY <3>1 DEF Keeps, LinksKept
  <2>9. ScopeKept(D, E, e)
    BY <2>3, <2>4, <2>5, <2>7, <2>8 DEF ScopeKept
  <2> QED
    BY <2>1, <2>9, ScopeStillHolds DEF e
<1> QED
  BY <1>1, <1>2

-----------------------------------------------------------------------------
(* Steps that only add rows.                                               *)

SameRows(f, g) == \A x \in DOMAIN f : SameRow(f, g, x)

Grows(D, E) ==
    /\ SameRows(D.documents, E.documents)
    /\ SameRows(D.sources, E.sources)
    /\ SameRows(D.jobs, E.jobs)
    /\ \A j \in DOMAIN D.jobs : HistoryKept(D, E, j)
    /\ SameRows(D.results, E.results)
    /\ SameRows(D.artifacts, E.artifacts)
    /\ SameRows(D.items, E.items)
    /\ SameRows(D.decisions, E.decisions)

LEMMA GrowsKeeps ==
    ASSUME NEW D, NEW E, Referenced(D), Grows(D, E)
    PROVE  Keeps(D, E)
<1>1. \A j \in DOMAIN D.jobs : JobKept(D, E, j)
  BY DEF Referenced, Grows, SameRows, SameRow, JobKept
<1>2. LinksKept(D, E, EvidenceArtifacts(D))
  BY DEF Referenced, Grows, SameRows, SameRow, LinksKept
<1> QED
  BY <1>1, <1>2 DEF Grows, SameRows, SameRow, Keeps

LEMMA PutTyped ==
    ASSUME NEW f, NEW g, NEW k, NEW v, NEW S, f \in [DOMAIN f -> S], v \in S, g = Put(f, k, v)
    PROVE  g \in [DOMAIN g -> S]
BY DEF Put

LEMMA SameTable ==
    ASSUME NEW f
    PROVE  SameRows(f, f)
BY DEF SameRows, SameRow

(* Histories that no step touched need no new verification.                *)
LEMMA SameHistories ==
    ASSUME NEW D, NEW E, DOMAIN E.jobs \subseteq DOMAIN D.jobs,
           \A j \in DOMAIN E.jobs : E.events[j] = D.events[j]
    PROVE  HistoryGrowsVerified(D, E)
BY DEF HistoryGrowsVerified

-----------------------------------------------------------------------------
(* The invariant after a step, from what the step did to the tables.       *)

(* The caller of record_authoritative_review_decision still reads what it  *)
(* wrote.                                                                  *)
LEMMA CallStep ==
    ASSUME CallOK, DecisionAnswerTrue, Keeps(db, db'), UNCHANGED <<schema, call>>,
           Range(db.audit) \subseteq Range(db'.audit)
    PROVE  CallOK' /\ DecisionAnswerTrue'
<1>1. CASE call.phase = "idle"
  BY <1>1 DEF CallOK, DecisionAnswerTrue, Current
<1>2. CASE call.phase # "idle" /\ call.reset
  BY <1>2 DEF CallOK, DecisionAnswerTrue, Current
<1>3. CASE call.phase # "idle" /\ ~call.reset
  <2>1. /\ call.id \in DOMAIN db.decisions /\ db.decisions[call.id] = call.row
        /\ call.item \in DOMAIN db.items /\ call.row.item = call.item
    BY <1>3 DEF CallOK, DecisionAnswerTrue
  <2>2. DecidedItem(db, call.item)
    BY <2>1 DEF DecidedItem
  <2>3. /\ call.id \in DOMAIN db'.decisions /\ db'.decisions[call.id] = call.row
        /\ call.item \in DOMAIN db'.items /\ db'.items[call.item] = db.items[call.item]
    BY <2>1, <2>2 DEF Keeps, SameRow
  <2>4. CallOK'
    BY <1>3, <2>3 DEF CallOK, Current
  <2>5. \E e \in Range(db'.audit) : /\ e.scope = "review_decision" /\ e.sid = call.id
                                    /\ e.actor = call.row.actor
                                    /\ e.action = call.row.decision
    BY <1>3 DEF DecisionAnswerTrue
  <2>6. DecisionAnswerTrue'
    BY <1>3, <2>3, <2>5 DEF DecisionAnswerTrue, HighRiskHeld
  <2> QED
    BY <2>4, <2>6
<1> QED
  BY <1>1, <1>2, <1>3

(* A step that leaves the audit chain alone.                               *)
LEMMA StepInv ==
    ASSUME Inv, DbInv', ProvenanceBound', Keeps(db, db'), HistoryGrowsVerified(db, db'),
           db'.audit = db.audit, UNCHANGED <<schema, call>>
    PROVE  Inv'
<1>1. Logged(db) /\ Referenced(db) /\ Verifiable(db)
  BY DEF Inv, DbInv, AuditStaysVerifiable, Verifiable
<1>2. /\ \A j \in DOMAIN db'.jobs : HistoryVerifies(db', j)
      /\ \A k \in DOMAIN db.audit : ScopeHolds(db', db.audit[k], TRUE)
  BY <1>1, KeepsVerifiable
<1>3. AuditStaysVerifiable'
  BY <1>1, <1>2 DEF AuditStaysVerifiable, Verifiable, ChainVerifies
<1>4. CallOK' /\ DecisionAnswerTrue'
  BY CallStep DEF Inv
<1> QED
  BY <1>3, <1>4 DEF Inv

-----------------------------------------------------------------------------
(* One lemma per action.                                                   *)

LEMMA CreateDocumentStep ==
    ASSUME Inv, NEW d \in Docs, NEW a \in SourceIds, NEW v \in NewContents, NEW u \in Actors,
           CreateDocument(d, a, v, u)
    PROVE  Inv'
<1> DEFINE doc == [artifact |-> a, content |-> v, by |-> u, status |-> "uploaded"]
           src == [doc |-> d, content |-> v, by |-> u]
<1>0. d \notin DOMAIN db.documents /\ a \notin DOMAIN db.sources /\ a \notin DOMAIN db.artifacts
  BY DEF CreateDocument, FreshArtifactId
<1>1. /\ db' = [db EXCEPT !.sources = Put(@, a, src), !.documents = Put(@, d, doc)]
      /\ UNCHANGED <<schema, call>>
  BY DEF CreateDocument, Write
<1>2. doc \in DocumentRows /\ src \in SourceRows
  BY DEF DocumentRows, SourceRows, AllContents, DocumentStatuses
<1>3. Shaped(db) /\ Typed(db) /\ Logged(db) /\ Referenced(db)
  BY DEF Inv, DbInv
<1>4. /\ Shaped(db') /\ db'.documents = Put(db.documents, d, doc)
      /\ db'.sources = Put(db.sources, a, src) /\ db'.jobs = db.jobs
      /\ db'.events = db.events /\ db'.results = db.results /\ db'.artifacts = db.artifacts
      /\ db'.items = db.items /\ db'.decisions = db.decisions /\ db'.audit = db.audit
  BY <1>1, <1>3 DEF Shaped
<1> HIDE DEF doc, src
<1>5. /\ DOMAIN db'.documents = DOMAIN db.documents \cup {d} /\ db'.documents[d] = doc
      /\ SameRows(db.documents, db'.documents)
  BY <1>0, <1>4 DEF Put, SameRows, SameRow
<1>6. /\ DOMAIN db'.sources = DOMAIN db.sources \cup {a} /\ db'.sources[a] = src
      /\ SameRows(db.sources, db'.sources)
  BY <1>0, <1>4 DEF Put, SameRows, SameRow
<1>7. Typed(db') /\ Logged(db')
  <2>1. db'.documents \in [DOMAIN db'.documents -> DocumentRows]
    BY <1>2, <1>3, <1>4, PutTyped DEF Typed
  <2>2. db'.sources \in [DOMAIN db'.sources -> SourceRows]
    BY <1>2, <1>3, <1>4, PutTyped DEF Typed
  <2> QED
    BY <1>3, <1>4, <2>1, <2>2 DEF Typed, Logged
<1>8. Grows(db, db')
  BY <1>4, <1>5, <1>6, SameTable DEF Grows, HistoryKept, SameRow
<1>9. Referenced(db')
  BY <1>3, <1>4, <1>5, <1>6 DEF Referenced, JobDocument, src, SameRows, SameRow
<1>10. ProvenanceBound'
  <2>2. ProvenanceBound
    BY DEF Inv
  <2>3. ASSUME NEW y \in DOMAIN db'.documents
        PROVE  /\ db'.documents[y].artifact \in DOMAIN db'.sources
               /\ db'.sources[db'.documents[y].artifact] =
                     [doc |-> y, content |-> db'.documents[y].content,
                      by |-> db'.documents[y].by]
    <3>1. CASE y = d
      BY <1>5, <1>6, <3>1 DEF doc, src
    <3>2. CASE y \in DOMAIN db.documents
      BY <1>5, <1>6, <2>2, <3>2 DEF ProvenanceBound, SameRows, SameRow
    <3> QED
      BY <1>5, <2>3, <3>1, <3>2
  <2>4. ASSUME NEW x \in DOMAIN db'.sources PROVE db'.documents[db'.sources[x].doc].artifact = x
    <3>1. CASE x = a
      BY <1>5, <1>6, <3>1 DEF doc, src
    <3>2. CASE x \in DOMAIN db.sources
      BY <1>3, <1>5, <1>6, <2>2, <3>2 DEF ProvenanceBound, Referenced, SameRows, SameRow
    <3> QED
      BY <1>6, <2>4, <3>1, <3>2
  <2>5. DOMAIN db'.sources \cap DOMAIN db'.artifacts = {}
    BY <1>0, <1>4, <1>6, <2>2 DEF ProvenanceBound
  <2> QED
    BY <2>3, <2>4, <2>5 DEF ProvenanceBound
<1> QED
  BY <1>1, <1>3, <1>4, <1>7, <1>8, <1>9, <1>10, GrowsKeeps, SameHistories, StepInv DEF DbInv

LEMMA CreateJobStep ==
    ASSUME Inv, NEW j \in Jobs, NEW d \in Docs, NEW key \in Keys, NEW s \in NewJobStatuses,
           CreateJob(j, d, key, s)
    PROVE  Inv'
<1> DEFINE job == [doc |-> d, key |-> key, status |-> s, attempts |-> 0]
<1>0. j \notin DOMAIN db.jobs /\ d \in DOMAIN db.documents
  BY DEF CreateJob
<1>1. /\ db' = [db EXCEPT !.jobs = Put(@, j, job), !.events = Put(@, j, <<>>)]
      /\ UNCHANGED <<schema, call>>
  BY DEF CreateJob, Write
<1>2. job \in JobRows
  BY NewRowsAssumption DEF JobRows
<1>3. Shaped(db) /\ Typed(db) /\ Logged(db) /\ Referenced(db)
  BY DEF Inv, DbInv
<1>4. /\ Shaped(db') /\ db'.documents = db.documents /\ db'.sources = db.sources
      /\ db'.jobs = Put(db.jobs, j, job) /\ db'.events = Put(db.events, j, <<>>)
      /\ db'.results = db.results /\ db'.artifacts = db.artifacts
      /\ db'.items = db.items /\ db'.decisions = db.decisions /\ db'.audit = db.audit
  BY <1>1, <1>3 DEF Shaped
<1>5. DOMAIN db.events = DOMAIN db.jobs
  BY <1>3 DEF Logged
<1> HIDE DEF job
<1>6. /\ DOMAIN db'.jobs = DOMAIN db.jobs \cup {j} /\ db'.jobs[j] = job
      /\ SameRows(db.jobs, db'.jobs)
  BY <1>0, <1>4 DEF Put, SameRows, SameRow
<1>7. /\ db'.events = [x \in DOMAIN db'.jobs |-> db'.events[x]] /\ db'.events[j] = <<>>
      /\ \A x \in DOMAIN db.jobs : db'.events[x] = db.events[x]
  BY <1>0, <1>4, <1>5, <1>6 DEF Put
<1>8. Typed(db')
  <2>1. db'.jobs \in [DOMAIN db'.jobs -> JobRows]
    BY <1>2, <1>3, <1>4, PutTyped DEF Typed
  <2> QED
    BY <1>3, <1>4, <2>1 DEF Typed
<1>9. Logged(db')
  <2>1. IsSeq(<<>>)
    BY DEF IsSeq
  <2> QED
    BY <1>3, <1>4, <1>6, <1>7, <2>1 DEF Logged
<1>10. Grows(db, db')
  BY <1>4, <1>6, <1>7, SameTable DEF Grows, HistoryKept, SameRow
<1>11. Referenced(db')
  BY <1>0, <1>3, <1>4, <1>6 DEF Referenced, JobDocument, job, SameRows, SameRow
<1>12. ProvenanceBound'
  BY <1>4 DEF ProvenanceBound, Inv
<1>13. HistoryGrowsVerified(db, db')
  BY <1>6, <1>7 DEF HistoryGrowsVerified
<1> QED
  BY <1>1, <1>3, <1>4, <1>8, <1>9, <1>10, <1>11, <1>12, <1>13, GrowsKeeps, StepInv DEF DbInv

LEMMA CreateResultStep ==
    ASSUME Inv, NEW r \in Results, NEW j \in Jobs, NEW d \in Docs, NEW s \in ResultStatuses,
           CreateResult(r, j, d, s)
    PROVE  Inv'
<1> DEFINE row == [job |-> j, doc |-> d, status |-> s]
<1>0. r \notin DOMAIN db.results
  BY DEF CreateResult
<1>1. db' = [db EXCEPT !.results = Put(@, r, row)] /\ UNCHANGED <<schema, call>>
  BY DEF CreateResult, Write
<1>2. row \in ResultRows
  BY DEF ResultRows
<1>3. Shaped(db) /\ Typed(db) /\ Logged(db) /\ Referenced(db)
  BY DEF Inv, DbInv
<1>4. /\ Shaped(db') /\ db'.documents = db.documents /\ db'.sources = db.sources
      /\ db'.jobs = db.jobs /\ db'.events = db.events /\ db'.results = Put(db.results, r, row)
      /\ db'.artifacts = db.artifacts /\ db'.items = db.items
      /\ db'.decisions = db.decisions /\ db'.audit = db.audit
  BY <1>1, <1>3 DEF Shaped
<1> HIDE DEF row
<1>5. DOMAIN db'.results = DOMAIN db.results \cup {r} /\ SameRows(db.results, db'.results)
  BY <1>0, <1>4 DEF Put, SameRows, SameRow
<1>6. Typed(db') /\ Logged(db')
  <2>1. db'.results \in [DOMAIN db'.results -> ResultRows]
    BY <1>2, <1>3, <1>4, PutTyped DEF Typed
  <2> QED
    BY <1>3, <1>4, <2>1 DEF Typed, Logged
<1>7. Grows(db, db')
  BY <1>4, <1>5, SameTable DEF Grows, HistoryKept, SameRow
<1>8. Referenced(db')
  BY <1>3, <1>4, <1>5 DEF Referenced, JobDocument
<1>9. ProvenanceBound'
  BY <1>4 DEF ProvenanceBound, Inv
<1> QED
  BY <1>1, <1>3, <1>4, <1>6, <1>7, <1>8, <1>9, GrowsKeeps, SameHistories, StepInv DEF DbInv

LEMMA CreateArtifactStep ==
    ASSUME Inv, NEW a \in ArtifactIds, NEW r \in Results, NEW j \in Jobs, NEW d \in Docs,
           NEW v \in NewContents, CreateArtifact(a, r, j, d, v)
    PROVE  Inv'
<1> DEFINE row == [result |-> r, job |-> j, doc |-> d, content |-> v]
<1>0. a \notin DOMAIN db.sources /\ a \notin DOMAIN db.artifacts /\ r \in DOMAIN db.results
  BY DEF CreateArtifact, FreshArtifactId, ResultScope
<1>1. db' = [db EXCEPT !.artifacts = Put(@, a, row)] /\ UNCHANGED <<schema, call>>
  BY DEF CreateArtifact, Write
<1>2. row \in ArtifactRows
  BY DEF ArtifactRows, AllContents
<1>3. Shaped(db) /\ Typed(db) /\ Logged(db) /\ Referenced(db)
  BY DEF Inv, DbInv
<1>4. /\ Shaped(db') /\ db'.documents = db.documents /\ db'.sources = db.sources
      /\ db'.jobs = db.jobs /\ db'.events = db.events /\ db'.results = db.results
      /\ db'.artifacts = Put(db.artifacts, a, row) /\ db'.items = db.items
      /\ db'.decisions = db.decisions /\ db'.audit = db.audit
  BY <1>1, <1>3 DEF Shaped
<1> HIDE DEF row
<1>5. /\ DOMAIN db'.artifacts = DOMAIN db.artifacts \cup {a} /\ db'.artifacts[a] = row
      /\ SameRows(db.artifacts, db'.artifacts)
  BY <1>0, <1>4 DEF Put, SameRows, SameRow
<1>6. Typed(db') /\ Logged(db')
  <2>1. db'.artifacts \in [DOMAIN db'.artifacts -> ArtifactRows]
    BY <1>2, <1>3, <1>4, PutTyped DEF Typed
  <2> QED
    BY <1>3, <1>4, <2>1 DEF Typed, Logged
<1>7. Grows(db, db')
  BY <1>4, <1>5, SameTable DEF Grows, HistoryKept, SameRow
<1>8. Referenced(db')
  BY <1>0, <1>3, <1>4, <1>5 DEF Referenced, JobDocument, row, SameRows, SameRow
<1>9. ProvenanceBound'
  BY <1>0, <1>4, <1>5 DEF ProvenanceBound, Inv
<1> QED
  BY <1>1, <1>3, <1>4, <1>6, <1>7, <1>8, <1>9, GrowsKeeps, SameHistories, StepInv DEF DbInv

LEMMA CreateItemStep ==
    ASSUME Inv, NEW i \in Items, NEW j \in Jobs, NEW d \in Docs, NEW sev \in Severities,
           CreateItem(i, j, d, sev)
    PROVE  Inv'
<1> DEFINE row == [job |-> j, doc |-> d, status |-> "open", severity |-> sev]
<1>0. i \notin DOMAIN db.items /\ JobDocument(db, j, d)
  BY DEF CreateItem
<1>1. db' = [db EXCEPT !.items = Put(@, i, row)] /\ UNCHANGED <<schema, call>>
  BY DEF CreateItem, Write
<1>2. row \in ItemRows
  BY DEF ItemRows, ItemStatuses
<1>3. Shaped(db) /\ Typed(db) /\ Logged(db) /\ Referenced(db)
  BY DEF Inv, DbInv
<1>4. /\ Shaped(db') /\ db'.documents = db.documents /\ db'.sources = db.sources
      /\ db'.jobs = db.jobs /\ db'.events = db.events /\ db'.results = db.results
      /\ db'.artifacts = db.artifacts /\ db'.items = Put(db.items, i, row)
      /\ db'.decisions = db.decisions /\ db'.audit = db.audit
  BY <1>1, <1>3 DEF Shaped
<1> HIDE DEF row
<1>5. /\ DOMAIN db'.items = DOMAIN db.items \cup {i} /\ db'.items[i] = row
      /\ SameRows(db.items, db'.items)
  BY <1>0, <1>4 DEF Put, SameRows, SameRow
<1>6. Typed(db') /\ Logged(db')
  <2>1. db'.items \in [DOMAIN db'.items -> ItemRows]
    BY <1>2, <1>3, <1>4, PutTyped DEF Typed
  <2> QED
    BY <1>3, <1>4, <2>1 DEF Typed, Logged
<1>7. Grows(db, db')
  BY <1>4, <1>5, SameTable DEF Grows, HistoryKept, SameRow
<1>8. Referenced(db')
  BY <1>0, <1>3, <1>4, <1>5 DEF Referenced, JobDocument, row, SameRows, SameRow
<1>9. ProvenanceBound'
  BY <1>4 DEF ProvenanceBound, Inv
<1> QED
  BY <1>1, <1>3, <1>4, <1>6, <1>7, <1>8, <1>9, GrowsKeeps, SameHistories, StepInv DEF DbInv

LEMMA CreateDecisionStep ==
    ASSUME Inv, NEW x, NEW i, NEW a, NEW actor, NEW role, NEW decision,
           CreateDecision(x, i, a, actor, role, decision)
    PROVE  Inv'
<1> DEFINE row == DecisionRow(db, i, a, actor, role, decision)
<1>0. x \notin DOMAIN db.decisions
  BY DEF CreateDecision
<1>1. db' = [db EXCEPT !.decisions = Put(@, x, row)] /\ UNCHANGED <<schema, call>>
  BY DEF CreateDecision, Write
<1>3. Shaped(db) /\ Typed(db) /\ Logged(db) /\ Referenced(db)
  BY DEF Inv, DbInv
<1> HIDE DEF row
<1>4. /\ Shaped(db') /\ db'.documents = db.documents /\ db'.sources = db.sources
      /\ db'.jobs = db.jobs /\ db'.events = db.events /\ db'.results = db.results
      /\ db'.artifacts = db.artifacts /\ db'.items = db.items
      /\ db'.decisions = Put(db.decisions, x, row) /\ db'.audit = db.audit
  BY <1>1, <1>3 DEF Shaped
<1>5. SameRows(db.decisions, db'.decisions)
  BY <1>0, <1>4 DEF Put, SameRows, SameRow
<1>6. Typed(db') /\ Logged(db') /\ Referenced(db')
  BY <1>3, <1>4 DEF Typed, Logged, Referenced, JobDocument
<1>7. Grows(db, db')
  BY <1>4, <1>5, SameTable DEF Grows, HistoryKept, SameRow
<1>8. ProvenanceBound'
  BY <1>4 DEF ProvenanceBound, Inv
<1> QED
  BY <1>1, <1>3, <1>4, <1>6, <1>7, <1>8, GrowsKeeps, SameHistories, StepInv DEF DbInv

(* create_job_event: the new event verifies, and still does in the table   *)
(* it is now a row of.                                                     *)
LEMMA CreateJobEventStep ==
    ASSUME Inv, NEW j, NEW action, NEW actor, NEW p, CreateJobEvent(j, action, actor, p)
    PROVE  Inv'
<1> DEFINE e == JobEventRow(db, j, action, actor, p)
<1>0. j \in DOMAIN db.jobs /\ JobEventVerifies(db, j, e)
  BY DEF CreateJobEvent
<1>1. db' = [db EXCEPT !.events[j] = Append(@, e)] /\ UNCHANGED <<schema, call>>
  BY DEF CreateJobEvent, Write
<1>3. Shaped(db) /\ Typed(db) /\ Logged(db) /\ Referenced(db)
  BY DEF Inv, DbInv
<1> HIDE DEF e
<1>4. /\ Shaped(db') /\ db'.documents = db.documents /\ db'.sources = db.sources
      /\ db'.jobs = db.jobs /\ db'.events = [db.events EXCEPT ![j] = Append(@, e)]
      /\ db'.results = db.results /\ db'.artifacts = db.artifacts /\ db'.items = db.items
      /\ db'.decisions = db.decisions /\ db'.audit = db.audit
  BY <1>1, <1>3 DEF Shaped
<1>5. /\ db'.events = [x \in DOMAIN db'.jobs |-> db'.events[x]]
      /\ db'.events[j] = Append(db.events[j], e)
      /\ \A x \in DOMAIN db.jobs : x # j => db'.events[x] = db.events[x]
  <2>1. DOMAIN db.events = DOMAIN db.jobs
    BY <1>3 DEF Logged
  <2> QED
    BY <1>0, <1>4, <2>1
<1>6. IsSeq(db.events[j])
  BY <1>0, <1>3 DEF Logged
<1>7. /\ IsSeq(db'.events[j])
      /\ DOMAIN db.events[j] = 1..Len(db.events[j]) /\ Len(db.events[j]) \in Nat
      /\ DOMAIN db'.events[j] = 1..(Len(db.events[j]) + 1)
      /\ \A k \in 1..Len(db.events[j]) : db'.events[j][k] = db.events[j][k]
      /\ db'.events[j][Len(db.events[j]) + 1] = e
  BY <1>5, <1>6, AppendSeq
<1>8. Typed(db') /\ Referenced(db') /\ ProvenanceBound'
  BY <1>3, <1>4 DEF Typed, Referenced, JobDocument, ProvenanceBound, Inv
<1>9. Logged(db')
  BY <1>3, <1>4, <1>5, <1>7 DEF Logged
<1>10. \A x \in DOMAIN db.jobs : HistoryKept(db, db', x)
  <2>1. HistoryKept(db, db', j)
    BY <1>7 DEF HistoryKept, SameRow
  <2>2. \A x \in DOMAIN db.jobs : x # j => HistoryKept(db, db', x)
    BY <1>5 DEF HistoryKept, SameRow
  <2> QED
    BY <2>1, <2>2
<1>11. Grows(db, db')
  BY <1>4, <1>10, SameTable DEF Grows
<1>12. JobEventVerifies(db', j, e)
  <2>1. JobKept(db, db', j) /\ LinksKept(db, db', e.links)
    BY <1>0, <1>4 DEF JobKept, LinksKept, SameRow
  <2> QED
    BY <1>0, <2>1, JobEventKept
<1>13. HistoryGrowsVerified(db, db')
  <2>1. ASSUME NEW k \in DOMAIN db'.events[j]
        PROVE  \/ k \in DOMAIN db.events[j] /\ db'.events[j][k] = db.events[j][k]
               \/ JobEventVerifies(db', j, db'.events[j][k])
    <3>1. CASE k \in 1..Len(db.events[j])
      BY <1>7, <3>1
    <3>2. CASE k = Len(db.events[j]) + 1
      BY <1>7, <1>12, <3>2
    <3> QED
      BY <1>7, <2>1, <3>1, <3>2
  <2> QED
    BY <1>4, <1>5, <2>1 DEF HistoryGrowsVerified
<1> QED
  BY <1>1, <1>3, <1>4, <1>8, <1>9, <1>11, <1>13, GrowsKeeps, StepInv DEF DbInv

-----------------------------------------------------------------------------
(* Appending to the audit chain.                                           *)

(* D and E differ in the audit log only.                                   *)
SameTables(D, E) ==
    /\ E.documents = D.documents /\ E.sources = D.sources /\ E.jobs = D.jobs
    /\ E.events = D.events /\ E.results = D.results /\ E.artifacts = D.artifacts
    /\ E.items = D.items /\ E.decisions = D.decisions

LEMMA ScopeIgnoresLog ==
    ASSUME NEW D, NEW E, NEW e, e.action \in DOMAIN Contracts, SameTables(D, E),
           ScopeHolds(D, e, TRUE)
    PROVE  ScopeHolds(E, e, TRUE)
<1>1. JobKept(D, E, e.job) /\ HistoryKept(D, E, e.job)
  BY DEF SameTables, ScopeHolds, JobDocument, JobKept, HistoryKept, SameRow
<1>2. \A links : LinksKept(D, E, links)
  BY DEF SameTables, LinksKept, SameRow
<1>3. HistoryVerifies(D, e.job) => HistoryVerifies(E, e.job)
  BY <1>1, <1>2, JobEventKept DEF HistoryVerifies, SameTables
<1>4. ScopeKept(D, E, e)
  BY <1>1, <1>2, <1>3 DEF ScopeKept, ScopeHolds, SameTables, SameRow
<1> QED
  BY <1>4, ScopeStillHolds

(* What is asked of a new event is more than what is asked of a stored     *)
(* one.                                                                    *)
LEMMA ScopeStaysHistorical ==
    ASSUME NEW D, NEW e, ScopeHolds(D, e, FALSE)
    PROVE  ScopeHolds(D, e, TRUE)
BY DEF ScopeHolds, ScopePayload, CurrentJobPayload, DesktopJobPayload, DownloadMatches,
       DownloadRows

LEMMA AppendVerifies ==
    ASSUME NEW D, NEW E, NEW e, e.action \in DOMAIN Contracts, Logged(D), AppendAudit(D, e),
           SameTables(D, E), E.audit = Append(D.audit, e),
           e.prev = TailHash(D), e.hash = Digest(e)
    PROVE  /\ ChainVerifies(E)
           /\ IsSeq(E.audit)
           /\ \A k \in DOMAIN E.audit : E.audit[k].action \in DOMAIN Contracts
           /\ Range(E.audit) = Range(D.audit) \cup {e}
<1> DEFINE n == Len(D.audit)
<1>1. /\ DOMAIN D.audit = 1..n /\ n \in Nat /\ DOMAIN E.audit = 1..(n + 1)
      /\ \A k \in 1..n : E.audit[k] = D.audit[k]
      /\ E.audit[n + 1] = e
      /\ IsSeq(E.audit) /\ Range(E.audit) = Range(D.audit) \cup {e}
  BY AppendSeq DEF Logged
<1>2. D.audit = <<>> <=> n = 0
  BY DEF Logged, IsSeq
<1> HIDE DEF n
<1>3. \A k \in DOMAIN E.audit : E.audit[k].action \in DOMAIN Contracts
  BY <1>1 DEF Logged
<1>4. ASSUME NEW k \in DOMAIN E.audit
      PROVE  /\ ScopeHolds(E, E.audit[k], TRUE)
             /\ E.audit[k].prev = (IF k = 1 THEN <<>> ELSE E.audit[k - 1].hash)
             /\ E.audit[k].hash = Digest(E.audit[k])
  <2>1. CASE k \in 1..n
    <3>1. ScopeHolds(D, D.audit[k], TRUE) /\ D.audit[k].action \in DOMAIN Contracts
      BY <1>1, <2>1 DEF AppendAudit, ChainVerifies, Logged
    <3>2. ScopeHolds(E, E.audit[k], TRUE)
      BY <1>1, <2>1, <3>1, ScopeIgnoresLog
    <3>3. D.audit[k].prev = (IF k = 1 THEN <<>> ELSE D.audit[k - 1].hash)
          /\ D.audit[k].hash = Digest(D.audit[k])
      BY <1>1, <2>1 DEF AppendAudit, ChainVerifies
    <3>4. k # 1 => k - 1 \in 1..n
      BY <1>1, <2>1
    <3> QED
      BY <1>1, <2>1, <3>2, <3>3, <3>4
  <2>2. CASE k = n + 1
    <3>1. ScopeHolds(E, e, TRUE)
      BY ScopeStaysHistorical, ScopeIgnoresLog DEF AppendAudit
    <3>2. CASE n = 0
      <4>1. k = 1 /\ E.audit[k] = e
        BY <1>1, <2>2, <3>2
      <4>2. TailHash(D) = <<>>
        BY <1>2, <3>2 DEF TailHash
      <4> QED
        BY <3>1, <4>1, <4>2
    <3>3. CASE n # 0
      <4>1. k # 1 /\ k - 1 = n /\ n \in 1..n
        BY <1>1, <2>2, <3>3
      <4>2. TailHash(D) = D.audit[n].hash
        BY <1>2, <3>3 DEF TailHash, n
      <4> QED
        BY <1>1, <2>2, <3>1, <4>1, <4>2
    <3> QED
      BY <3>2, <3>3
  <2>3. k \in 1..n \/ k = n + 1
    BY <1>1
  <2> QED
    BY <2>1, <2>2, <2>3
<1>5. ChainVerifies(E)
  BY <1>4 DEF ChainVerifies
<1> QED
  BY <1>1, <1>3, <1>5

LEMMA AuditRowFields ==
    ASSUME NEW D, NEW j, NEW d, NEW action, NEW actor, NEW scope, NEW sid, NEW p, NEW e,
           e = AuditRow(D, j, d, action, actor, scope, sid, p)
    PROVE  /\ e.job = j /\ e.doc = d /\ e.action = action /\ e.actor = actor
           /\ e.scope = scope /\ e.sid = sid /\ e.payload = p
           /\ e.prev = TailHash(D) /\ e.hash = Digest(e)
BY DEF AuditRow, Digest

(* create_audit_event.                                                     *)
LEMMA CreateAuditEventStep ==
    ASSUME Inv, NEW j, NEW d, NEW action \in Actions, NEW actor, NEW scope, NEW sid, NEW p,
           CreateAuditEvent(j, d, action, actor, scope, sid, p)
    PROVE  Inv'
<1> DEFINE e == AuditRow(db, j, d, action, actor, scope, sid, p)
<1>1. /\ AppendAudit(db, e) /\ db' = [db EXCEPT !.audit = Append(@, e)]
      /\ UNCHANGED <<schema, call>>
  BY DEF CreateAuditEvent, Write
<1>2. e.action \in DOMAIN Contracts /\ e.prev = TailHash(db) /\ e.hash = Digest(e)
  BY AuditRowFields, ActionsAssumption
<1>3. Shaped(db) /\ Typed(db) /\ Logged(db) /\ Referenced(db)
  BY DEF Inv, DbInv
<1> HIDE DEF e
<1>4. Shaped(db') /\ SameTables(db, db') /\ db'.audit = Append(db.audit, e)
  BY <1>1, <1>3 DEF Shaped, SameTables
<1>5. /\ ChainVerifies(db') /\ IsSeq(db'.audit)
      /\ \A k \in DOMAIN db'.audit : db'.audit[k].action \in DOMAIN Contracts
      /\ Range(db'.audit) = Range(db.audit) \cup {e}
  <2>1. AppendAudit(db, e) /\ Logged(db)
    BY <1>1, <1>3
  <2> QED
    BY <1>2, <1>4, <2>1, AppendVerifies
<1>6. Typed(db') /\ Logged(db') /\ Referenced(db') /\ ProvenanceBound'
  BY <1>3, <1>4, <1>5
     DEF Typed, Logged, Referenced, JobDocument, ProvenanceBound, Inv, SameTables
<1>7. Keeps(db, db')
  <2>1. Grows(db, db')
    BY <1>4, SameTable DEF Grows, HistoryKept, SameRow, SameTables
  <2> QED
    BY <1>3, <2>1, GrowsKeeps
<1>8. \A x \in DOMAIN db'.jobs : HistoryVerifies(db', x)
  <2>1. HistoryGrowsVerified(db, db')
    BY <1>4 DEF HistoryGrowsVerified, SameTables
  <2> QED
    BY <1>3, <1>7, <2>1, KeepsVerifiable DEF Inv, AuditStaysVerifiable, Verifiable
<1>9. CallOK' /\ DecisionAnswerTrue'
  <2>1. Range(db.audit) \subseteq Range(db'.audit)
    BY <1>5
  <2> QED
    BY <1>1, <1>7, <2>1, CallStep DEF Inv
<1> QED
  BY <1>4, <1>5, <1>6, <1>8, <1>9 DEF Inv, DbInv, AuditStaysVerifiable

-----------------------------------------------------------------------------
(* UPDATEs and DELETEs: what the triggers let through is not relied on.    *)

LEMMA UpdateJobStep ==
    ASSUME Inv, NEW j, NEW s \in JobStatuses, NEW n \in 0..MaxAttempts, UpdateJob(j, s, n)
    PROVE  Inv'
<1>0. j \in DOMAIN db.jobs /\ n \in Nat
  BY BoundsAssumption DEF UpdateJob
<1>1. /\ db' = [db EXCEPT !.jobs[j].status = s, !.jobs[j].attempts = n]
      /\ UNCHANGED <<schema, call>>
  BY DEF UpdateJob, Alter
<1>2. Shaped(db) /\ Typed(db) /\ Logged(db) /\ Referenced(db)
  BY DEF Inv, DbInv
<1>3. /\ Shaped(db') /\ db'.documents = db.documents /\ db'.sources = db.sources
      /\ db'.jobs = [db.jobs EXCEPT ![j] = [[@ EXCEPT !.status = s] EXCEPT !.attempts = n]]
      /\ db'.events = db.events /\ db'.results = db.results /\ db'.artifacts = db.artifacts
      /\ db'.items = db.items /\ db'.decisions = db.decisions /\ db'.audit = db.audit
  BY <1>0, <1>1, <1>2 DEF Shaped, Typed, JobRows
<1>4. /\ db'.jobs \in [DOMAIN db'.jobs -> JobRows] /\ DOMAIN db'.jobs = DOMAIN db.jobs
      /\ \A x \in DOMAIN db.jobs : /\ db'.jobs[x].doc = db.jobs[x].doc
                                   /\ db'.jobs[x].key = db.jobs[x].key
  <2> DEFINE row == [[db.jobs[j] EXCEPT !.status = s] EXCEPT !.attempts = n]
  <2>1. db.jobs \in [DOMAIN db.jobs -> JobRows]
    BY <1>2 DEF Typed
  <2>2. row \in JobRows /\ row.doc = db.jobs[j].doc /\ row.key = db.jobs[j].key
    BY <1>0, <2>1 DEF JobRows
  <2>3. db'.jobs = [db.jobs EXCEPT ![j] = row]
    BY <1>3
  <2> HIDE DEF row
  <2> QED
    BY <1>0, <2>1, <2>2, <2>3
<1>5. Typed(db') /\ Logged(db')
  BY <1>2, <1>3, <1>4 DEF Typed, Logged
<1>6. Referenced(db') /\ ProvenanceBound'
  BY <1>2, <1>3, <1>4 DEF Referenced, JobDocument, ProvenanceBound, Inv
<1>7. \A x \in DOMAIN db.jobs : JobKept(db, db', x) /\ HistoryKept(db, db', x)
  BY <1>3, <1>4 DEF JobKept, HistoryKept, SameRow
<1>8. Keeps(db, db')
  BY <1>3, <1>7 DEF Keeps, LinksKept, SameRow
<1> QED
  BY <1>1, <1>3, <1>4, <1>5, <1>6, <1>8, SameHistories, StepInv DEF DbInv

LEMMA UpdateDocumentStep ==
    ASSUME Inv, NEW d, NEW s \in DocumentStatuses, NEW v \in Contents, UpdateDocument(d, s, v)
    PROVE  Inv'
<1>0. d \in DOMAIN db.documents /\ MatchesSource(db, d, v) /\ ~DocumentLocked(db, d, v)
  BY DEF UpdateDocument
<1>1. /\ db' = [db EXCEPT !.documents[d].status = s, !.documents[d].content = v]
      /\ UNCHANGED <<schema, call>>
  BY DEF UpdateDocument, Alter
<1>2. Shaped(db) /\ Typed(db) /\ Logged(db) /\ Referenced(db)
  BY DEF Inv, DbInv
<1>3. /\ Shaped(db') /\ db'.sources = db.sources /\ db'.jobs = db.jobs
      /\ db'.documents =
            [db.documents EXCEPT ![d] = [[@ EXCEPT !.status = s] EXCEPT !.content = v]]
      /\ db'.events = db.events /\ db'.results = db.results /\ db'.artifacts = db.artifacts
      /\ db'.items = db.items /\ db'.decisions = db.decisions /\ db'.audit = db.audit
  BY <1>0, <1>1, <1>2 DEF Shaped, Typed, DocumentRows
<1>4. /\ db'.documents \in [DOMAIN db'.documents -> DocumentRows]
      /\ DOMAIN db'.documents = DOMAIN db.documents
      /\ \A x \in DOMAIN db.documents : /\ db'.documents[x].artifact = db.documents[x].artifact
                                        /\ db'.documents[x].by = db.documents[x].by
                                        /\ x # d => db'.documents[x] = db.documents[x]
      /\ db'.documents[d].content = v
  <2> DEFINE row == [[db.documents[d] EXCEPT !.status = s] EXCEPT !.content = v]
  <2>1. db.documents \in [DOMAIN db.documents -> DocumentRows]
    BY <1>2 DEF Typed
  <2>2. /\ row \in DocumentRows /\ row.artifact = db.documents[d].artifact
        /\ row.by = db.documents[d].by /\ row.content = v
    BY <1>0, <2>1 DEF DocumentRows, AllContents
  <2>3. db'.documents = [db.documents EXCEPT ![d] = row]
    BY <1>3
  <2> HIDE DEF row
  <2> QED
    BY <1>0, <2>1, <2>2, <2>3
<1>5. Typed(db') /\ Logged(db')
  BY <1>2, <1>3, <1>4 DEF Typed, Logged
<1>6. Referenced(db')
  BY <1>2, <1>3, <1>4 DEF Referenced, JobDocument
<1>7. ProvenanceBound'
  <2>1. ProvenanceBound
    BY DEF Inv
  <2>2. db.sources[db.documents[d].artifact] =
          [doc |-> d, content |-> v, by |-> db.documents[d].by]
    <3>1. db.sources[db.documents[d].artifact] =
            [doc |-> d, content |-> db.documents[d].content, by |-> db.documents[d].by]
      BY <1>0, <2>1 DEF ProvenanceBound
    <3>2. v = db.documents[d].content
      BY <1>0, <3>1 DEF MatchesSource
    <3> QED
      BY <3>1, <3>2
  <2>3. ASSUME NEW y \in DOMAIN db'.documents
        PROVE  /\ db'.documents[y].artifact \in DOMAIN db'.sources
               /\ db'.sources[db'.documents[y].artifact] =
                     [doc |-> y, content |-> db'.documents[y].content,
                      by |-> db'.documents[y].by]
    <3>1. CASE y = d
      BY <1>0, <1>3, <1>4, <2>1, <2>2, <3>1 DEF ProvenanceBound
    <3>2. CASE y # d
      BY <1>3, <1>4, <2>1, <3>2 DEF ProvenanceBound
    <3> QED
      BY <3>1, <3>2
  <2>4. ASSUME NEW x \in DOMAIN db'.sources PROVE db'.documents[db'.sources[x].doc].artifact = x
    BY <1>2, <1>3, <1>4, <2>1 DEF ProvenanceBound, Referenced
  <2>5. DOMAIN db'.sources \cap DOMAIN db'.artifacts = {}
    BY <1>3, <2>1 DEF ProvenanceBound
  <2> QED
    BY <2>3, <2>4, <2>5 DEF ProvenanceBound
<1>8. \A x \in DOMAIN db.jobs : JobKept(db, db', x) /\ HistoryKept(db, db', x)
  BY <1>2, <1>3, <1>4 DEF JobKept, HistoryKept, SameRow, Referenced
<1>9. Keeps(db, db')
  <2>1. \A x \in DOMAIN db.documents :
          AuditedDocument(db, x) => db'.documents[x].content = db.documents[x].content
    BY <1>0, <1>4 DEF DocumentLocked
  <2> QED
    BY <1>3, <1>8, <2>1 DEF Keeps, LinksKept, SameRow
<1> QED
  BY <1>1, <1>3, <1>5, <1>6, <1>7, <1>9, SameHistories, StepInv DEF DbInv

LEMMA UpdateResultStep ==
    ASSUME Inv, NEW r, NEW s \in ResultStatuses, UpdateResult(r, s)
    PROVE  Inv'
<1>0. r \in DOMAIN db.results /\ ~ResultAudited(db, r) /\ ~ResultIsEvidence(db, r)
  BY DEF UpdateResult
<1>1. db' = [db EXCEPT !.results[r].status = s] /\ UNCHANGED <<schema, call>>
  BY DEF UpdateResult, Alter
<1>2. Shaped(db) /\ Typed(db) /\ Logged(db) /\ Referenced(db)
  BY DEF Inv, DbInv
<1>3. /\ Shaped(db') /\ db'.documents = db.documents /\ db'.sources = db.sources
      /\ db'.jobs = db.jobs /\ db'.events = db.events
      /\ db'.results = [db.results EXCEPT ![r] = [@ EXCEPT !.status = s]]
      /\ db'.artifacts = db.artifacts /\ db'.items = db.items
      /\ db'.decisions = db.decisions /\ db'.audit = db.audit
  BY <1>0, <1>1, <1>2 DEF Shaped, Typed, ResultRows
<1>4. /\ db'.results \in [DOMAIN db'.results -> ResultRows]
      /\ DOMAIN db'.results = DOMAIN db.results
      /\ \A x \in DOMAIN db.results : x # r => db'.results[x] = db.results[x]
  BY <1>0, <1>2, <1>3 DEF Typed, ResultRows
<1>5. Typed(db') /\ Logged(db')
  BY <1>2, <1>3, <1>4 DEF Typed, Logged
<1>6. Referenced(db') /\ ProvenanceBound'
  BY <1>2, <1>3, <1>4 DEF Referenced, JobDocument, ProvenanceBound, Inv
<1>7. \A x \in DOMAIN db.jobs : JobKept(db, db', x) /\ HistoryKept(db, db', x)
  BY <1>3 DEF JobKept, HistoryKept, SameRow
<1>8. LinksKept(db, db', EvidenceArtifacts(db))
  <2>1. ASSUME NEW a \in EvidenceArtifacts(db), a \in DOMAIN db.artifacts
        PROVE  db.artifacts[a].result # r
    BY <1>0, <2>1 DEF ResultIsEvidence, ArtifactsOf
  <2> QED
    BY <1>2, <1>3, <1>4, <2>1 DEF LinksKept, SameRow, Referenced
<1>9. \A x \in DOMAIN db.results :
        AuditScoped(db, "conversion_result", x) => SameRow(db.results, db'.results, x)
  BY <1>0, <1>4 DEF ResultAudited, SameRow
<1>10. Keeps(db, db')
  BY <1>3, <1>7, <1>8, <1>9 DEF Keeps, SameRow
<1> QED
  BY <1>1, <1>3, <1>5, <1>6, <1>10, SameHistories, StepInv DEF DbInv

LEMMA DeleteResultStep ==
    ASSUME Inv, NEW r, DeleteResult(r)
    PROVE  Inv'
<1>0. r \in DOMAIN db.results /\ ArtifactsOf(db, r) = {} /\ ~ResultAudited(db, r)
  BY DEF DeleteResult
<1>1. db' = [db EXCEPT !.results = Drop(@, r)] /\ UNCHANGED <<schema, call>>
  BY DEF DeleteResult, Alter
<1>2. Shaped(db) /\ Typed(db) /\ Logged(db) /\ Referenced(db)
  BY DEF Inv, DbInv
<1>3. /\ Shaped(db') /\ db'.documents = db.documents /\ db'.sources = db.sources
      /\ db'.jobs = db.jobs /\ db'.events = db.events /\ db'.results = Drop(db.results, r)
      /\ db'.artifacts = db.artifacts /\ db'.items = db.items
      /\ db'.decisions = db.decisions /\ db'.audit = db.audit
  BY <1>1, <1>2 DEF Shaped
<1>4. /\ db'.results \in [DOMAIN db'.results -> ResultRows]
      /\ DOMAIN db'.results = DOMAIN db.results \ {r}
      /\ \A x \in DOMAIN db'.results : db'.results[x] = db.results[x]
  BY <1>2, <1>3 DEF Typed, Drop
<1>5. \A a \in DOMAIN db.artifacts : db.artifacts[a].result # r
  BY <1>0 DEF ArtifactsOf
<1>6. Typed(db') /\ Logged(db')
  BY <1>2, <1>3, <1>4 DEF Typed, Logged
<1>7. Referenced(db') /\ ProvenanceBound'
  BY <1>2, <1>3, <1>4, <1>5 DEF Referenced, JobDocument, ProvenanceBound, Inv
<1>8. \A x \in DOMAIN db.jobs : JobKept(db, db', x) /\ HistoryKept(db, db', x)
  BY <1>3 DEF JobKept, HistoryKept, SameRow
<1>9. LinksKept(db, db', EvidenceArtifacts(db))
  BY <1>2, <1>3, <1>4, <1>5 DEF LinksKept, SameRow, Referenced
<1>10. \A x \in DOMAIN db.results :
        AuditScoped(db, "conversion_result", x) => SameRow(db.results, db'.results, x)
  BY <1>0, <1>4 DEF ResultAudited, SameRow
<1>11. Keeps(db, db')
  BY <1>3, <1>8, <1>9, <1>10 DEF Keeps, SameRow
<1> QED
  BY <1>1, <1>3, <1>6, <1>7, <1>11, SameHistories, StepInv DEF DbInv

LEMMA UpdateArtifactStep ==
    ASSUME Inv, NEW a, NEW v \in Contents, UpdateArtifact(a, v)
    PROVE  Inv'
<1>0. a \in DOMAIN db.artifacts /\ ~ArtifactFrozen(db, a)
  BY DEF UpdateArtifact
<1>1. db' = [db EXCEPT !.artifacts[a].content = v] /\ UNCHANGED <<schema, call>>
  BY DEF UpdateArtifact, Alter
<1>2. Shaped(db) /\ Typed(db) /\ Logged(db) /\ Referenced(db)
  BY DEF Inv, DbInv
<1>3. /\ Shaped(db') /\ db'.documents = db.documents /\ db'.sources = db.sources
      /\ db'.jobs = db.jobs /\ db'.events = db.events /\ db'.results = db.results
      /\ db'.artifacts = [db.artifacts EXCEPT ![a] = [@ EXCEPT !.content = v]]
      /\ db'.items = db.items /\ db'.decisions = db.decisions /\ db'.audit = db.audit
  BY <1>0, <1>1, <1>2 DEF Shaped, Typed, ArtifactRows
<1>4. /\ db'.artifacts \in [DOMAIN db'.artifacts -> ArtifactRows]
      /\ DOMAIN db'.artifacts = DOMAIN db.artifacts
      /\ \A x \in DOMAIN db.artifacts : /\ x # a => db'.artifacts[x] = db.artifacts[x]
                                        /\ db'.artifacts[x].result = db.artifacts[x].result
  <2> DEFINE row == [db.artifacts[a] EXCEPT !.content = v]
  <2>1. db.artifacts \in [DOMAIN db.artifacts -> ArtifactRows]
    BY <1>2 DEF Typed
  <2>2. row \in ArtifactRows /\ row.result = db.artifacts[a].result
    BY <1>0, <2>1 DEF ArtifactRows, AllContents
  <2>3. db'.artifacts = [db.artifacts EXCEPT ![a] = row]
    BY <1>3
  <2> HIDE DEF row
  <2> QED
    BY <1>0, <2>1, <2>2, <2>3
<1>5. Typed(db') /\ Logged(db')
  BY <1>2, <1>3, <1>4 DEF Typed, Logged
<1>6. Referenced(db') /\ ProvenanceBound'
  BY <1>2, <1>3, <1>4 DEF Referenced, JobDocument, ProvenanceBound, Inv
<1>7. \A x \in DOMAIN db.jobs : JobKept(db, db', x) /\ HistoryKept(db, db', x)
  BY <1>3 DEF JobKept, HistoryKept, SameRow
<1>8. /\ LinksKept(db, db', EvidenceArtifacts(db))
      /\ \A x \in DOMAIN db.artifacts :
            AuditScoped(db, "artifact", x) => SameRow(db.artifacts, db'.artifacts, x)
  BY <1>0, <1>3, <1>4 DEF ArtifactFrozen, LinksKept, SameRow
<1>9. Keeps(db, db')
  BY <1>3, <1>7, <1>8 DEF Keeps, SameRow
<1> QED
  BY <1>1, <1>3, <1>5, <1>6, <1>9, SameHistories, StepInv DEF DbInv

LEMMA DeleteArtifactStep ==
    ASSUME Inv, NEW a, DeleteArtifact(a)
    PROVE  Inv'
<1>0. a \in DOMAIN db.artifacts /\ ~ArtifactFrozen(db, a)
  BY DEF DeleteArtifact
<1>1. db' = [db EXCEPT !.artifacts = Drop(@, a)] /\ UNCHANGED <<schema, call>>
  BY DEF DeleteArtifact, Alter
<1>2. Shaped(db) /\ Typed(db) /\ Logged(db) /\ Referenced(db)
  BY DEF Inv, DbInv
<1>3. /\ Shaped(db') /\ db'.documents = db.documents /\ db'.sources = db.sources
      /\ db'.jobs = db.jobs /\ db'.events = db.events /\ db'.results = db.results
      /\ db'.artifacts = Drop(db.artifacts, a)
      /\ db'.items = db.items /\ db'.decisions = db.decisions /\ db'.audit = db.audit
  BY <1>1, <1>2 DEF Shaped
<1>4. /\ db'.artifacts \in [DOMAIN db'.artifacts -> ArtifactRows]
      /\ DOMAIN db'.artifacts = DOMAIN db.artifacts \ {a}
      /\ \A x \in DOMAIN db'.artifacts : db'.artifacts[x] = db.artifacts[x]
  BY <1>2, <1>3 DEF Typed, Drop
<1>5. Typed(db') /\ Logged(db')
  BY <1>2, <1>3, <1>4 DEF Typed, Logged
<1>6. Referenced(db') /\ ProvenanceBound'
  BY <1>2, <1>3, <1>4 DEF Referenced, JobDocument, ProvenanceBound, Inv
<1>7. \A x \in DOMAIN db.jobs : JobKept(db, db', x) /\ HistoryKept(db, db', x)
  BY <1>3 DEF JobKept, HistoryKept, SameRow
<1>8. /\ LinksKept(db, db', EvidenceArtifacts(db))
      /\ \A x \in DOMAIN db.artifacts :
            AuditScoped(db, "artifact", x) => SameRow(db.artifacts, db'.artifacts, x)
  BY <1>0, <1>3, <1>4 DEF ArtifactFrozen, LinksKept, SameRow
<1>9. Keeps(db, db')
  BY <1>3, <1>7, <1>8 DEF Keeps, SameRow
<1> QED
  BY <1>1, <1>3, <1>5, <1>6, <1>9, SameHistories, StepInv DEF DbInv

LEMMA UpdateItemStep ==
    ASSUME Inv, NEW i, NEW s \in ItemStatuses, NEW sev \in Severities, UpdateItem(i, s, sev)
    PROVE  Inv'
<1>0. i \in DOMAIN db.items /\ ~ItemFrozen(db, i)
  BY DEF UpdateItem
<1>1. /\ db' = [db EXCEPT !.items[i].status = s, !.items[i].severity = sev]
      /\ UNCHANGED <<schema, call>>
  BY DEF UpdateItem, Alter
<1>2. Shaped(db) /\ Typed(db) /\ Logged(db) /\ Referenced(db)
  BY DEF Inv, DbInv
<1>3. /\ Shaped(db') /\ db'.documents = db.documents /\ db'.sources = db.sources
      /\ db'.jobs = db.jobs /\ db'.events = db.events /\ db'.results = db.results
      /\ db'.artifacts = db.artifacts
      /\ db'.items = [db.items EXCEPT ![i] = [[@ EXCEPT !.status = s] EXCEPT !.severity = sev]]
      /\ db'.decisions = db.decisions /\ db'.audit = db.audit
  BY <1>0, <1>1, <1>2 DEF Shaped, Typed, ItemRows
<1>4. /\ db'.items \in [DOMAIN db'.items -> ItemRows] /\ DOMAIN db'.items = DOMAIN db.items
      /\ \A x \in DOMAIN db.items : /\ x # i => db'.items[x] = db.items[x]
                                    /\ db'.items[x].job = db.items[x].job
                                    /\ db'.items[x].doc = db.items[x].doc
  <2> DEFINE row == [[db.items[i] EXCEPT !.status = s] EXCEPT !.severity = sev]
  <2>1. db.items \in [DOMAIN db.items -> ItemRows]
    BY <1>2 DEF Typed
  <2>2. row \in ItemRows /\ row.job = db.items[i].job /\ row.doc = db.items[i].doc
    BY <1>0, <2>1 DEF ItemRows
  <2>3. db'.items = [db.items EXCEPT ![i] = row]
    BY <1>3
  <2> HIDE DEF row
  <2> QED
    BY <1>0, <2>1, <2>2, <2>3
<1>5. Typed(db') /\ Logged(db')
  BY <1>2, <1>3, <1>4 DEF Typed, Logged
<1>6. Referenced(db') /\ ProvenanceBound'
  BY <1>2, <1>3, <1>4 DEF Referenced, JobDocument, ProvenanceBound, Inv
<1>7. \A x \in DOMAIN db.jobs : JobKept(db, db', x) /\ HistoryKept(db, db', x)
  BY <1>3 DEF JobKept, HistoryKept, SameRow
<1>8. \A x \in DOMAIN db.items :
        AuditScoped(db, "review_item", x) \/ DecidedItem(db, x) => SameRow(db.items, db'.items, x)
  BY <1>0, <1>4 DEF ItemFrozen, SameRow
<1>9. Keeps(db, db')
  BY <1>3, <1>7, <1>8 DEF Keeps, LinksKept, SameRow
<1> QED
  BY <1>1, <1>3, <1>5, <1>6, <1>9, SameHistories, StepInv DEF DbInv

LEMMA DeleteItemStep ==
    ASSUME Inv, NEW i, DeleteItem(i)
    PROVE  Inv'
<1>0. i \in DOMAIN db.items /\ ~ItemFrozen(db, i)
  BY DEF DeleteItem
<1>1. db' = [db EXCEPT !.items = Drop(@, i)] /\ UNCHANGED <<schema, call>>
  BY DEF DeleteItem, Alter
<1>2. Shaped(db) /\ Typed(db) /\ Logged(db) /\ Referenced(db)
  BY DEF Inv, DbInv
<1>3. /\ Shaped(db') /\ db'.documents = db.documents /\ db'.sources = db.sources
      /\ db'.jobs = db.jobs /\ db'.events = db.events /\ db'.results = db.results
      /\ db'.artifacts = db.artifacts /\ db'.items = Drop(db.items, i)
      /\ db'.decisions = db.decisions /\ db'.audit = db.audit
  BY <1>1, <1>2 DEF Shaped
<1>4. /\ db'.items \in [DOMAIN db'.items -> ItemRows] /\ DOMAIN db'.items = DOMAIN db.items \ {i}
      /\ \A x \in DOMAIN db'.items : db'.items[x] = db.items[x]
  BY <1>2, <1>3 DEF Typed, Drop
<1>5. Typed(db') /\ Logged(db')
  BY <1>2, <1>3, <1>4 DEF Typed, Logged
<1>6. Referenced(db') /\ ProvenanceBound'
  BY <1>2, <1>3, <1>4 DEF Referenced, JobDocument, ProvenanceBound, Inv
<1>7. \A x \in DOMAIN db.jobs : JobKept(db, db', x) /\ HistoryKept(db, db', x)
  BY <1>3 DEF JobKept, HistoryKept, SameRow
<1>8. \A x \in DOMAIN db.items :
        AuditScoped(db, "review_item", x) \/ DecidedItem(db, x) => SameRow(db.items, db'.items, x)
  BY <1>0, <1>4 DEF ItemFrozen, SameRow
<1>9. Keeps(db, db')
  BY <1>3, <1>7, <1>8 DEF Keeps, LinksKept, SameRow
<1> QED
  BY <1>1, <1>3, <1>5, <1>6, <1>9, SameHistories, StepInv DEF DbInv

LEMMA DeleteJobStep ==
    ASSUME Inv, NEW j, DeleteJob(j)
    PROVE  Inv'
<1>0. j \in DOMAIN db.jobs /\ ~JobReferenced(db, j) /\ ~JobAudited(db, j)
  BY DEF DeleteJob
<1>1. db' = [db EXCEPT !.jobs = Drop(@, j), !.events = Drop(@, j)] /\ UNCHANGED <<schema, call>>
  BY DEF DeleteJob, Alter
<1>2. Shaped(db) /\ Typed(db) /\ Logged(db) /\ Referenced(db)
  BY DEF Inv, DbInv
<1>3. /\ Shaped(db') /\ db'.documents = db.documents /\ db'.sources = db.sources
      /\ db'.jobs = Drop(db.jobs, j) /\ db'.events = Drop(db.events, j)
      /\ db'.results = db.results /\ db'.artifacts = db.artifacts /\ db'.items = db.items
      /\ db'.decisions = db.decisions /\ db'.audit = db.audit
  BY <1>1, <1>2 DEF Shaped
<1>4. /\ db'.jobs \in [DOMAIN db'.jobs -> JobRows] /\ DOMAIN db'.jobs = DOMAIN db.jobs \ {j}
      /\ \A x \in DOMAIN db'.jobs : db'.jobs[x] = db.jobs[x]
  BY <1>2, <1>3 DEF Typed, Drop
<1>5. /\ db'.events = [x \in DOMAIN db'.jobs |-> db'.events[x]]
      /\ \A x \in DOMAIN db'.jobs : db'.events[x] = db.events[x]
  <2>1. DOMAIN db.events = DOMAIN db.jobs
    BY <1>2 DEF Logged
  <2> QED
    BY <1>3, <1>4, <2>1 DEF Drop
<1>6. Typed(db') /\ Logged(db')
  BY <1>2, <1>3, <1>4, <1>5 DEF Typed, Logged
<1>7. Referenced(db')
  BY <1>0, <1>2, <1>3, <1>4 DEF Referenced, JobDocument, JobReferenced
<1>8. ProvenanceBound'
  BY <1>3 DEF ProvenanceBound, Inv
<1>9. \A x \in DOMAIN db.jobs : Relied(db, x) => JobKept(db, db', x) /\ HistoryKept(db, db', x)
  <2>1. ~Relied(db, j)
    BY <1>0 DEF Relied, JobReferenced
  <2> QED
    BY <1>3, <1>4, <1>5, <2>1 DEF JobKept, HistoryKept, SameRow
<1>10. Keeps(db, db')
  <2>1. LinksKept(db, db', EvidenceArtifacts(db))
    BY <1>3 DEF LinksKept, SameRow
  <2>2. \A f, x : SameRow(f, f, x)
    BY DEF SameRow
  <2> QED
    BY <1>3, <1>9, <2>1, <2>2 DEF Keeps
<1>11. HistoryGrowsVerified(db, db')
  BY <1>4, <1>5, SameHistories
<1> QED
  BY <1>1, <1>3, <1>6, <1>7, <1>8, <1>10, <1>11, StepInv DEF DbInv

-----------------------------------------------------------------------------
(* The review decision workflow.                                           *)

(* Closing the item and storing the decision touches nothing an event      *)
(* relies on: an item that is still open is closed only when it is neither *)
(* decided nor audited.                                                    *)
LEMMA DecidedKeeps ==
    ASSUME NEW D, NEW E, Shaped(D), Typed(D), Logged(D), Referenced(D),
           NEW x, NEW i \in DOMAIN D.items, NEW a, NEW actor, NEW role, NEW decision,
           x \notin DOMAIN D.decisions, D.items[i].status = "open" => ~ItemFrozen(D, i),
           E = Decided(D, x, i, a, actor, role, decision)
    PROVE  /\ Shaped(E) /\ Typed(E) /\ Logged(E) /\ Referenced(E)
           /\ Keeps(D, E) /\ HistoryGrowsVerified(D, E)
           /\ i \in DOMAIN E.items /\ E.items[i].status = "closed"
           /\ E.items[i].severity = D.items[i].severity
<1> DEFINE new == DecisionRow(D, i, a, actor, role, decision)
           row == [D.items[i] EXCEPT !.status = IF @ = "open" THEN "closed" ELSE @]
<1>1. E = [D EXCEPT !.items[i].status = IF @ = "open" THEN "closed" ELSE @,
                    !.decisions = Put(@, x, new)]
  BY DEF Decided
<1>2. D.items \in [DOMAIN D.items -> ItemRows]
  BY DEF Typed
<1> HIDE DEF new
<1>3. /\ Shaped(E) /\ E.documents = D.documents /\ E.sources = D.sources
      /\ E.jobs = D.jobs /\ E.events = D.events /\ E.results = D.results
      /\ E.artifacts = D.artifacts /\ E.items = [D.items EXCEPT ![i] = row]
      /\ E.decisions = Put(D.decisions, x, new) /\ E.audit = D.audit
  BY <1>1, <1>2 DEF Shaped, ItemRows
<1>4. /\ row \in ItemRows /\ row.job = D.items[i].job /\ row.doc = D.items[i].doc
      /\ row.status = "closed" /\ row.severity = D.items[i].severity
  BY <1>2 DEF ItemRows, ItemStatuses
<1>5. D.items[i].status # "open" => row = D.items[i]
  BY <1>2 DEF ItemRows
<1> HIDE DEF row
<1>6. /\ E.items \in [DOMAIN E.items -> ItemRows] /\ DOMAIN E.items = DOMAIN D.items
      /\ E.items[i] = row /\ \A y \in DOMAIN D.items : y # i => E.items[y] = D.items[y]
  BY <1>2, <1>3, <1>4
<1>7. SameRows(D.decisions, E.decisions)
  BY <1>3 DEF Put, SameRows, SameRow
<1>8. Typed(E) /\ Logged(E)
  BY <1>3, <1>6 DEF Typed, Logged
<1>9. Referenced(E)
  BY <1>3, <1>4, <1>6 DEF Referenced, JobDocument
<1>10. \A y \in DOMAIN D.items :
         AuditScoped(D, "review_item", y) \/ DecidedItem(D, y) => SameRow(D.items, E.items, y)
  BY <1>5, <1>6 DEF ItemFrozen, SameRow
<1>11. \A y \in DOMAIN D.jobs : JobKept(D, E, y) /\ HistoryKept(D, E, y)
  BY <1>3 DEF JobKept, HistoryKept, SameRow
<1>12. LinksKept(D, E, EvidenceArtifacts(D))
  BY <1>3 DEF LinksKept, SameRow
<1>13. Keeps(D, E)
  <2>1. \A f, y : SameRow(f, f, y)
    BY DEF SameRow
  <2> QED
    BY <1>3, <1>7, <1>10, <1>11, <1>12, <2>1 DEF Keeps, SameRows
<1>14. HistoryGrowsVerified(D, E)
  BY <1>3, SameHistories
<1> QED
  BY <1>3, <1>4, <1>6, <1>7, <1>8, <1>9, <1>13, <1>14

LEMMA HistoryIgnoresLog ==
    ASSUME NEW D, NEW E, NEW j \in DOMAIN D.jobs, SameTables(D, E), HistoryVerifies(D, j)
    PROVE  HistoryVerifies(E, j)
<1>1. JobKept(D, E, j)
  BY DEF SameTables, JobKept
<1>2. \A links : LinksKept(D, E, links)
  BY DEF SameTables, LinksKept, SameRow
<1> QED
  BY <1>1, <1>2, JobEventKept DEF HistoryVerifies, SameTables

(* The first transaction of record_authoritative_review_decision.          *)
LEMMA DecideStep ==
    ASSUME Inv, NEW x, NEW i, NEW a, NEW actor, NEW role, NEW decision \in Outcomes,
           Decide(x, i, a, actor, role, decision)
    PROVE  Inv'
<1> DEFINE after == Decided(db, x, i, a, actor, role, decision)
           e == DecisionAudit(after, x)
           row == DecisionRow(db, i, a, actor, role, decision)
<1>1. /\ i \in DOMAIN db.items /\ HighRiskHeld(db, i, role, decision)
      /\ db.items[i].status = "open" => ~ItemFrozen(db, i)
      /\ x \notin DOMAIN db.decisions /\ AppendAudit(after, e)
  BY DEF Decide, CanDecide
<1>2. /\ db' = [after EXCEPT !.audit = Append(@, e)]
      /\ call' = [phase |-> "committed", id |-> x, item |-> i, row |-> row, reset |-> FALSE]
      /\ schema' = schema /\ Current
  BY DEF Decide
<1>3. Shaped(db) /\ Typed(db) /\ Logged(db) /\ Referenced(db) /\ Verifiable(db)
  BY DEF Inv, DbInv, AuditStaysVerifiable, Verifiable
<1>4. /\ row.item = i /\ row.actor = actor /\ row.role = role /\ row.decision = decision
  BY DEF DecisionRow
<1>5. e = AuditRow(after, after.decisions[x].job, after.decisions[x].doc,
                   after.decisions[x].decision, after.decisions[x].actor, "review_decision", x,
                   [Nothing EXCEPT !.content = after.decisions[x].content])
  BY DEF DecisionAudit
<1> HIDE DEF after, e
<1>6. /\ Shaped(after) /\ Typed(after) /\ Logged(after) /\ Referenced(after)
      /\ Keeps(db, after) /\ HistoryGrowsVerified(db, after)
      /\ after.documents = db.documents /\ after.sources = db.sources /\ after.jobs = db.jobs
      /\ after.artifacts = db.artifacts /\ after.audit = db.audit
      /\ x \in DOMAIN after.decisions /\ after.decisions[x] = row
      /\ i \in DOMAIN after.items /\ after.items[i].status = "closed"
      /\ after.items[i].severity = db.items[i].severity
  <2> HIDE DEF row
  <2>1. /\ i \in DOMAIN db.items /\ (db.items[i].status = "open" => ~ItemFrozen(db, i))
        /\ x \notin DOMAIN db.decisions
    BY <1>1
  <2>2. after = Decided(db, x, i, a, actor, role, decision)
    BY DEF after
  <2>3. /\ Shaped(after) /\ Typed(after) /\ Logged(after) /\ Referenced(after)
        /\ Keeps(db, after) /\ HistoryGrowsVerified(db, after)
    BY <1>3, <2>1, <2>2, DecidedKeeps
  <2>4. /\ after.documents = db.documents /\ after.sources = db.sources
        /\ after.jobs = db.jobs /\ after.artifacts = db.artifacts /\ after.audit = db.audit
    BY <1>3, <2>2 DEF Decided, Shaped
  <2>5. x \in DOMAIN after.decisions /\ after.decisions[x] = row
    <3>1. after.decisions = Put(db.decisions, x, row)
      BY <1>3, <2>2 DEF Decided, Shaped, row
    <3> QED
      BY <3>1 DEF Put
  <2>6. i \in DOMAIN after.items /\ after.items[i].status = "closed"
    BY <1>3, <2>1, <2>2, DecidedKeeps
  <2>7. after.items[i].severity = db.items[i].severity
    BY <1>3, <2>1, <2>2, DecidedKeeps
  <2> QED
    BY <2>3, <2>4, <2>5, <2>6, <2>7
<1> HIDE DEF row
<1>7. /\ e.action = decision /\ e.actor = actor /\ e.scope = "review_decision" /\ e.sid = x
      /\ e.prev = TailHash(after) /\ e.hash = Digest(e)
  BY <1>4, <1>5, <1>6, AuditRowFields
<1>8. e.action \in DOMAIN Contracts
  BY <1>7, ReviewAssumption DEF Contracts
<1>9. Shaped(db') /\ SameTables(after, db') /\ db'.audit = Append(after.audit, e)
  BY <1>2, <1>6 DEF Shaped, SameTables
<1>10. /\ ChainVerifies(db') /\ IsSeq(db'.audit)
       /\ \A k \in DOMAIN db'.audit : db'.audit[k].action \in DOMAIN Contracts
       /\ Range(db'.audit) = Range(after.audit) \cup {e}
  BY <1>1, <1>6, <1>7, <1>8, <1>9, AppendVerifies
<1>11. Typed(db') /\ Logged(db') /\ Referenced(db')
  BY <1>6, <1>9, <1>10 DEF Typed, Logged, Referenced, JobDocument, SameTables
<1>12. ProvenanceBound'
  BY <1>6, <1>9 DEF ProvenanceBound, Inv, SameTables
<1>13. \A j \in DOMAIN db'.jobs : HistoryVerifies(db', j)
  <2>1. \A j \in DOMAIN after.jobs : HistoryVerifies(after, j)
    BY <1>3, <1>6, KeepsVerifiable
  <2>2. DOMAIN db'.jobs = DOMAIN after.jobs
    BY <1>9 DEF SameTables
  <2> QED
    BY <1>9, <2>1, <2>2, HistoryIgnoresLog
<1>14. CallOK'
  BY <1>2, <1>4, <1>6, <1>9 DEF CallOK, Current, SameTables
<1>15. DecisionAnswerTrue'
  <2>1. /\ x \in DOMAIN db'.decisions /\ db'.decisions[x] = row
        /\ db'.items[i].status = "closed" /\ db'.items[i].severity = db.items[i].severity
    BY <1>6, <1>9 DEF SameTables
  <2>2. e \in Range(db'.audit)
    BY <1>10
  <2>3. HighRiskHeld(db', i, row.role, row.decision)
    BY <1>1, <1>4, <2>1 DEF HighRiskHeld
  <2>4. call'.id = x /\ call'.row = row /\ call'.item = i /\ call'.phase = "committed"
    BY <1>2
  <2> QED
    BY <1>4, <1>7, <2>1, <2>2, <2>3, <2>4 DEF DecisionAnswerTrue
<1> QED
  BY <1>9, <1>10, <1>11, <1>12, <1>13, <1>14, <1>15 DEF Inv, DbInv, AuditStaysVerifiable

(* The second transaction: without a reset in between it finds both rows   *)
(* and a chain that verifies.                                              *)
LEMMA SnapshotStep ==
    ASSUME Inv, Snapshot
    PROVE  Inv'
<1>1. /\ call.phase = "committed" /\ UNCHANGED <<schema, db>>
      /\ call' = [call EXCEPT !.phase =
                     IF Current /\ SnapshotFound(db, call.id) THEN "answered" ELSE "raised"]
  BY DEF Snapshot
<1>2. CallOK /\ DecisionAnswerTrue /\ ChainVerifies(db)
  BY DEF Inv, AuditStaysVerifiable
<1>3. ~call.reset => Current /\ SnapshotFound(db, call.id)
  BY <1>1, <1>2 DEF CallOK, DecisionAnswerTrue, SnapshotFound
<1>4. /\ call'.phase \in {"answered", "raised"} /\ call'.phase = "raised" => call.reset
      /\ call'.id = call.id /\ call'.item = call.item /\ call'.row = call.row
      /\ call'.reset = call.reset
      /\ call' = [phase |-> call'.phase, id |-> call'.id, item |-> call'.item,
                  row |-> call'.row, reset |-> call'.reset]
  BY <1>1, <1>2, <1>3 DEF CallOK
<1>5. CallOK'
  BY <1>1, <1>2, <1>4 DEF CallOK, Current
<1>6. DecisionAnswerTrue'
  BY <1>1, <1>2, <1>4 DEF DecisionAnswerTrue
<1>7. DbInv' /\ AuditStaysVerifiable' /\ ProvenanceBound'
  BY <1>1 DEF Inv, DbInv, AuditStaysVerifiable, ProvenanceBound
<1> QED
  BY <1>5, <1>6, <1>7 DEF Inv

-----------------------------------------------------------------------------
(* Init, initialize and reset.                                             *)

LEMMA EmptyInv ==
    /\ Shaped(EmptyDb) /\ Typed(EmptyDb) /\ Logged(EmptyDb) /\ Referenced(EmptyDb)
    /\ Verifiable(EmptyDb)
    /\ DOMAIN EmptyDb.documents = {} /\ DOMAIN EmptyDb.sources = {}
<1>1. /\ EmptyDb.documents = NoRows /\ EmptyDb.sources = NoRows /\ EmptyDb.jobs = NoRows
      /\ EmptyDb.events = NoRows /\ EmptyDb.results = NoRows /\ EmptyDb.artifacts = NoRows
      /\ EmptyDb.items = NoRows /\ EmptyDb.decisions = NoRows /\ EmptyDb.audit = <<>>
      /\ Shaped(EmptyDb)
  BY DEF EmptyDb, Shaped
<1>2. DOMAIN NoRows = {} /\ \A S : NoRows \in [DOMAIN NoRows -> S]
  BY DEF NoRows
<1>3. Typed(EmptyDb)
  BY <1>1, <1>2 DEF Typed
<1>4. Logged(EmptyDb)
  <2>1. NoRows = [j \in DOMAIN NoRows |-> NoRows[j]]
    BY DEF NoRows
  <2> QED
    BY <1>1, <1>2, <2>1 DEF Logged, IsSeq
<1>5. Referenced(EmptyDb) /\ Verifiable(EmptyDb)
  BY <1>1, <1>2 DEF Referenced, Verifiable, ChainVerifies
<1> QED
  BY <1>1, <1>2, <1>3, <1>5, <1>4

LEMMA InitInv == Init => Inv
<1> SUFFICES ASSUME Init PROVE Inv
  OBVIOUS
<1>1. db = EmptyDb /\ call = [phase |-> "idle"]
  BY DEF Init
<1>2. DbInv /\ AuditStaysVerifiable
  BY <1>1, EmptyInv DEF DbInv, AuditStaysVerifiable, Verifiable
<1>3. ProvenanceBound
  BY <1>1, EmptyInv DEF ProvenanceBound
<1>4. CallOK /\ DecisionAnswerTrue
  BY <1>1 DEF CallOK, DecisionAnswerTrue
<1> QED
  BY <1>2, <1>3, <1>4 DEF Inv

LEMMA InitializeStep ==
    ASSUME Inv, Initialize
    PROVE  Inv'
<1>1. schema = "absent" /\ UNCHANGED <<db, call>>
  BY DEF Initialize
<1>2. call.phase = "idle"
  BY <1>1 DEF Inv, CallOK, Current
<1>3. CallOK' /\ DecisionAnswerTrue'
  BY <1>1, <1>2 DEF Inv, CallOK, DecisionAnswerTrue
<1> QED
  BY <1>1, <1>3 DEF Inv, DbInv, AuditStaysVerifiable, ProvenanceBound

(* A reset empties the database, and the pending caller is told.           *)
LEMMA ResetStep ==
    ASSUME Inv, Reset
    PROVE  Inv'
<1>1. /\ db' = EmptyDb /\ schema' = "current"
      /\ call' = IF call.phase # "idle" THEN [call EXCEPT !.reset = TRUE] ELSE call
  BY DEF Reset
<1>2. DbInv' /\ AuditStaysVerifiable'
  BY <1>1, EmptyInv DEF DbInv, AuditStaysVerifiable, Verifiable
<1>3. ProvenanceBound'
  BY <1>1, EmptyInv DEF ProvenanceBound
<1>4. CallOK' /\ DecisionAnswerTrue'
  <2>1. CASE call.phase = "idle"
    BY <1>1, <2>1 DEF Inv, CallOK, DecisionAnswerTrue
  <2>2. CASE call.phase # "idle"
    <3>1. /\ call'.phase = call.phase /\ call'.reset = TRUE
          /\ call' = [phase |-> call'.phase, id |-> call'.id, item |-> call'.item,
                      row |-> call'.row, reset |-> call'.reset]
      BY <1>1, <2>2 DEF Inv, CallOK
    <3> QED
      BY <1>1, <2>2, <3>1 DEF Inv, CallOK, DecisionAnswerTrue, Current
  <2> QED
    BY <2>1, <2>2
<1> QED
  BY <1>2, <1>3, <1>4 DEF Inv

(* Every step preserves the invariant.                                     *)
LEMMA NextInv == Inv /\ [Next]_vars => Inv'
<1> SUFFICES ASSUME Inv, [Next]_vars PROVE Inv'
  OBVIOUS
<1>1. CASE Insert
  <2>1. ASSUME NEW d \in Docs, NEW a \in SourceIds, NEW v \in NewContents, NEW u \in Actors,
               CreateDocument(d, a, v, u)
        PROVE  Inv'
    BY <2>1, CreateDocumentStep
  <2>2. ASSUME NEW j \in Jobs, NEW d \in Docs, NEW key \in Keys, NEW s \in NewJobStatuses,
               CreateJob(j, d, key, s)
        PROVE  Inv'
    BY <2>2, CreateJobStep
  <2>3. ASSUME NEW r \in Results, NEW j \in Jobs, NEW d \in Docs, NEW s \in ResultStatuses,
               CreateResult(r, j, d, s)
        PROVE  Inv'
    BY <2>3, CreateResultStep
  <2>4. ASSUME NEW a \in ArtifactIds, NEW r \in Results, NEW j \in Jobs, NEW d \in Docs,
               NEW v \in NewContents, CreateArtifact(a, r, j, d, v)
        PROVE  Inv'
    BY <2>4, CreateArtifactStep
  <2>5. ASSUME NEW i \in Items, NEW j \in Jobs, NEW d \in Docs, NEW sev \in Severities,
               CreateItem(i, j, d, sev)
        PROVE  Inv'
    BY <2>5, CreateItemStep
  <2>6. ASSUME NEW x \in Decisions, NEW i \in Items, NEW a \in ArtifactIds,
               NEW actor \in Actors, NEW role \in Roles, NEW decision \in Outcomes,
               CreateDecision(x, i, a, actor, role, decision)
        PROVE  Inv'
    BY <2>6, CreateDecisionStep
  <2> QED
    BY <1>1, <2>1, <2>2, <2>3, <2>4, <2>5, <2>6 DEF Insert
<1>2. CASE Record
  <2>1. ASSUME NEW j \in Jobs, NEW action \in Actions, NEW actor \in Actors,
               NEW p \in ClientPayloads, CreateJobEvent(j, action, actor, p)
        PROVE  Inv'
    BY <2>1, CreateJobEventStep
  <2>2. ASSUME NEW j \in Jobs, NEW d \in Docs, NEW action \in Actions, NEW actor \in Actors,
               NEW p \in ClientPayloads, NEW scope \in Contracts[action].scopes,
               NEW sid \in DOMAIN Table(db, scope) \cup 1..MaxJobEvents,
               CreateAuditEvent(j, d, action, actor, scope, sid, p)
        PROVE  Inv'
    BY <2>2, CreateAuditEventStep
  <2> QED
    BY <1>2, <2>1, <2>2 DEF Record
<1>3. CASE Change
  <2>1. ASSUME NEW j \in Jobs, NEW s \in JobStatuses, NEW n \in 0..MaxAttempts,
               UpdateJob(j, s, n)
        PROVE  Inv'
    BY <2>1, UpdateJobStep
  <2>2. ASSUME NEW d \in Docs, NEW s \in DocumentStatuses, NEW v \in Contents,
               UpdateDocument(d, s, v)
        PROVE  Inv'
    BY <2>2, UpdateDocumentStep
  <2>3. ASSUME NEW r \in Results, NEW s \in ResultStatuses, UpdateResult(r, s) PROVE Inv'
    BY <2>3, UpdateResultStep
  <2>4. ASSUME NEW a \in ArtifactIds, NEW v \in Contents, UpdateArtifact(a, v) PROVE Inv'
    BY <2>4, UpdateArtifactStep
  <2>5. ASSUME NEW i \in Items, NEW s \in ItemStatuses, NEW sev \in Severities,
               UpdateItem(i, s, sev)
        PROVE  Inv'
    BY <2>5, UpdateItemStep
  <2> QED
    BY <1>3, <2>1, <2>2, <2>3, <2>4, <2>5 DEF Change
<1>4. CASE Delete
  <2>1. ASSUME NEW r \in Results, DeleteResult(r) PROVE Inv'
    BY <2>1, DeleteResultStep
  <2>2. ASSUME NEW a \in ArtifactIds, DeleteArtifact(a) PROVE Inv'
    BY <2>2, DeleteArtifactStep
  <2>3. ASSUME NEW i \in Items, DeleteItem(i) PROVE Inv'
    BY <2>3, DeleteItemStep
  <2>4. ASSUME NEW j \in Jobs, DeleteJob(j) PROVE Inv'
    BY <2>4, DeleteJobStep
  <2> QED
    BY <1>4, <2>1, <2>2, <2>3, <2>4 DEF Delete
<1>5. CASE Workflow
  <2>1. ASSUME NEW x \in Decisions, NEW i \in Items, NEW a \in ArtifactIds,
               NEW actor \in Actors, NEW role \in Roles, NEW decision \in Outcomes,
               Decide(x, i, a, actor, role, decision)
        PROVE  Inv'
    BY <2>1, DecideStep
  <2>2. CASE Snapshot
    BY <2>2, SnapshotStep
  <2> QED
    BY <1>5, <2>1, <2>2 DEF Workflow
<1>6. CASE Initialize
  BY <1>6, InitializeStep
<1>7. CASE Reset
  BY <1>7, ResetStep
<1>8. CASE UNCHANGED vars
  BY <1>8 DEF vars, Inv, DbInv, AuditStaysVerifiable, ProvenanceBound, CallOK,
              DecisionAnswerTrue, Current
<1> QED
  BY <1>1, <1>2, <1>3, <1>4, <1>5, <1>6, <1>7, <1>8 DEF Next

-----------------------------------------------------------------------------
(* Theorems.                                                               *)

(* The tables keep their types and foreign keys, and with them the four    *)
(* properties below, in every reachable state.                             *)
THEOREM RepositoryInvariant == Spec => []Inv
<1>1. Init => Inv
  BY InitInv
<1>2. Inv /\ [Next]_vars => Inv'
  BY NextInv
<1> QED
  BY <1>1, <1>2, PTL DEF Spec

(* No UPDATE or DELETE that the triggers let through, and no further event *)
(* of any client, makes _verify_audit_chain or _verify_job_event_history   *)
(* reject an event that was once accepted.                                 *)
THEOREM AcceptedEventsStayVerifiable == Spec => []AuditStaysVerifiable
<1>1. Inv => AuditStaysVerifiable
  BY DEF Inv
<1> QED
  BY <1>1, RepositoryInvariant, PTL

(* A source document and its artifact describe the same upload for ever.   *)
THEOREM UploadsStayBound == Spec => []ProvenanceBound
<1>1. Inv => ProvenanceBound
  BY DEF Inv
<1> QED
  BY <1>1, RepositoryInvariant, PTL

(* The caller of record_authoritative_review_decision is answered with     *)
(* what it wrote, whatever other writers do between its two transactions.  *)
THEOREM DecisionsAreAnsweredTruly == Spec => []DecisionAnswerTrue
<1>1. Inv => DecisionAnswerTrue
  BY DEF Inv
<1> QED
  BY <1>1, RepositoryInvariant, PTL

(* The first transaction accepts an approver for every item that is        *)
(* neither decided nor audited.                                            *)
LEMMA InvDecidable == Inv => DecidableUnlessFrozen
<1> SUFFICES ASSUME Inv, NEW i \in DOMAIN db.items, NEW a \in DOMAIN db.artifacts,
                    NEW x \in Decisions, NEW u \in Actors,
                    ItemMatchesArtifact(db, i, a), ~DecidedItem(db, i),
                    ~AuditScoped(db, "review_item", i), x \notin DOMAIN db.decisions,
                    Len(db.audit) < MaxAudit
             PROVE  CanDecide(db, x, i, a, u, "approver", "approved")
  BY DEF DecidableUnlessFrozen
<1> DEFINE after == Decided(db, x, i, a, u, "approver", "approved")
           e == DecisionAudit(after, x)
           row == DecisionRow(db, i, a, u, "approver", "approved")
<1>1. Shaped(db) /\ Typed(db) /\ Logged(db) /\ Referenced(db) /\ Verifiable(db)
  BY DEF Inv, DbInv, AuditStaysVerifiable, Verifiable
<1>2. ~ItemFrozen(db, i)
  BY DEF ItemFrozen
<1>3. /\ row.job = db.items[i].job /\ row.doc = db.items[i].doc /\ row.actor = u
      /\ row.decision = "approved"
  BY DEF DecisionRow
<1>4. e = AuditRow(after, after.decisions[x].job, after.decisions[x].doc,
                   after.decisions[x].decision, after.decisions[x].actor, "review_decision", x,
                   [Nothing EXCEPT !.content = after.decisions[x].content])
  BY DEF DecisionAudit
<1>5. /\ after.jobs = db.jobs /\ after.audit = db.audit
      /\ after.decisions = Put(db.decisions, x, row)
  BY <1>1 DEF Decided, Shaped
<1> HIDE DEF row
<1>6. x \in DOMAIN after.decisions /\ after.decisions[x] = row
  BY <1>5 DEF Put
<1>7. Keeps(db, after) /\ HistoryGrowsVerified(db, after)
  BY <1>1, <1>2, DecidedKeeps
<1> HIDE DEF after, e
<1>8. ChainVerifies(after)
  <2>1. \A k \in DOMAIN db.audit : ScopeHolds(after, db.audit[k], TRUE)
    BY <1>1, <1>7, KeepsVerifiable
  <2> QED
    BY <1>1, <1>5, <2>1 DEF Verifiable, ChainVerifies
<1>9. /\ e.job = row.job /\ e.doc = row.doc /\ e.action = "approved" /\ e.actor = u
      /\ e.scope = "review_decision" /\ e.sid = x
      /\ e.payload = [Nothing EXCEPT !.content = row.content]
  BY <1>3, <1>4, <1>6, AuditRowFields
<1>10. /\ Contracts["approved"].scopes = {"review_decision"}
       /\ Contracts["approved"].evidence = FALSE /\ Contracts["approved"].uploader = FALSE
       /\ Contracts["approved"].unattempted = FALSE
       /\ Contracts["approved"].jobs = JobStatuses
  BY DEF Contracts, Unrestricted
<1>11. JobDocument(after, e.job, e.doc)
  BY <1>1, <1>3, <1>5, <1>9 DEF Referenced, JobDocument
<1>12. InScope(after, e.scope, e.sid, e.job, e.doc)
  BY <1>6, <1>9 DEF InScope, Table
<1>13. ScopePayload(after, e.scope, e.sid, e.job, e.action, e.payload, FALSE)
  BY <1>6, <1>9 DEF ScopePayload, ScopeRow, Table, FileDeclared, ColumnMatches, Nothing
<1>14. ScopeActor(after, e.scope, e.sid, e.job, e.actor, e.action)
  BY <1>3, <1>6, <1>9, <1>10 DEF ScopeActor, DecisionActionMatches
<1>15. JobActionAvailable(after.jobs[e.job], e.action)
  BY <1>1, <1>5, <1>9, <1>10, <1>11 DEF JobActionAvailable, JobDocument, Typed, JobRows
<1>16. ScopeHolds(after, e, FALSE)
  BY <1>9, <1>10, <1>11, <1>12, <1>13, <1>14, <1>15 DEF ScopeHolds
<1>17. AppendAudit(after, e)
  BY <1>5, <1>8, <1>16 DEF AppendAudit
<1>18. Permitted("approver", "approved") /\ HighRiskHeld(db, i, "approver", "approved")
  BY DEF Permitted, HighRiskHeld
<1> QED
  BY <1>2, <1>17, <1>18 DEF CanDecide, after, e

(* Every open review item with a generated artifact can be approved unless *)
(* it was decided or audited while open: no sequence of calls jams the     *)
(* review workflow in any other way.                                       *)
THEOREM ReviewItemsStayDecidable == Spec => []DecidableUnlessFrozen
BY InvDecidable, RepositoryInvariant, PTL
============================================================================
