# VeriDoc: TLA+ models, model checking and proofs

VeriDoc converts GMP documents (PDF, Word, Excel) into reviewable structured
output. This directory holds a verification development for its server: TLA+
modules translated from the Python source, TLC configurations that check them on
small instances, and TLAPS proofs of the results that hold for every instance.

## 1. Inventory

| Component | Source | State | Operations |
|---|---|---|---|
| Job queue | `services/api/job_queue.py` | `_jobs`, `_idempotency_index`, `_pending_job_ids`, `_pending_sequences`, `_next_pending_sequence`, `_unpublished_job_ids`; tables `job_queue_records`, `job_queue_artifacts` | create, publish, enqueue, discard, claim, settle, retry, restore |
| Artifact files | `services/api/artifact_store.py` | content-addressed files | save, read, delete |
| Job audit log | `poc_web.py` `JobAuditEventStore` | `_events`, checkpoint; tables `job_audit_event_records`, `job_audit_event_checkpoint` | record, record once and publish, record and retry, find, restore |
| Request handlers | `poc_web.py` `PocWebRequestHandler` | locals of one thread per request | `POST /api/jobs`, `/api/job-events`, `/api/review-events`, `/api/convert`, templates, downloads |
| Review audit log | `poc_web.py` `ReviewAuditEventStore` | events, OCR policies, registered results | register a result, record a review event |
| Templates | `poc_web.py` `TemplateStore` | versions per template id, active version | register, list, get, snapshot |
| Desktop save proofs | `poc_web.py` `DesktopSaveProofStore` | bounded map of one-shot tokens | issue, consume |
| Conversion worker | `poc_web.py` 1486-1576 | a child process and a pipe | convert with a deadline |
| Temp files | `services/api/temp_file_store.py` | pairs of `.bin` and `.json` files | save, read, delete, expire |
| Persistence repository | `services/api/persistence*.py` | SQLite tables for documents, jobs, results, artifacts, review items, decisions, job events, audit chain | create one of each, update an item's status, verify the chain, initialise, reset; triggers that refuse direct changes |
| Review decisions | `services/api/review_decision_workflow.py` | none of its own | record an authoritative decision, in two transactions |
| Desktop client | `apps/desktop/api_client.py` | session, transfers | submit, poll, download, save |
| Conversion pipeline | `poc_web.py` `convert_uploaded_document` | none after the answer | parse, build, plan, map, render, list review items |
| Document IR, PDF tables, local model | `core/ir/document_ir_v1.py`, `core/parsers/pdf_*.py`, `core/llm/conversion_plan.py` | none; the resolver's answers are outside | build and validate a document, compare and merge tables, ask a local model |
| Template fingerprint | `core/ir/template_fingerprint.py` | none | match a template, read, validate and write its fields |
| Automatic validation | `core/validate/automatic.py` | none | confirm an item or a table, or ask for a person |
| Human review evidence | `scripts/ci/validate_mvp_human_review_evidence.py` | none; retained records are outside | judge and summarise a study |
| Other core and scripts | `core/render`, other parsers, `core/llm/audit_parameters.py`, `scripts/` | none | extraction, rendering, sanitising, dataset evaluation, CI |

How they interact: `run` builds one queue, one job audit log and one review log
and hands them to a `ThreadingHTTPServer`; every request has a thread of its own.
A thread is atomic only inside a store's lock. The job audit log calls the queue
while it holds its own lock and the queue calls back into the log's
`_persist_event` inside its SQLite transaction; no call goes the other way, so
the lock order is log before queue. Conversions run in the request thread, in a
child process with a deadline.

What is hard: a thread's view is stale between two lock regions (duplicate
uploads, retries); two tables, a set of files and an in-memory mirror must move
together although any storage call may fail and the process may die at any
point, recovery included; one high-quality job at most; waiting for another
request's publication; the deadline of a conversion racing its answer. The full
list, with lines, is `hazards` in `PROJECT.json`.

## 2. Modules

### JobQueue

One action per public method of `JobQueue`; each runs under the queue's lock and
is atomic with respect to the others. Variables are named after the attributes;
`db` is the two SQLite tables (each row with its artifact references, queue
sequence and rowid), `files` the artifact directory. A content stands for its
bytes and its digest at once. Failures are actions of their own: `PersistFails`
(rollback, a lost sequence number), `DiscardUnlinkFails` (row gone, memory
unchanged), `Crash` (at any moment, leaving orphaned files or files of a deleted
row), `Restart` (`_restore_jobs`, complete) and `RestartInterrupted` (dies after
requeueing some rows). `up` says whether a process is alive; the memory
variables keep their last value while it is down so that properties can compare
before and after, and no action reads them.

Requests carry what an idempotency key is bound to. Values that properties do
not tell apart (file names, timestamps, error texts, result payload) are
abstracted; `error` is whether the job carries one, `result` is the set of
contents the result holds.

### JobLedger

What the queue promises, as a specification of its own: a book of jobs in which a
key names one job at most, one high-quality job at most is active, and an entry
moves only by `Submit`, `Claim`, `Succeed`, `FailAndRequeue`, `FailForGood`,
`Retry`, `Requeue` and `Withdraw`. Memory, tables, files, publication and deaths do
not appear. `JobQueue` maps to it by `Visible`: what `get_job` shows of a job while
a server runs, what the table holds while none does. A job enters the book when
it is published; a death is seen as a requeueing of running jobs, or as the
withdrawal of a queued job whose row was being deleted.

### JobService

The threads of `_handle_create_job` and `_handle_job_event` over `JobQueue`,
with the job audit log. A thread's `pc` names the lock region it enters next;
parsing and validation touch no shared state and belong to the step before.
`record_once_and_publish` and `record_and_retry` hold the log's lock across the
queue's transaction, so each is one action that writes both tables or neither.
`PublishFails` and `ThreadDies` are the error paths: what the handler catches
and what ends its thread. `ServiceRestart` is `run`: restore the queue, the log,
and register every stored result for review. `Workers` is the set of
asynchronous workers the project README announces and the repository does not
yet have; the `service` run has one, the others none.

Branches of the handler that no state of the durable deployment reaches: the
early return of `record_once_and_publish` on a duplicate (only the creator of a
job calls it) and the republication after `find_once` (event and publication are
one transaction); the second is kept as a condition inside `Found`.

### ReviewAudit

`ReviewAuditEventStore` with the handlers that feed it. Recording an event
(checks and append, one lock) is one action, `RecordReviewEvent`; its guard is the
conjunction the code checks: role, trusted-OCR boundary, and for an approval an
earlier edit of the same target, by another actor, of the text approved, with no
unresolved "needs fix". `policies`, `targets` and `blocked` are the store's
derived sets; they are filled by registration from three places, the thread that
converted (`ConvertDirectly`, `RegisterStored`), the request that fetches a
stored result (`GetJobResult`) and the start of the server (`Restart`), which
drops the log and rebuilds the rest from the stored results that can be
downloaded. Texts, blocks and digests are opaque values.

### TempFileStore

The store takes no lock, so every file operation is a step of its own and a call
is a small program (`calls`): save writes the ciphertext and then the metadata,
delete, read and `cleanup_expired` locate, check and unlink. A file is absent,
torn (exists, fails its JSON or HMAC check) or whole. `Crash` ends all calls
where they are; `WriteFails` is an error of one write. Encryption is abstracted
to "whole files decrypt".

### DesktopSave

Server and desktop client of one protocol: a download issues a one-shot proof in
a bounded store, the client writes the file under a free name and posts a
`desktop_result_download` event with the proof, the server consumes the proof and
records the event, and the client keeps or removes the file by the answer. Each
network exchange is split into request, server steps and answer, either of which
may be lost; `handlers` is the server thread of a post, which goes on after the
client gave up. Several `Urls` are the addresses the client tries before a
connection was made. `Restart` forgets the proofs.

### ConversionWorker

The request thread and the child process of a conversion. `pipe` is how much of
the message was written (large messages take several writes), so that death in
the middle of a message is a state of the model. `Killed` may happen to a worker
at any point; `Join` covers one second of patience and the SIGKILL after it,
since both end with a dead worker. The conversion itself is opaque: it yields a
result, an error its handlers answer, another error, one that cannot be pickled,
or never ends.

### TemplateStore

`register_template` under the store's lock is one action. `mapping` stands for
the attributes an update may leave out; `Inherited` and `NewStatus` are their
inheritance. A job pins id, version and name in `CreateJob` and resolves the
definitions in `ConvertJob`, a separate step of its thread; direct conversions
resolve at once. Templates are lost in a `Restart`, results are not. `accepted`
(registrations as sent) and `promise` (definitions at job creation) are history
variables that only properties read.

### AuditContracts and Persistence

`AuditContracts` is the table of audit actions: where an action may be declared,
by which role, with which status of job or result, and whether it needs a
download as evidence. `Persistence` is the repository over it. The database is
one record of tables; each create method, each transaction of the decision
workflow, and each direct `UPDATE` or `DELETE` is one step, with the triggers of
`persistence_schema.py` as guards. The direct changes are not something the
server does today: the triggers exist to make them harmless, and the whole chain
is verified against the current rows at every append and read, so what they let
through decides whether the log stays readable. `Digest` is injective: a hash is
the sequence of what it is taken of. `Reset` and `Initialize` drop and create the
schema.

### Conversion, DocumentIR, PdfTables, LocalLlm

`Conversion` is `convert_uploaded_document` in five stages (`Accept`, `Parse`,
`Build`, `Plan`, `Finish`), because the local model is asked in the fourth, and
other requests, the resolver and the model's answers come in between.
`PdfTables` holds what is done with the two table extractors: comparison,
selection, warnings, and the merge of tables into the parser's fragments.
`DocumentIR` builds the document from parser output of the old and the new form
and validates it. `LocalLlm` chooses a runtime profile, judges its address,
resolves the name again for the request and pins the answer; `ResolverChanges` is
external and may happen at any moment.

Texts are tokens whose content a constant gives (`TextContents`: lines of cells of
words), boxes are places. What PDF and OOXML libraries return is an input.

### TemplateText, TemplateTables, TemplateMapping

`core/ir/template_fingerprint.py` in its three layers: values after a marker in
running text, header rows and body cells of tables, and the fingerprint match
with types, rules, risks and output keys. Words are tokens; the properties of
their spelling the code asks for (numeric, capitalised, a label word) are sets.

### AutoValidation

`validate_extracted_item` and `validate_table_consistency`. A record keeps the
key at each level (record, value metadata, table, cell), because the code reads
them in an order, and one may hide another.

### StudyEvidence

`validate_record` and `summarize_record` over a study that is conducted, sealed,
perhaps edited, and judged. A set of errors per rule of the source; the record is
accepted if all are empty. Retained records are external: they keep what was
sealed.

## 3. Runs

| Run | Instance | What it shows |
|---|---|---|
| `queue` | 2 jobs, 3 keys, shared content, `max_attempts` 2, unlink errors, 2 deaths | exclusivity, mirror, files, what a crash preserves, and that the queue implements `JobLedger` |
| `service` | 3 requests, 2 actors, 3 jobs, 1 worker, `max_attempts` 1, 1 death | audit log, queue and threads stay consistent; retries are audited one by one; a job claimed under the handler keeps an owner; claim order survives restarts |
| `service_live` | 2 requests, 2 deaths | every request answered, every result registered |
| `duplicate_upload` | 2 identical desktop uploads | expected violation, see Findings |
| `review` | 3 events, an approver and a reviewer, 4 results, 1 restart | four eyes; a block sent back is not approved unedited; the OCR boundary holds |
| `temp_files` | 2 artifacts, 4 calls, 1 death | live artifacts stay, nothing unfindable is left |
| `desktop_save` | 2 saves, 2 addresses, room for 2 proofs, 4 downloads, 1 restart | what the user is told agrees with the log; audited files stay; every save ends |
| `worker` | 2 conversions | reaped before the answer, every conversion ends |
| `worker_exit` | 1 conversion | expected violation, see Findings |
| `templates` | 2 templates, 3 versions each, 1 job, authentication, 1 restart | updates lose nothing, pinned definitions are used |
| `persistence` | one row of each kind, 2 audit events, 1 job event, 1 direct change, every clashing payload | the chain and the job histories verify for ever; documents stay bound to their source; a decision is answered as stored; open items stay decidable |
| `conversion` | families of uploads, of validations and of studies | see below |

`conversion` holds behaviours of three kinds, of which a behaviour is exactly one.
A conversion takes an upload from eleven families: every mode and format, PDFs
with every pair of extractor answers, repeated and empty tables, old and new
parser output, two pages, malformed requests, other file types, documents with
templates (rules across fields, risks, output keys, anchors), fields beside their
labels, tables with shifted, wrapped and missing headers, and uploads with a local
model behind a resolver that changes its answer twice. A validation takes a pair
of records or tables that differ in any one or two keys at any level. A study is
one of three reviewers and one case with every order of the first one's times, a
retried run, a fourth reviewer who withdraws, and single wrong facts; one whose
runs are blind and well timed may be edited in one field after sealing. They share a run because they are the parts of
one pipeline, from the upload to the evidence that its review works.

Bounds. `MaxSeq` and `MaxRowid` cap the counters the database hands out; in the
service runs they are above what the threads can use, so they cut nothing off.
In `queue` they allow three enqueues, enough for a requeue behind another job
and for a fallback sequence to tie. Two deaths allow an interrupted recovery. Two
jobs are enough for every pairwise property (exclusivity, shared contents,
keys); order needs the three of `service`. Three review events are an edit, a
needs-fix and an approval. Two proofs and four downloads make the store overflow.
Three versions let a template be disabled, updated without a status, and enabled.
Conversions do not share state, so two show what there is to see. In
`persistence` one row of each kind meets every trigger, since triggers compare a
row with the events that name it; the second audit event is what verifies the
chain after a change. Two changes of the resolver fall before and after the check
of a profile. `CHECK_DEADLOCK FALSE`: a bounded number of requests is served and
then nothing is left to do.

Fairness. `ServiceSpec` assumes weak fairness of each request thread
(`ThreadStep`), which the operating system's scheduler gives: a thread that can
run does. Nothing is assumed of clients, workers, crashes or restarts.
`DesktopSave` assumes it of the client only: every request has a socket timeout,
so `ReceiveNothing` becomes possible whatever the server does. `ConversionWorker`
assumes it of the request thread and of a worker that only has bytes left to
write (`Send`), not of the conversion: `recv` has no deadline once the first bytes
arrived, so a worker suspended in the middle of a write would block its thread.

## 4. Proofs

`JobProofs` has two parts. Of the queue it proves, for any finite set of jobs and
any requests, contents and bounds:

- `TypeCorrect`: `Spec => []TypeOK`;
- `ArtifactsSafe`: every artifact row names an existing file, always;
- `QueueInvariant`: the inductive invariant `QueueInv`;
- `HighQualityExclusive`, `MirrorDurable`, `PendingIsExact`: the corresponding
  invariants of the runs, as its consequences.

Assumptions: `RequestsAssumption` (shape of a request) and
`ConstantsAssumption` (`None` is no job, request or number; finite job ids;
`max_attempts` at least 1), both evaluated by TLC in every run.

The argument. None of the three invariants is inductive alone: a restart
rebuilds memory from the table, so the table needs its own half of the
invariant while the process is down (`RowMeaningful`: a row holds a job, no row
is no trace, and only an active job keeps a sequence),
and creating or retrying a high-quality job is safe only because memory and
table agree on who is active and every unpublished job is queued
(`UnpublishedAreQueued`). `QueueInv` is the conjunction. The proof has one lemma
per action; each shows that the one job the action touches stays consistent
(`JobConsistent`) and that the others are framed, so that exclusivity reduces to
the two guards `CanCreate` and `CanRetry`.

Under the same assumptions the queue implements
the ledger (`QueueImplementsLedger`, `Spec => ImplementsLedger`) and that keys are
exact (`KeysAreExact`). `LedgerInv` adds to `QueueInv` who owns a key: in memory the
index and the known jobs agree (`Bound`), an unpublished job has never been tried
(`UnpublishedAreNew`, otherwise its publication would not look like a submission),
and no two rows share a key, which is what a restart rebuilds the index from
(`RowsBound`). The refinement has one lemma per ledger step (`SubmitSeen`,
`WithdrawSeen`, `RecoverySeen`, ...) and one per action of the queue that either
uses one of them or shows that callers see nothing (`Unseen`). Creation without
publication, a deletion that fails halfway and a failed write are the unseen
ones.

`CrashesKeepPublishedJobs` is the action property that a restart finds every
published job it had, and where it was. It compares memory after a restart, rebuilt
from the rows, with memory before the crash; `RowsFromBefore` bridges them: while the server is down each row is the record in memory at its death, or
that of a running job an interrupted recovery has already requeued.

`CrashesKeepQueueOrder` is that the jobs pending before a crash are claimed in the
same order after it, if no discard fails to unlink a file (one that does leaves a
pending job whose row is gone). `OrderInv` says that whichever of two pending jobs
is in front has the smaller key in the table (sequence, then rowid: `InOrder`), which
holds because a job that joins the queue takes the next sequence number and every
pending job's is below that (`NextIsLast`). While the server is down the row of a
pending job does not change, even in an interrupted recovery, which requeues running jobs
only (`PendingRowsStay`); a restart sorts by the same key, so it cannot put one of
two such jobs in front of the other unless it was there before.

Under the same assumptions the queue implements
the ledger (`QueueImplementsLedger`, `Spec => ImplementsLedger`) and that keys are
exact (`KeysAreExact`). `LedgerInv` adds to `QueueInv` who owns a key: in memory the
index and the known jobs agree (`Bound`), an unpublished job has never been tried
(`UnpublishedAreNew`, otherwise its publication would not look like a submission),
and no two rows share a key, which is what a restart rebuilds the index from
(`RowsBound`). The refinement has one lemma per ledger step (`SubmitSeen`,
`WithdrawSeen`, `RecoverySeen`, ...) and one per action of the queue that either
uses one of them or shows that callers see nothing (`Unseen`). Creation without
publication, a deletion that fails halfway and a failed write are the unseen
ones.

`CrashesKeepPublishedJobs` is the action property that a restart finds every
published job it had, and where it was. It compares memory after a restart, rebuilt
from the rows, with memory before the crash; `RowsFromBefore` bridges them: while the server is down each row is the record in memory at its death, or
that of a running job an interrupted recovery has already requeued.

`CrashesKeepQueueOrder` is that the jobs pending before a crash are claimed in the
same order after it. The memory deque is shown to be sorted by the key the restart
sorts by (sequence, then rowid), because a job that joins it gets the next sequence
number and the largest rowid; while the server is down the row of a job that was pending keeps
both, and a requeued running job gets a later number. A restart then builds a
sequence sorted by the same key from rows with the same keys, and two
sequences sorted by a strict order agree on which of two elements comes first.

Of the service, for any number of threads, workers, requests and actors:
`ServiceInvariant`, `ServiceTypeCorrect`, and

- `ServiceImplementsQueue` (`ServiceSpec => Spec`): every step of a request
  thread, a worker or a crash is a step of the queue or leaves it alone, so
  everything above holds of the service, `ServiceImplementsLedger` and `ServiceKeepsQueueOrder` included;
- `AuditTableMirrorsLog`, `UploadsAreAudited`, `RetriesAreAudited` and
  `JobsHaveOneOwner`, the invariants of the `service` run.

`ServiceInv` adds to `LedgerInv` what a thread knows between two lock regions
(`ThreadOK`: the thread that will publish or discard a job finds it unpublished,
whoever ran in between), that nobody works while the server is down (`AllQuiet`),
that event rows are numbered like the log (`RowsNumbered`, from which the count of
the rows follows) and that a published job is stored (`PublishedStored`). The four
audit invariants are inductive only together with these: a retry is counted once
because the row and its event are written in one transaction, and an upload event
is the only one of its job because its thread is the only owner.

`ReviewProofs` is about people: the review trail, what is confirmed without a
person, and what the gate accepts as evidence that people reviewed. Of the trail,
for any results, inputs, actors and bounds: `ReviewTypeCorrect`, `ApprovalsHaveFourEyes`, `SentBackBlocksAreEditedAgain`,
`RegistrationsAreConsistent` and `OcrBoundaryIsHeld`. Four eyes is inductive because the log only grows: the
witness of an approval stays where it is, and `ApprovableWitness` extracts one
from the check for either way an approval passes (an edit of its own conversion,
or one of another). A block sent back is edited before it is approved because
the check takes the last event that matters, and an edit that outlives a needs-fix
must come after it. The boundary is an action property over the consistency of
the registrations.

Of validation and studies, for any families of validations, studies and edits:
`ConfirmationIsSound`, `AcceptedStudiesAreSound` and `AcceptedEditsAreNone`. A record
that is confirmed has an empty set of errors; each rule is a part of that set, so
each part is empty and its condition false. An accepted study is sound because
included runs have ids of their own, so their number is a cardinality and a quota
of runs is a quota of cases; that no two runs of a reviewer overlap is stated for
either order in time. An edit after sealing is detected because a study accepted
twice has the same sealed fields. Assumptions: `RecordsAssumption` and
`VocabularyAssumption` (the shape of what is validated and the words it may use),
`StudiesAssumption` and `EditsAssumption` (the shape of retained records and of the
edits of one), evaluated by TLC in the `conversion` run.

`DesktopSaveProofs`, for any number of saves, addresses, names, proofs, tokens
and restarts: `SaveTypeCorrect`, `OutcomesMatchTheLog`, `EventsAreTruthful`,
`RefusalsAreJustified`, `AuditedFilesAreKept`. The invariant adds that a server thread exists only after
a post and tokens are unique (`Posted`), that the log is exactly the accepted
events (`Accepted`), what a client may conclude (`Verdicts`), and why a token may
be missing (`Remembered`); the last needs a cardinality argument: a proof is
dropped only when the store holds `MaxProofs` newer ones. A file is kept because
a name is taken only by the save that created it, and only a failed write unlinks
one.

`TempFileStoreProofs`, for any artifacts, calls, expiries and crashes:
`StoreInvariant`, `StoreTypeCorrect`, `LiveArtifactsAreKept`,
`NoCiphertextIsLeaked`. The calls work on files and hold no lock, so the invariant
says what each call may assume at each of its file operations (`SaveOK`,
`DeletionOK`, `ReaderOK`, `CleanupOK`), that two saves never share an id
(`OwnIds`), and that the metadata of a saved artifact outlives its ciphertext
(`FilesOK`); what a cleanup decided from an old clock stays right since clocks
and expiries do not go back.

`ConversionWorkerProofs`, for any number of conversions: `ConversionTypeCorrect`,
`WorkersAreReaped`, `ResultsAreComplete`. `Lifetimes` ties worker and directory
to the parent's position, `Transfer` ties the pipe to the message.

`TemplateStoreProofs`, for any templates, requests and jobs:
`TemplateTypeCorrect`, `HistoryIsExact`, `ChangesAreAttributed`,
`PinsAreHonoured`, `UpdatesKeepWhatWasGiven`, and `VersionsAreImmutable` as an action property. Version
numbers are positions (`Numbered`) because registration only appends; a job's
pin then selects exactly one version, which no step changes (`Held`). It
assumes that requests are well formed and that `None` and the malformed identity
are neither principals nor statuses. That updates lose nothing follows by
induction on steps: the last registration that gave an attribute is the new one or
the last one of the version before.

`PersistenceProofs`, for any number of rows, events, writers and resets:
`RepositoryInvariant`, `AcceptedEventsStayVerifiable`, `UploadsStayBound`,
`DecisionsAreAnsweredTruly`, `ReviewItemsStayDecidable`. The chain is verified
against the rows as they are now, so the heart is a step relation (`Keeps`): what
an accepted event relies on (its subject, the evidence and sources it names, the
job's earlier events) is kept by every transaction, as the triggers demand. An
event that passes its checks in the old tables then passes their historical form
in the new ones (`KeepsVerifiable`), and a new event passes it once appended
(`AppendVerifies`). `Inv` adds the types and foreign keys of the tables (`DbInv`)
and the locals of a decision call between its transactions (`CallOK`). Assumptions:
`NewRowsAssumption` (a row is created with a declared status) and
`BoundsAssumption` (`max_attempts` is a natural number), evaluated by TLC.

`ConversionProofs`, for any family of uploads, any resolver and any bounds:
`TextStaysLocal`, `ReviewsAreActionable`, `ConvertedLeavesNothing` and
`MappedOutputIsSound`. The modules it is about are mostly pure functions of an input,
so the weight is in lemmas about operators. That no text leaves the machine rests on
`Pinned`: between the check of a profile and the request the resolver may change,
but the request goes to an address that was judged when it was resolved for the
request. The theorems about documents share `Staged`: what was parsed is
`ParseUpload` of the upload, what was built is the document of that, and a result
is `ResultOf` of both. The rest is induction over pages, tables and fields. Any
parser output that reaches a document is a list of pages of lists (`UploadListed`,
`WithPdfTablesListed`), a block is under review exactly if it has a warning, and
every warning of a document belongs to a block or says that the document is empty
(`DocumentSound`), so each reason to answer requires_review has an item with a page
(`ReviewHasItems`, `ItemsHavePages`), and an answer converted has excluded each
(`NoReviewNoItems`, `CleanTables`). Writing the output keeps every value because the
fields that pass conflict with no key (`WrittenIs`). Dropping fields that fail a rule
between fields settles within as many rounds as there are fields, since each round
that changes anything makes a finite set smaller (`FieldsSettle`); what is left is
what passed, and a rule satisfied by the values left is satisfied by all that passed
(`ValuesAgree`). Assumptions: `UploadsAssumption` (parser outputs are lists of pages,
blocks and fragments of the shape the parsers return; field ids of a template are
distinct, which `_validate_template_fields` enforces), `ContentsAssumption` (a text
is a list of lines, a line a list of cells) and `DnsAssumption` (a resolver answers
with addresses), evaluated by TLC in the `conversion` run.

Four more theorems follow one block, table, doubt or value from the parser's output
to the document or to the mapped field.

- `TextlessPagesAreHeld`: a PDF page without text is held for review. Each page of
  the text layer has a fragment of its own, a placeholder with a warning if it has
  no text; adapting old parser output, and merging it with the fragments of its page,
  keep pages and their numbers (`PagesPreserved`), and no fragment is lost on the
  way: the blocks of the document are one per fragment, in order (`Numbered`), and
  each carries its fragment's warnings.
- `TablesStayExact`: as many blocks of the document are a given selected table as the
  selected extractor found copies of it. Tables are placed one after the other, each
  in a free place of its own key if there is one and at the end of its page
  otherwise, so that after each of them a key has as many taken places as tables placed
  (`PlacedSoFar`); dropping the places nobody took leaves the taken ones and
  everything that is no table; flattening into blocks then counts them one by one
  (`TablesCounted`).
- `DoubtIsKept`: a block of the old form that is in doubt and whose text no other block
  has leaves a block with that text under review. If its page has no fragments it
  becomes one; otherwise the fragment that matches it takes it, because the best match
  among blocks of one text is the only one there (`MergePageIs`), and what a fragment
  takes over includes the doubt.
- `ColumnsAreTheirOwn`: a value that a field reads from a table of a workbook has the
  field's label above it in its own column, unless a cell in front of it is empty. In a
  workbook nothing is merged and every cell keeps its column, so each header
  candidate holds the cells of its row, shifted by its offset and by no more
  (`HeaderIn`, proved of a header cut off after its anchor, `AfterAnchor`, and of every
  way `HeaderFor` finds one); the label is one cell of the header (`SpanNamed`); and the
  body's column is moved to the right only over leading columns that are all empty
  (`PlaceOfColumn`). The value is read from a block of the document under the block's own
  number (`FieldRead`, `WorkbookBlocks`), so what is said of the block's rows holds where
  the mapped field points.

They rest on lemmas about filtering: `Picked` is the subsequence of the elements in a
set of positions, defined by the positions in ascending order, so that what a filter
keeps, how long it is and in which order follows from facts about finite sets
instead of from `SelectSeq`, whose recursive definition the provers cannot expand.

Induction over data. The library's induction theorems take an operator and cannot
be used, so `SetInduction` states induction for a set of numbers and is derived
from the well-foundedness of the numbers; a recursive function is shown to exist, by
that induction, before its equation is used (`PlaceTablesAfter`,
`PlaceSelectedAfter`, `WrittenAfter`, `RoundsAfter`, and those of merged pages and
flattened lists).

Only model-checked: one safety property, `RowsKept` of the `conversion` run. It holds of
the families of uploads the run takes and not of every parser output that has the types
`UploadsAssumption` gives: an old-form table without rows, or with a text another
table of its page shares but not its rows, may take the record of the other one.
Which outputs real parsers return in that respect is not in the code, so there is
no assumption to prove it from.

The operators of the conversion modules were also compared with the
Python code on generated inputs (templates, validations, studies) while they were
written. Type correctness of the proved modules, and the results named above that
no run lists, are proved and not part of a run. Liveness under fairness is out of
the prover's reach and stays with TLC.

## 5. Findings

`duplicate_upload`: two identical desktop uploads of one actor race. The second
looks for its audit event, finds none, and before its next look the first
publishes job and event; the second then takes the presence of an upload event,
or the fact that the job is no longer unpublished, for another actor's upload
and answers 400. The test for concurrent uploads expects 202 for both; its
barrier releases the threads before job creation, so the window is rarely hit.

`worker_exit`: a worker that dies within the body of a large message makes `recv`
raise `OSError`; only `EOFError` is turned into an answer, so the request gets
none and its job stays running. A worker that dies before it sends is answered as
the tests expect.

Behaviours the properties of passing runs have to allow for:

- `delete` of the temporary files looks for the metadata file and reads it
  afterwards, outside its `try`: a concurrent deletion makes it raise
  `FileNotFoundError`, although `docs/temp-file-management.md` calls it safe for
  missing artifacts; `NoCiphertextLeaked` shows that the ciphertext is gone even
  then.
- `_write_download_file` unlinks its path after a failed write even if its own
  `open` created nothing, so a concurrent save that took the name in between loses
  a complete, audited file: the exception in `AuditedFilesKept`.
- A review item that is audited or decided directly while it is open is frozen by
  the triggers and can never be decided by the workflow: the exception in
  `DecidableUnlessFrozen`.
- A table whose header row begins with the anchor's own cell is read one column
  further right when the first body cell is empty (`template_fingerprint.py`
  1319-1329, as `tests/test_template_fingerprint.py:1467` wants): the exception in
  `ColumnValuesOwn`. In a document that is not a workbook, a heading in front of
  the header's cells can shift the columns to the left.
- An output key made of dots only has no parts, and its value is not written: the
  exception in `ConvertedIsClean` and `ConfirmedOutputSound`.
- In automatic validation an `extractor` of the record hides an OCR extractor in
  its `value_metadata`, `extraction_engine` is not searched for OCR names, and a
  table cell that names a source of its own hides an OCR marker of its table
  (`automatic.py` 691-703): `AutoConfirmSound` speaks of the keys the code reads.
- A read timeout of a plain HTTP answer of the local model is an error that
  `_urllib_transport` does not translate: `PlanFails`.
- The seal of a study covers every field but `runs`. A run that is dropped after
  sealing is noticed only if coverage or attempt numbers need it, so
  `EditsDetected` is about edits of what remains. The execution attestation is
  never ready, so `efficiency_target_met` is always false.

## 6. Not modelled, and the plan

Not modelled, and why:

- `scripts/evaluate_dataset.py`: string measures, averages and reports over files;
  its results are numbers without state or order.
- `core/llm/audit_parameters.py` and its rules: a sanitiser of free-form strings
  whose decisions are regular expressions over characters.
- DOCX, XLSX and OCR extraction and OOXML rendering: XML and layout of one format
  each; their results are inputs of `Conversion`.
- `core/ir/template_versions.py`: an immutable registry no other part uses.
- the loaders of manifest and package of the study gate, and the syntax checks of
  its records, which are single facts (`unpinned`) of the model;
- the browser end-to-end driver, CI validators, packaging, HTML, vendored code,
  the wording of messages, and the in-memory mode of the queue, which has the
  actions of `JobQueue` without the disk.

One hazard has no property: nothing in the server claims a job that was requeued,
so a retried or desktop job waits for a worker the repository does not have. No
fairness the code justifies would make a liveness property of it true.

Next: a statement of `RowsKept` that names what old parser output must satisfy; the
staging-file manager of the desktop client.
