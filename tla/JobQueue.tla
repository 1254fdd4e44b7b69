------------------------------ MODULE JobQueue ------------------------------
(***************************************************************************)
(* The conversion job queue of services/api/job_queue.py: the in-memory    *)
(* JobQueue object, the SQLite tables job_queue_records and                *)
(* job_queue_artifacts that mirror it, and the content-addressed artifact  *)
(* files of services/api/artifact_store.py that the second table points    *)
(* at.                                                                     *)
(*                                                                         *)
(* Every public method of JobQueue runs under one lock, so each is one     *)
(* action here.  What the lock does not protect against is modelled apart: *)
(* a storage error raised out of _persist, the death of the process at any *)
(* point (between writing an artifact file and committing the row that     *)
(* names it included), and a restart that is itself interrupted.           *)
(***************************************************************************)
EXTENDS Integers, FiniteSets, Sequences, SequencesExt

CONSTANTS
    JobIds,         \* the uuid-based job ids the queue may hand out
    Requests,       \* the job requests callers may submit
    Contents,       \* byte contents (each stands for its SHA-256 digest too)
    None,           \* Python's None
    MaxAttempts,    \* JobQueue(max_attempts=...)
    UnlinkMayFail,  \* can ArtifactFileStore.delete raise OSError?
    MaxSeq,         \* bound: largest queue sequence handed out
    MaxRowid,       \* bound: largest rowid SQLite hands out
    MaxTries,       \* bound: attempts after which nobody retries by hand
    MaxCrashes      \* bound: number of process deaths

Modes == {"standard", "high_quality"}
TerminalStatuses == {"succeeded", "failed"}
Statuses == {"queued", "running"} \cup TerminalStatuses

(***************************************************************************)
(* A request: the idempotency key, the mode, and what the key gets bound   *)
(* to (file name and content type, source bytes, template id, conversion   *)
(* parameters).                                                            *)
(***************************************************************************)
ASSUME RequestsAssumption ==
    \A r \in Requests :
        /\ DOMAIN r = {"key", "mode", "file", "src", "tmpl", "params"}
        /\ r.mode \in Modes
        /\ r.src \in Contents \cup {None}

ASSUME ConstantsAssumption ==
    /\ IsFiniteSet(JobIds)
    /\ None \notin JobIds \cup Requests \cup Contents \cup Int
    /\ \A r \in Requests : r.key # None
    /\ MaxAttempts \in Nat \ {0}
    /\ UnlinkMayFail \in BOOLEAN
    /\ {MaxSeq, MaxRowid, MaxTries, MaxCrashes} \subseteq Nat

Keys == {r.key : r \in Requests}

VARIABLES
    up,           \* is a server process alive?
    jobs,         \* _jobs: job id -> JobRecord (status "absent": no entry)
    index,        \* _idempotency_index: key -> job id
    pending,      \* _pending_job_ids, the deque of claimable jobs
    pendingSeq,   \* _pending_sequences: job id -> queue sequence
    nextSeq,      \* _next_pending_sequence
    unpublished,  \* _unpublished_job_ids: created but not yet visible
    db,           \* job_queue_records with each row's job_queue_artifacts
    files,        \* contents present in the artifact directory
    crashes       \* how often the process died (bounded by MaxCrashes)

memory == <<jobs, index, pending, pendingSeq, nextSeq, unpublished>>
disk == <<db, files>>
vars == <<up, memory, disk, crashes>>

JobRecord == [req : Requests \cup {None}, status : Statuses \cup {"absent"},
              attempts : Nat, result : SUBSET Contents, error : BOOLEAN,
              retryable : BOOLEAN]

NoJob == [req |-> None, status |-> "absent", attempts |-> 0, result |-> {},
          error |-> FALSE, retryable |-> TRUE]

(* rowid 0: the table has no row for this job id. *)
Row == [job : JobRecord, seq : Int \cup {None}, rowid : Nat]
NoRow == [job |-> NoJob, seq |-> None, rowid |-> 0]

-----------------------------------------------------------------------------
(* Questions asked of the state.                                           *)

Known(j) == jobs[j].status # "absent"
Published(j) == Known(j) /\ j \notin unpublished
Stored(j) == db[j].rowid # 0

IsHighQuality(rec) == rec.req # None /\ rec.req.mode = "high_quality"
ActiveHighQuality(rec) ==
    IsHighQuality(rec) /\ rec.status \notin TerminalStatuses

HasActiveHighQualityJob == \E j \in JobIds : ActiveHighQuality(jobs[j])
HasRunningHighQualityJob ==
    \E j \in JobIds : IsHighQuality(jobs[j]) /\ jobs[j].status = "running"

(* _extract_binary_artifacts: the byte strings inside a record.            *)
Artifacts(rec) ==
    rec.result \cup (IF rec.req # None /\ rec.req.src # None
                     THEN {rec.req.src} ELSE {})

Referenced(table) == UNION {Artifacts(table[j].job) : j \in JobIds}

Maximal(S) == {m \in S : \A x \in S : x <= m}
Minimal(S) == {m \in S : \A x \in S : m <= x}

(***************************************************************************)
(* _get_idempotent_job_locked: what a key is bound to already.  A source   *)
(* binding compares metadata and bytes, a template binding the template id *)
(* alone (the stored snapshot also carries a version).                     *)
(***************************************************************************)
SameBinding(rec, r, compareParams) ==
    /\ rec.req.file = r.file
    /\ rec.req.mode = r.mode
    /\ rec.req.src = r.src
    /\ rec.req.tmpl = r.tmpl
    /\ compareParams => rec.req.params = r.params

(* Bug: a key whose job is not published yet counts as free.               *)
LookupPublished(r, includeUnpublished, compareParams) ==
    LET j == index[r.key] IN
    CASE j = None \/ j \in unpublished -> "free"
      [] j # None /\ j \notin unpublished
                  /\ SameBinding(jobs[j], r, compareParams) -> "existing"
      [] OTHER -> "bound to different parameters"
Lookup(r, includeUnpublished, compareParams) ==
    LET j == index[r.key] IN
    CASE j = None -> "free"
      [] j # None /\ j \in unpublished /\ ~includeUnpublished -> "creation pending"
      [] j # None /\ (j \in unpublished => includeUnpublished)
                  /\ SameBinding(jobs[j], r, compareParams) -> "existing"
      [] OTHER -> "bound to different parameters"

-----------------------------------------------------------------------------
(* Durable steps.                                                          *)

(***************************************************************************)
(* _persist: save every byte string as a file, then in one transaction     *)
(* upsert the row and replace its artifact rows, then delete the files     *)
(* only the old row referenced.                                            *)
(***************************************************************************)
Persist(j, rec, seq) ==
    /\ \E top \in Maximal({db[k].rowid : k \in JobIds}) :
        /\ Stored(j) \/ top < MaxRowid
        /\ db' = [db EXCEPT ![j] =
                 [job |-> rec, seq |-> seq,
                  rowid |-> IF Stored(j) THEN db[j].rowid ELSE top + 1]]
    /\ files' = (files \cup Artifacts(rec))
                  \ ((Artifacts(db[j].job) \ Artifacts(rec)) \ Referenced(db'))

(* _delete_persisted up to its commit, and its trailing file cleanup.      *)
DeleteRow(j) == db' = [db EXCEPT ![j] = NoRow]
(* Bug: the cleanup does not ask whether another job shares the content.   *)
CleanupFilesBlindly(j) == files' = files \ Artifacts(db[j].job)
CleanupFiles(j) == files' = files \ (Artifacts(db[j].job) \ Referenced(db'))

(* Bug: the row written is the record before the change.                   *)
ReplacePersistingOld(j, rec, seq) ==
    /\ Persist(j, jobs[j], seq)
    /\ jobs' = [jobs EXCEPT ![j] = rec]
(* _replace: persist the changed record, then install it.                  *)
Replace(j, rec, seq) ==
    /\ Persist(j, rec, seq)
    /\ jobs' = [jobs EXCEPT ![j] = rec]

(* _allocate_pending_sequence followed by _append_pending.                 *)
CanAllocate == nextSeq < MaxSeq
AppendPending(j) ==
    /\ nextSeq' = nextSeq + 1
    /\ pending' = Append(pending, j)
    /\ pendingSeq' = [pendingSeq EXCEPT ![j] = nextSeq]

LeavePending(j) ==
    /\ pending' = RemoveFirst(pending, j)
    /\ pendingSeq' = [pendingSeq EXCEPT ![j] = None]

-----------------------------------------------------------------------------
(* Creating and publishing jobs.                                           *)

CanCreate(r) ==
    /\ up
    /\ Lookup(r, FALSE, TRUE) = "free"
    /\ r.mode = "high_quality" => ~HasActiveHighQualityJob

NewJob(r) == [NoJob EXCEPT !.req = r, !.status = "queued"]

(***************************************************************************)
(* create_job / get_or_create_job for a key that is free.  The id is fresh *)
(* (uuid4): no trace of it is left in memory or on disk.                   *)
(***************************************************************************)
CreateJob(j, r, enqueue, publish) ==
    /\ CanCreate(r)
    /\ ~Known(j) /\ ~Stored(j)
    /\ jobs' = [jobs EXCEPT ![j] = NewJob(r)]
    /\ index' = [index EXCEPT ![r.key] = j]
    /\ IF publish
       THEN /\ enqueue => CanAllocate
            /\ Persist(j, NewJob(r), IF enqueue THEN nextSeq ELSE None)
            /\ UNCHANGED unpublished
       ELSE /\ unpublished' = unpublished \cup {j}
            /\ UNCHANGED disk
    /\ IF enqueue /\ publish
       THEN AppendPending(j)
       ELSE UNCHANGED <<pending, pendingSeq, nextSeq>>
    /\ UNCHANGED <<up, crashes>>

IsPending(j) == j \in ToSet(pending)

(* publish_job raises on an unpublished job that is no longer queued.      *)
CanPublish(j, enqueue) ==
    /\ up
    /\ Known(j)
    /\ (enqueue /\ ~IsPending(j)) => jobs[j].status = "queued"

PublishJob(j, enqueue) ==
    /\ CanPublish(j, enqueue)
    /\ unpublished' = unpublished \ {j}
    /\ IF enqueue /\ ~IsPending(j)
       THEN CanAllocate /\ Persist(j, jobs[j], nextSeq) /\ AppendPending(j)
       ELSE /\ Persist(j, jobs[j], pendingSeq[j])
            /\ UNCHANGED <<pending, pendingSeq, nextSeq>>
    /\ UNCHANGED <<up, jobs, index, crashes>>

EnqueueJob(j) ==
    /\ jobs[j].status = "queued"
    /\ PublishJob(j, TRUE)

-----------------------------------------------------------------------------
(* Discarding a queued job.                                                *)

CanDiscard(j) == up /\ jobs[j].status = "queued"

DiscardQueuedJob(j) ==
    /\ CanDiscard(j)
    /\ DeleteRow(j)
    /\ CleanupFiles(j)
    /\ jobs' = [jobs EXCEPT ![j] = NoJob]
    /\ unpublished' = unpublished \ {j}
    /\ index' = [index EXCEPT ![jobs[j].req.key] = None]
    /\ LeavePending(j)
    /\ UNCHANGED <<up, nextSeq, crashes>>

(* The row is gone when unlink raises; the exception leaves memory alone.  *)
DiscardUnlinkFails(j) ==
    /\ UnlinkMayFail
    /\ CanDiscard(j)
    /\ DeleteRow(j)
    /\ Artifacts(db[j].job) \ Referenced(db') # {}
    /\ UNCHANGED <<up, memory, files, crashes>>

-----------------------------------------------------------------------------
(* Claiming and settling jobs.                                             *)

(***************************************************************************)
(* start_next_job: drop stale heads, then claim the first queued job       *)
(* unless a running high-quality job blocks it.  The row keeps the queue   *)
(* sequence so that a crash puts the job back where it was.                *)
(***************************************************************************)
NextClaimable == SelectInSeq(pending, LAMBDA j : jobs[j].status = "queued")

StartNextJob ==
    LET i == NextClaimable
        j == pending[i]
    IN  /\ up
        /\ i # 0
        /\ IsHighQuality(jobs[j]) => ~HasRunningHighQualityJob
        /\ Replace(j, [jobs[j] EXCEPT !.status = "running"], pendingSeq[j])
        /\ pending' = SubSeq(pending, i + 1, Len(pending))
        /\ pendingSeq' = [k \in JobIds |->
                            IF \E n \in 1..i : pending[n] = k
                            THEN None ELSE pendingSeq[k]]
        /\ UNCHANGED <<up, index, nextSeq, unpublished, crashes>>

StartJob(j) ==
    /\ up
    /\ Published(j)
    /\ jobs[j].status = "queued"
    /\ IsHighQuality(jobs[j]) => ~HasRunningHighQualityJob
    /\ Replace(j, [jobs[j] EXCEPT !.status = "running"], pendingSeq[j])
    /\ LeavePending(j)
    /\ UNCHANGED <<up, index, nextSeq, unpublished, crashes>>

RequireRunning(j) == up /\ jobs[j].status = "running"

MarkSucceeded(j, result) ==
    /\ RequireRunning(j)
    /\ Replace(j, [jobs[j] EXCEPT !.status = "succeeded", !.result = result,
                                  !.error = FALSE], None)
    /\ UNCHANGED <<up, index, pending, pendingSeq, nextSeq, unpublished, crashes>>

WillRequeue(j, retryable) ==
    retryable /\ jobs[j].attempts + 1 < MaxAttempts

MarkFailed(j, retryable) ==
    LET failed == [jobs[j] EXCEPT !.attempts = @ + 1, !.error = TRUE] IN
    /\ RequireRunning(j)
    /\ IF WillRequeue(j, retryable)
       THEN /\ CanAllocate
            /\ Replace(j, [failed EXCEPT !.status = "queued"], nextSeq)
            /\ AppendPending(j)
       ELSE /\ Replace(j, [failed EXCEPT !.status = "failed",
                                         !.retryable = retryable], None)
            /\ UNCHANGED <<pending, pendingSeq, nextSeq>>
    /\ UNCHANGED <<up, index, unpublished, crashes>>

(* Bug: retrying ignores the other active high-quality job.                *)
CanRetryUnguarded(j) ==
    /\ up
    /\ jobs[j].status = "failed"
    /\ jobs[j].retryable
    /\ jobs[j].attempts < MaxTries
CanRetry(j) ==
    /\ up
    /\ jobs[j].status = "failed"
    /\ jobs[j].retryable
    /\ IsHighQuality(jobs[j]) => ~HasActiveHighQualityJob
    /\ jobs[j].attempts < MaxTries

RetryFailedJob(j) ==
    /\ CanRetry(j)
    /\ CanAllocate
    /\ Replace(j, [jobs[j] EXCEPT !.status = "queued", !.error = FALSE], nextSeq)
    /\ AppendPending(j)
    /\ UNCHANGED <<up, index, unpublished, crashes>>

-----------------------------------------------------------------------------
(* Failures.                                                               *)

(***************************************************************************)
(* A storage error inside _persist: the transaction rolls back, files this *)
(* call created are removed again, the exception skips every later         *)
(* assignment.  Only a queue sequence already handed out is lost.          *)
(***************************************************************************)
PersistFails ==
    /\ CanAllocate
    /\ \/ \E r \in Requests : CanCreate(r)
       \/ \E j \in JobIds : \/ CanPublish(j, TRUE) /\ ~IsPending(j)
                            \/ RequireRunning(j) /\ WillRequeue(j, TRUE)
                            \/ CanRetry(j)
    /\ nextSeq' = nextSeq + 1
    /\ UNCHANGED <<up, jobs, index, pending, pendingSeq, unpublished, disk, crashes>>

(***************************************************************************)
(* The process dies.  An interrupted _persist may have saved artifact      *)
(* files whose row it never committed, an interrupted _delete_persisted    *)
(* may have committed without removing the files.  The memory variables    *)
(* keep their last values while the process is down; nothing reads them.   *)
(***************************************************************************)
Crash ==
    /\ up
    /\ crashes < MaxCrashes
    /\ up' = FALSE
    /\ crashes' = crashes + 1
    /\ \/ /\ \E saved \in SUBSET Contents : files' = files \cup saved
          /\ UNCHANGED db
       \/ \E j \in JobIds : CanDiscard(j) /\ DeleteRow(j) /\ UNCHANGED files
    /\ UNCHANGED memory

(***************************************************************************)
(* _restore_jobs.  A job that was running goes back to the queue: at its   *)
(* old sequence, or, if it never had one, in front of all pending jobs.    *)
(***************************************************************************)
RunningRows == {j \in JobIds : Stored(j) /\ db[j].job.status = "running"}
PendingRows == {j \in JobIds : /\ Stored(j) /\ db[j].job.status = "queued"
                               /\ db[j].seq # None}

Requeued(rec) == [rec EXCEPT !.status = "queued"]

FirstPendingSeq ==
    IF PendingRows = {} THEN {0} ELSE Minimal({db[j].seq : j \in PendingRows})

(* Bug: recovery counts the interrupted run as an attempt.                 *)
RecoveredRowCounting(j, first) ==
    [job |-> [Requeued(db[j].job) EXCEPT !.attempts = @ + 1],
     seq |-> IF db[j].seq = None THEN first - 1 ELSE db[j].seq,
     rowid |-> db[j].rowid]
RecoveredRow(j, first) ==
    LET fallback == first - Cardinality(RunningRows)
        position == Cardinality({k \in RunningRows : db[k].rowid < db[j].rowid})
    IN  [job |-> Requeued(db[j].job),
         seq |-> IF db[j].seq = None THEN fallback + position ELSE db[j].seq,
         rowid |-> db[j].rowid]

RecoveredTable(done, first) ==
    [j \in JobIds |-> IF j \in done THEN RecoveredRow(j, first) ELSE db[j]]

(* sorted(pending_jobs): by sequence, then by rowid.                       *)
(* Bug: the queue is rebuilt in the order of the rows.                     *)
BeforeByRow(table, j, k) == table[j].rowid < table[k].rowid
Before(table, j, k) ==
    \/ table[j].seq < table[k].seq
    \/ table[j].seq = table[k].seq /\ table[j].rowid < table[k].rowid

SortedBySequence(S, table) ==
    {p \in [1..Cardinality(S) -> S] :
        \A m, n \in 1..Cardinality(S) : m < n => Before(table, p[m], p[n])}

(* Every artifact row must be readable, or the constructor raises.         *)
ArtifactsReadable == Referenced(db) \subseteq files

Restart ==
    LET queue == RunningRows \cup PendingRows IN
    /\ ~up
    /\ ArtifactsReadable
    /\ up' = TRUE
    /\ \E first \in FirstPendingSeq : db' = RecoveredTable(RunningRows, first)
    /\ jobs' = [j \in JobIds |-> db'[j].job]
    /\ \E ix \in [Keys -> JobIds \cup {None}] :
        /\ \A k \in Keys :
            IF ix[k] = None
            THEN \A j \in JobIds : Stored(j) => db[j].job.req.key # k
            ELSE Stored(ix[k]) /\ db[ix[k]].job.req.key = k
        /\ index' = ix
    /\ pending' \in SortedBySequence(queue, db')
    /\ pendingSeq' = [j \in JobIds |-> IF j \in queue THEN db'[j].seq ELSE None]
    /\ \E top \in IF queue = {} THEN {0 - 1} ELSE Maximal({db'[j].seq : j \in queue}) :
        nextSeq' = top + 1
    /\ unpublished' = {}
    /\ UNCHANGED <<files, crashes>>

(* The process dies again after requeueing only the first running rows.    *)
RestartInterrupted ==
    /\ ~up
    /\ crashes < MaxCrashes
    /\ ArtifactsReadable
    /\ \E last \in RunningRows, first \in FirstPendingSeq :
        db' = RecoveredTable({j \in RunningRows : db[j].rowid <= db[last].rowid}, first)
    /\ crashes' = crashes + 1
    /\ UNCHANGED <<up, memory, files>>

-----------------------------------------------------------------------------

Init ==
    /\ up = TRUE
    /\ jobs = [j \in JobIds |-> NoJob]
    /\ index = [k \in Keys |-> None]
    /\ pending = <<>>
    /\ pendingSeq = [j \in JobIds |-> None]
    /\ nextSeq = 0
    /\ unpublished = {}
    /\ db = [j \in JobIds |-> NoRow]
    /\ files = {}
    /\ crashes = 0

Next ==
    \/ \E j \in JobIds, r \in Requests, enqueue \in BOOLEAN, publish \in BOOLEAN :
        CreateJob(j, r, enqueue, publish)
    \/ \E j \in JobIds, enqueue \in BOOLEAN : PublishJob(j, enqueue)
    \/ \E j \in JobIds : EnqueueJob(j)
    \/ \E j \in JobIds : DiscardQueuedJob(j)
    \/ \E j \in JobIds : DiscardUnlinkFails(j)
    \/ StartNextJob
    \/ \E j \in JobIds : StartJob(j)
    \/ \E j \in JobIds, result \in SUBSET Contents : MarkSucceeded(j, result)
    \/ \E j \in JobIds, retryable \in BOOLEAN : MarkFailed(j, retryable)
    \/ \E j \in JobIds : RetryFailedJob(j)
    \/ PersistFails
    \/ Crash
    \/ Restart
    \/ RestartInterrupted

Spec == Init /\ [][Next]_vars
-----------------------------------------------------------------------------
(* Correctness.                                                            *)

(* Every variable keeps its shape.                                         *)
TypeOK ==
    /\ up \in BOOLEAN
    /\ jobs \in [JobIds -> JobRecord]
    /\ index \in [Keys -> JobIds \cup {None}]
    /\ pending \in Seq(JobIds)
    /\ pendingSeq \in [JobIds -> Int \cup {None}]
    /\ nextSeq \in Int
    /\ unpublished \in SUBSET JobIds
    /\ db \in [JobIds -> Row]
    /\ files \in SUBSET Contents
    /\ crashes \in Nat

(***************************************************************************)
(* At most one high-quality job is queued or running, in memory and in the *)
(* table a restart would load: no order of create, retry, failure, crash   *)
(* and recovery gets a second one past the checks of _create_job_locked    *)
(* and retry_failed_job.                                                   *)
(***************************************************************************)
AtMostOneActiveHighQuality ==
    \A j, k \in JobIds :
        /\ ActiveHighQuality(jobs[j]) /\ ActiveHighQuality(jobs[k]) => j = k
        /\ ActiveHighQuality(db[j].job) /\ ActiveHighQuality(db[k].job) => j = k

(***************************************************************************)
(* While the server runs, memory and table agree: a stored row is exactly  *)
(* the record in memory and belongs to a published job, and a published    *)
(* job is stored.  The one exception is a queued job whose discard lost    *)
(* its row and then failed to unlink the artifact file.                    *)
(***************************************************************************)
DurableMirror ==
    up => \A j \in JobIds :
            /\ Stored(j) => Published(j) /\ db[j].job = jobs[j]
            /\ Published(j) /\ ~Stored(j) =>
                    UnlinkMayFail /\ jobs[j].status = "queued"

(***************************************************************************)
(* The deque holds exactly the jobs that have a queue sequence, each once, *)
(* all of them queued and published, and the stored sequence is the one in *)
(* memory; a queued job outside the deque has no sequence in its row, so a *)
(* restart does not make claimable what was not.                           *)
(***************************************************************************)
PendingExact ==
    up => /\ IsInjective(pending)
          /\ \A j \in JobIds :
                /\ IsPending(j) <=> pendingSeq[j] # None
                /\ IsPending(j) => Published(j) /\ jobs[j].status = "queued"
                /\ Stored(j) /\ jobs[j].status = "queued" => db[j].seq = pendingSeq[j]
                /\ jobs[j].status \in TerminalStatuses => db[j].seq = None

(***************************************************************************)
(* Every artifact row names a file that exists, at every moment and after  *)
(* every crash: shared contents survive the cleanup of one of their jobs,  *)
(* so the constructor of a restarted queue never refuses to load.          *)
(***************************************************************************)
NoDanglingArtifacts == Referenced(db) \subseteq files

(***************************************************************************)
(* Idempotency: a key is bound to the one known job that carries it, and   *)
(* no two rows share a key (the UNIQUE constraint cannot fire).            *)
(***************************************************************************)
IndexExact ==
    /\ up => /\ \A k \in Keys : index[k] # None =>
                                    Known(index[k]) /\ jobs[index[k]].req.key = k
             /\ \A j \in JobIds : Known(j) => index[jobs[j].req.key] = j
    /\ \A j, k \in JobIds :
            Stored(j) /\ Stored(k) /\ db[j].job.req.key = db[k].job.req.key => j = k

(***************************************************************************)
(* What a crash and a restart, however often interrupted, do to the jobs   *)
(* callers had seen: a settled job comes back unchanged, a running one     *)
(* comes back claimable with its attempts unchanged, a queued one comes    *)
(* back as it was unless it was being discarded, and a job never published *)
(* is gone.                                                                *)
(***************************************************************************)
CrashKeepsPublishedJobs ==
    [][(~up /\ up') =>
        \A j \in JobIds :
            CASE ~Published(j) -> jobs'[j] = NoJob
              [] Published(j) /\ jobs[j].status \in TerminalStatuses ->
                    jobs'[j] = jobs[j]
              [] Published(j) /\ jobs[j].status = "running" ->
                    jobs'[j] = Requeued(jobs[j]) /\ j \in ToSet(pending')
              [] Published(j) /\ jobs[j].status = "queued" ->
                    \/ jobs'[j] = jobs[j] /\ (j \in ToSet(pending') <=> IsPending(j))
                    \/ jobs'[j] = NoJob]_vars

(* Is j in front of k?                                                     *)
Ahead(queue, j, k) ==
    \E m, n \in DOMAIN queue : m < n /\ queue[m] = j /\ queue[n] = k

(* Jobs that were pending before the crash are claimed in the same order.  *)
CrashKeepsQueueOrder ==
    [][~up /\ up' /\ ~UnlinkMayFail =>
        \A j, k \in JobIds :
            IsPending(j) /\ IsPending(k) /\ Ahead(pending', j, k) => Ahead(pending, j, k)]_vars

-----------------------------------------------------------------------------
(* The promise to callers.                                                 *)

(* What get_job shows of a record, while the server runs; while it does    *)
(* not, what the table holds is what the callers will find again.          *)
View(rec) ==
    [status |-> rec.status, attempts |-> rec.attempts, retryable |-> rec.retryable,
     key |-> IF rec.req = None THEN None ELSE rec.req.key, high |-> IsHighQuality(rec)]
Visible(j) ==
    IF ~up THEN View(db[j].job)
    ELSE IF Published(j) THEN View(jobs[j]) ELSE View(NoJob)

Ledger == INSTANCE JobLedger WITH life <- [j \in JobIds |-> Visible(j)]

(***************************************************************************)
(* The queue implements the job ledger: whatever creations, publications   *)
(* and claims race, and whenever storage fails or the process dies, two    *)
(* jobs are never seen under one key, a settled job never moves but by a   *)
(* permitted retry, no automatic retry exceeds max_attempts, and a crash   *)
(* costs no attempt and gives none back.                                   *)
(***************************************************************************)
ImplementsLedger == Ledger!LedgerSpec

=============================================================================
