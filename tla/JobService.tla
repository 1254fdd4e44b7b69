---------------------------- MODULE JobService ----------------------------
(***************************************************************************)
(* The request threads of services/api/poc_web.py that drive the job queue *)
(* (POST /api/jobs from the browser and from the desktop client, and the   *)
(* retry_conversion job event), together with JobAuditEventStore, whose    *)
(* durable log lives in the same SQLite database as the queue.             *)
(*                                                                         *)
(* A ThreadingHTTPServer gives every request its own thread; a thread is   *)
(* atomic only while it holds the lock of the store it is calling, so each *)
(* such call is one action and everything else interleaves.                *)
(* JobAuditEventStore calls into the queue while it holds its own lock     *)
(* (record_once_and_publish, record_and_retry) and never the other way     *)
(* round; every reader of the log takes the log's lock, so the pair is one *)
(* action.                                                                 *)
(***************************************************************************)
EXTENDS JobQueue

CONSTANTS
    Threads,   \* request threads; each serves one request (the bound)
    Actors,    \* authenticated principals
    Workers    \* asynchronous workers that drain the queue (may be empty)

VARIABLES
    threads,     \* thread -> the local variables of its handler
    events,      \* JobAuditEventStore._events
    eventRows,   \* job_audit_event_records: <<sequence, event>>
    registered,  \* jobs whose result the review store knows
    working      \* worker -> the job it claimed

log == <<events, eventRows>>
serviceVars == <<threads, log, registered, working>>
allVars == <<vars, serviceVars>>

Finished == {"accepted", "rejected", "dead"}
Pcs == {"idle", "create", "audit", "discard", "start", "convert", "register",
        "find", "findAny", "checkUnpublished", "wait", "refind", "found",
        "getJob", "retry", "record"} \cup Finished

Thread == [pc : Pcs, kind : {"web", "desktop", "retry", "open", "none"},
           req : Requests \cup {None}, actor : Actors \cup {None},
           job : JobIds \cup {None}]
IdleThread == [pc |-> "idle", kind |-> "none", req |-> None, actor |-> None,
               job |-> None]

Event == [action : {"browser_upload", "desktop_upload", "retry_conversion",
                    "open_detail"},
          job : JobIds, actor : Actors]

At(t, pc) == up /\ threads[t].pc = pc
Goto(t, pc) == threads' = [threads EXCEPT ![t].pc = pc]
GotoWith(t, pc, j) == threads' = [threads EXCEPT ![t].pc = pc, ![t].job = j]

-----------------------------------------------------------------------------
(* The audit log.                                                          *)

UploadActions == {"browser_upload", "desktop_upload"}
Logged == ToSet(events)

(* Bug: the event is appended to memory, the INSERT is left out.           *)
RecordInMemory(e) ==
    /\ events' = Append(events, e)
    /\ UNCHANGED eventRows
(***************************************************************************)
(* _audit_event_with_integrity and _persist_event, in the transaction of   *)
(* the queue row: the next sequence number is the length of the log in     *)
(* memory plus one, and the table's primary key must be free.              *)
(***************************************************************************)
Record(e) ==
    /\ \A row \in eventRows : row[1] # Len(events) + 1
    /\ eventRows' = eventRows \cup {<<Len(events) + 1, e>>}
    /\ events' = Append(events, e)

EventOf(t, action) ==
    [action |-> action, job |-> threads[t].job, actor |-> threads[t].actor]

(* find_once with the dedupe fields job_id, action and actor_id.           *)
OwnUploadLogged(t) == EventOf(t, "desktop_upload") \in Logged

-----------------------------------------------------------------------------
(* Creating a job.                                                         *)

Submit(t, kind, r, a) ==
    /\ At(t, "idle")
    /\ threads' = [threads EXCEPT ![t] =
                     [pc |-> "create", kind |-> kind, req |-> r, actor |-> a, job |-> None]]
    /\ UNCHANGED <<vars, log, registered, working>>

IsDesktop(t) == threads[t].kind = "desktop"

(* The desktop path may join a job that is not published yet, and does not *)
(* compare conversion parameters.                                          *)
LookupFor(t) == Lookup(threads[t].req, IsDesktop(t), ~IsDesktop(t))

(* A fresh uuid: nobody holds or logged this id.                           *)
FreshId(j) ==
    /\ \A t \in Threads : threads[t].job # j
    /\ \A e \in Logged : e.job # j

(* get_or_create_job with a free key.                                      *)
CreateFresh(t, j) ==
    LET r == threads[t].req
        direct == ~IsDesktop(t) /\ r.src = None   \* enqueue and publish at once
    IN  /\ At(t, "create")
        /\ FreshId(j)
        /\ CreateJob(j, r, direct, direct)
        /\ GotoWith(t, CASE direct -> "accepted"
                         [] IsDesktop(t) /\ r.src = None -> "discard"
                         [] OTHER -> "audit", j)
        /\ UNCHANGED <<log, registered, working>>

(* Bug: the handler converts a job it did not create.                      *)
CreateExistingConverting(t) ==
    /\ At(t, "create")
    /\ LookupFor(t) = "existing"
    /\ GotoWith(t, IF IsDesktop(t) THEN "find" ELSE "convert", index[threads[t].req.key])
    /\ UNCHANGED <<vars, log, registered, working>>
(* get_or_create_job with a key that is bound to the same parameters.      *)
CreateExisting(t) ==
    LET r == threads[t].req
        j == index[r.key]
    IN  /\ At(t, "create")
        /\ LookupFor(t) = "existing"
        /\ GotoWith(t, CASE ~IsDesktop(t) -> "accepted"
                         [] IsDesktop(t) /\ r.src = None -> "rejected"
                         [] IsDesktop(t) /\ r.src # None -> "find", j)
        /\ UNCHANGED <<vars, log, registered, working>>

(* The key is taken, or another high-quality job is active.                *)
CreateRefused(t) ==
    /\ At(t, "create")
    /\ \/ LookupFor(t) \in {"creation pending", "bound to different parameters"}
       \/ /\ LookupFor(t) = "free"
          /\ threads[t].req.mode = "high_quality"
          /\ HasActiveHighQualityJob
    /\ Goto(t, "rejected")
    /\ UNCHANGED <<vars, log, registered, working>>

(* record_once_and_publish: upload event and job row in one transaction.   *)
RecordOnceAndPublish(t) ==
    /\ At(t, "audit")
    /\ PublishJob(threads[t].job, TRUE)
    /\ Record(EventOf(t, IF IsDesktop(t) THEN "desktop_upload" ELSE "browser_upload"))
    /\ Goto(t, IF IsDesktop(t) THEN "accepted" ELSE "start")
    /\ UNCHANGED <<registered, working>>

LoseSequence ==
    /\ CanAllocate
    /\ nextSeq' = nextSeq + 1
    /\ UNCHANGED <<up, jobs, index, pending, pendingSeq, unpublished, disk, crashes>>

(* Bug: the event is written through a connection of its own.              *)
PublishFailsKeepingEvent(t) ==
    /\ At(t, "audit")
    /\ LoseSequence
    /\ Record(EventOf(t, IF IsDesktop(t) THEN "desktop_upload" ELSE "browser_upload"))
    /\ Goto(t, "discard")
    /\ UNCHANGED <<registered, working>>
(* The transaction fails: the handler discards the job it created.         *)
PublishFails(t) ==
    /\ At(t, "audit")
    /\ LoseSequence
    /\ Goto(t, "discard")
    /\ UNCHANGED <<log, registered, working>>

DiscardCreated(t) ==
    /\ At(t, "discard")
    /\ DiscardQueuedJob(threads[t].job)
    /\ Goto(t, "rejected")
    /\ UNCHANGED <<log, registered, working>>

(***************************************************************************)
(* A storage error the handler does not catch (sqlite3.Error, OSError)     *)
(* ends the thread: while publishing a job at once, discarding, claiming   *)
(* or settling.  An uncaught conversion error does the same.               *)
(***************************************************************************)
ThreadDies(t) ==
    /\ \/ At(t, "create") /\ CanCreate(threads[t].req) /\ ~IsDesktop(t)
                          /\ threads[t].req.src = None /\ LoseSequence
       \/ At(t, "retry") /\ CanRetry(threads[t].job) /\ LoseSequence
       \/ /\ \E pc \in {"discard", "start", "convert", "record"} : At(t, pc)
          /\ UNCHANGED vars
    /\ Goto(t, "dead")
    /\ UNCHANGED <<log, registered, working>>

-----------------------------------------------------------------------------
(* The browser upload converts in the request thread.                      *)

Start(t) ==
    /\ At(t, "start")
    /\ StartJob(threads[t].job)
    /\ Goto(t, "convert")
    /\ UNCHANGED <<log, registered, working>>

(* Start when a worker was faster: start_job raises RuntimeError, and the  *)
(* handler fails the job if it is running, whoever is running it.          *)
StartRefused(t) ==
    /\ At(t, "start")
    /\ jobs[threads[t].job].status # "queued"
    /\ IF jobs[threads[t].job].status = "running"
       THEN MarkFailed(threads[t].job, TRUE)
       ELSE UNCHANGED vars
    /\ Goto(t, "accepted")
    /\ UNCHANGED <<log, registered, working>>

(* Bug: the result is not registered for review.                           *)
ConvertSucceedsUnregistered(t, result) ==
    /\ At(t, "convert")
    /\ MarkSucceeded(threads[t].job, result)
    /\ Goto(t, "accepted")
    /\ UNCHANGED <<log, registered, working>>
ConvertSucceeds(t, result) ==
    /\ At(t, "convert")
    /\ MarkSucceeded(threads[t].job, result)
    /\ Goto(t, "register")
    /\ UNCHANGED <<log, registered, working>>

(* Timeouts, missing dependencies and ValueErrors are final, a RuntimeError *)
(* may be retried; either way the request is answered with the job.         *)
ConvertFails(t, retryable) ==
    /\ At(t, "convert")
    /\ MarkFailed(threads[t].job, retryable)
    /\ Goto(t, "accepted")
    /\ UNCHANGED <<log, registered, working>>

RegisterResult(t) ==
    /\ At(t, "register")
    /\ registered' = registered \cup {threads[t].job}
    /\ Goto(t, "accepted")
    /\ UNCHANGED <<vars, log, working>>

-----------------------------------------------------------------------------
(* A desktop upload that found the job of another request.                 *)

Find(t) ==
    /\ At(t, "find")
    /\ Goto(t, IF OwnUploadLogged(t) THEN "found" ELSE "findAny")
    /\ UNCHANGED <<vars, log, registered, working>>

FindAny(t) ==
    /\ At(t, "findAny")
    /\ Goto(t, IF \E e \in Logged : e.action = "desktop_upload" /\ e.job = threads[t].job
               THEN "rejected" ELSE "checkUnpublished")
    /\ UNCHANGED <<vars, log, registered, working>>

CheckUnpublished(t) ==
    /\ At(t, "checkUnpublished")
    /\ Goto(t, IF threads[t].job \in unpublished THEN "wait" ELSE "rejected")
    /\ UNCHANGED <<vars, log, registered, working>>

(* wait_until_published: woken when the job is published or discarded, or  *)
(* out of patience after five seconds.                                     *)
Wait(t) ==
    /\ At(t, "wait")
    /\ \/ ~Known(threads[t].job) /\ Goto(t, "rejected")
       \/ Published(threads[t].job) /\ Goto(t, "refind")
    /\ UNCHANGED <<vars, log, registered, working>>

(* Bug: the wait has no deadline.                                          *)
WaitForever(t) == FALSE /\ Goto(t, "rejected") /\ UNCHANGED <<vars, log, registered, working>>
WaitTimesOut(t) ==
    /\ At(t, "wait")
    /\ threads[t].job \in unpublished
    /\ Goto(t, "rejected")
    /\ UNCHANGED <<vars, log, registered, working>>

Refind(t) ==
    /\ At(t, "refind")
    /\ Goto(t, IF OwnUploadLogged(t) THEN "found" ELSE "rejected")
    /\ UNCHANGED <<vars, log, registered, working>>

Found(t) ==
    /\ At(t, "found")
    /\ IF threads[t].job \in unpublished
       THEN PublishJob(threads[t].job, TRUE)
       ELSE UNCHANGED vars
    /\ Goto(t, "accepted")
    /\ UNCHANGED <<log, registered, working>>

-----------------------------------------------------------------------------
(* Job events: opening a job, and retrying a failed one by hand.           *)

SubmitEvent(t, kind, j, a) ==
    /\ At(t, "idle")
    /\ Published(j)
    /\ kind = "retry" => jobs[j].attempts < MaxTries
    /\ threads' = [threads EXCEPT ![t] =
                     [pc |-> "getJob", kind |-> kind, req |-> None, actor |-> a, job |-> j]]
    /\ UNCHANGED <<vars, log, registered, working>>

(* _job_actions, with _retry_blocked_by_active_high_quality, which sees    *)
(* published jobs only.                                                    *)
RetryOffered(j) ==
    /\ jobs[j].status = "failed"
    /\ jobs[j].retryable
    /\ IsHighQuality(jobs[j]) =>
            \A k \in JobIds \ {j} : Published(k) => ~ActiveHighQuality(jobs[k])

(* get_job, then _validate_job_event against the actions it offers.        *)
GetJob(t) ==
    /\ At(t, "getJob")
    /\ Goto(t, CASE threads[t].kind = "open" -> "record"
                 [] threads[t].kind = "retry" ->
                        IF RetryOffered(threads[t].job) THEN "retry" ELSE "rejected")
    /\ UNCHANGED <<vars, log, registered, working>>

(* record: every event but a retry.                                        *)
RecordEvent(t) ==
    /\ At(t, "record")
    /\ Record(EventOf(t, "open_detail"))
    /\ Goto(t, "accepted")
    /\ UNCHANGED <<vars, registered, working>>

(* Bug: the second retry of a job by the same actor is not logged.         *)
RecordAndRetryOnce(t) ==
    /\ At(t, "retry")
    /\ RetryFailedJob(threads[t].job)
    /\ IF EventOf(t, "retry_conversion") \in Logged
       THEN UNCHANGED log
       ELSE Record(EventOf(t, "retry_conversion"))
    /\ Goto(t, "accepted")
    /\ UNCHANGED <<registered, working>>
(* record_and_retry: requeued row and event in one transaction.            *)
RecordAndRetry(t) ==
    /\ At(t, "retry")
    /\ RetryFailedJob(threads[t].job)
    /\ Record(EventOf(t, "retry_conversion"))
    /\ Goto(t, "accepted")
    /\ UNCHANGED <<registered, working>>

(* The job moved on, or another high-quality job became active.            *)
RetryRefused(t) ==
    LET rec == jobs[threads[t].job] IN
    /\ At(t, "retry")
    /\ \/ rec.status # "failed"
       \/ ~rec.retryable
       \/ IsHighQuality(rec) /\ HasActiveHighQualityJob
    /\ Goto(t, "rejected")
    /\ UNCHANGED <<vars, log, registered, working>>

-----------------------------------------------------------------------------
(***************************************************************************)
(* A worker that drains the queue.  The repository has none yet ("a later  *)
(* asynchronous worker"); this is the protocol of start_next_job,          *)
(* mark_succeeded and mark_failed.                                         *)
(***************************************************************************)
Idle(w) == up /\ working[w] = None
Works(w) == up /\ working[w] # None

WorkerClaims(w) ==
    /\ Idle(w)
    /\ StartNextJob
    /\ working' = [working EXCEPT ![w] = pending[NextClaimable]]
    /\ UNCHANGED <<threads, log, registered>>

WorkerSettles(w) ==
    /\ Works(w)
    /\ \/ \E result \in SUBSET Contents : MarkSucceeded(working[w], result)
       \/ \E retryable \in BOOLEAN : MarkFailed(working[w], retryable)
    /\ working' = [working EXCEPT ![w] = None]
    /\ UNCHANGED <<threads, log, registered>>

(* _require_running_job raises: somebody else settled the job.             *)
WorkerLosesJob(w) ==
    /\ Works(w)
    /\ jobs[working[w]].status # "running"
    /\ working' = [working EXCEPT ![w] = None]
    /\ UNCHANGED <<vars, threads, log, registered>>

-----------------------------------------------------------------------------
(* The process.                                                            *)

ServiceCrash ==
    /\ UNCHANGED db   \* only rows of published jobs exist, and those are not discarded
    /\ Crash
    /\ threads' = [t \in Threads |->
                     IF threads[t].pc \in Finished \cup {"idle"}
                     THEN threads[t] ELSE [threads[t] EXCEPT !.pc = "dead"]]
    /\ working' = [w \in Workers |-> None]
    /\ UNCHANGED <<log, registered>>

(* run: restore queue and log, register every stored result for review.    *)
ServiceRestart ==
    /\ Restart
    /\ events' = [n \in 1..Cardinality(eventRows) |->
                    (CHOOSE row \in eventRows : row[1] = n)[2]]
    /\ registered' = {j \in JobIds : jobs'[j].status = "succeeded"}
    /\ UNCHANGED <<threads, eventRows, working>>

ServiceRestartInterrupted ==
    RestartInterrupted /\ UNCHANGED serviceVars

ServiceInit ==
    /\ Init
    /\ threads = [t \in Threads |-> IdleThread]
    /\ events = <<>>
    /\ eventRows = {}
    /\ registered = {}
    /\ working = [w \in Workers |-> None]

ThreadStep(t) ==
    \/ \E j \in JobIds : CreateFresh(t, j)
    \/ CreateExisting(t)
    \/ CreateRefused(t)
    \/ RecordOnceAndPublish(t)
    \/ PublishFails(t)
    \/ DiscardCreated(t)
    \/ ThreadDies(t)
    \/ Start(t)
    \/ StartRefused(t)
    \/ \E result \in SUBSET Contents : ConvertSucceeds(t, result)
    \/ \E retryable \in BOOLEAN : ConvertFails(t, retryable)
    \/ RegisterResult(t)
    \/ Find(t)
    \/ FindAny(t)
    \/ CheckUnpublished(t)
    \/ Wait(t)
    \/ WaitTimesOut(t)
    \/ Refind(t)
    \/ Found(t)
    \/ GetJob(t)
    \/ RecordEvent(t)
    \/ RecordAndRetry(t)
    \/ RetryRefused(t)

ServiceNext ==
    \/ \E t \in Threads, kind \in {"web", "desktop"}, r \in Requests, a \in Actors :
        Submit(t, kind, r, a)
    \/ \E t \in Threads, kind \in {"retry", "open"}, j \in JobIds, a \in Actors :
        SubmitEvent(t, kind, j, a)
    \/ \E t \in Threads : ThreadStep(t)
    \/ \E w \in Workers : WorkerClaims(w) \/ WorkerSettles(w) \/ WorkerLosesJob(w)
    \/ ServiceCrash
    \/ ServiceRestart
    \/ ServiceRestartInterrupted

(***************************************************************************)
(* The operating system runs every request thread that can run.  Nothing   *)
(* is assumed about clients, crashes or restarts.                          *)
(***************************************************************************)
ServiceSpec ==
    /\ ServiceInit
    /\ [][ServiceNext]_allVars
    /\ \A t \in Threads : WF_allVars(ThreadStep(t))
-----------------------------------------------------------------------------
(* Correctness.                                                            *)

(* Every variable of the service keeps its shape.                          *)
ServiceTypeOK ==
    /\ TypeOK
    /\ threads \in [Threads -> Thread]
    /\ events \in Seq(Event)
    /\ \A row \in eventRows : row[1] \in Nat \ {0} /\ row[2] \in Event
    /\ registered \in SUBSET JobIds
    /\ working \in [Workers -> JobIds \cup {None}]

(***************************************************************************)
(* The audit table numbers its events 1, 2, 3... without a gap and, while  *)
(* the server runs, holds exactly the log in memory, whichever of record,  *)
(* record_once_and_publish and record_and_retry wrote each of them: the    *)
(* next INSERT never meets a used primary key and a restart finds the      *)
(* chain of _restore_state unbroken.                                       *)
(***************************************************************************)
AuditMirror ==
    /\ {row[1] : row \in eventRows} = 1..Cardinality(eventRows)
    /\ up => eventRows = {<<n, events[n]>> : n \in 1..Len(events)}

(***************************************************************************)
(* A job with a source is in the table if and only if exactly one upload   *)
(* event for it is in the audit table, at every moment and across crashes  *)
(* and failed transactions: record_once_and_publish never stores a job     *)
(* nobody is on record for, nor an event for a job that does not exist.    *)
(***************************************************************************)
UploadRows(j) == {row \in eventRows : row[2].action \in UploadActions /\ row[2].job = j}
UploadAudited ==
    \A j \in JobIds :
        /\ Cardinality(UploadRows(j)) <= 1
        /\ UploadRows(j) # {} => Stored(j)
        /\ Stored(j) /\ db[j].job.req.src # None => UploadRows(j) # {}

(***************************************************************************)
(* Every manual retry is on record and every record is a retry: a job with *)
(* max_attempts=1 (no automatic retries) was requeued once for each        *)
(* retry_conversion event in the audit table, so its attempts are that     *)
(* number, plus one once it has failed again.                              *)
(***************************************************************************)
RetryRows(j) == {row \in eventRows : row[2].action = "retry_conversion" /\ row[2].job = j}
RetryAudited ==
    MaxAttempts = 1 =>
        \A j \in JobIds :
            db[j].job.attempts =
                Cardinality(RetryRows(j)) + (IF db[j].job.status = "failed" THEN 1 ELSE 0)

(***************************************************************************)
(* One request thread at most creates, publishes, converts and registers a *)
(* job, and a job that is running is being converted by it or by a worker, *)
(* unless its thread died of a storage error: only such a job stays        *)
(* running until the next restart.  In the same way "job creation pending" *)
(* is temporary: a job is unpublished only while the thread that created   *)
(* it is still going to publish or discard it, or died in that.            *)
(***************************************************************************)
Owns(t, j) == threads[t].job = j /\ threads[t].pc \in
                {"audit", "discard", "start", "convert", "register"}
DiedOwning(t, j) == threads[t].job = j /\ threads[t].pc = "dead"
SingleOwner ==
    up => \A j \in JobIds :
            /\ \A t, u \in Threads : Owns(t, j) /\ Owns(u, j) => t = u
            /\ jobs[j].status = "running" =>
                    \/ \E t \in Threads :
                            DiedOwning(t, j) \/ (Owns(t, j) /\ threads[t].pc = "convert")
                    \/ \E w \in Workers : working[w] = j
            /\ j \in unpublished => \E t \in Threads :
                    DiedOwning(t, j) \/ (Owns(t, j) /\ threads[t].pc \in {"audit", "discard"})

(***************************************************************************)
(* Every request gets an answer (or its thread dies of an error): no       *)
(* handler waits forever on a job another one creates, even when that one  *)
(* never publishes it.                                                     *)
(***************************************************************************)
EventuallyAnswered ==
    \A t \in Threads : (threads[t].pc # "idle") ~> (threads[t].pc \in Finished)

(***************************************************************************)
(* A result that was stored becomes known to the review store, although    *)
(* the two are written by separate calls with a crash possible in between: *)
(* the handler registers it, or the next start of the server does.         *)
(***************************************************************************)
SucceededRegistered ==
    \A j \in JobIds :
        (up /\ jobs[j].status = "succeeded") ~> (j \in registered \/ ~up)

(***************************************************************************)
(* A desktop upload that repeats an upload of the same actor, published    *)
(* and on record, is not refused: test_poc_web_api.py expects two          *)
(* concurrent identical uploads to be answered [202, 202].                 *)
(***************************************************************************)
DuplicateUploadAccepted ==
    \A t \in Threads :
        threads[t].kind = "desktop" /\ threads[t].pc = "rejected"
                /\ threads[t].job # None
            => ~(Published(threads[t].job) /\ OwnUploadLogged(t))
=============================================================================
