----------------------------- MODULE JobLedger -----------------------------
(***************************************************************************)
(* What the job queue promises its callers: a book of jobs, in which each  *)
(* idempotency key names one job at most, one high-quality job at most is  *)
(* active, and every job goes from queued to running to an end, with a     *)
(* bounded number of automatic retries.  Processes that die, and the way   *)
(* the book is kept in memory and on disk, do not appear here: all that is *)
(* seen of a death is that running jobs are queued again, as often tried   *)
(* as before, and that queued jobs may be withdrawn.                       *)
(***************************************************************************)
EXTENDS Integers

CONSTANTS
    JobIds,       \* names of jobs
    Keys,         \* idempotency keys
    None,         \* the key of a job that does not exist
    MaxAttempts   \* failures after which a job is not queued again by itself

VARIABLE
    life          \* job id -> what its callers see of it

NotThere == [status |-> "absent", attempts |-> 0, retryable |-> TRUE,
             key |-> None, high |-> FALSE]
Submitted(k, h) == [status |-> "queued", attempts |-> 0, retryable |-> TRUE,
                    key |-> k, high |-> h]

There(j) == life[j].status # "absent"
Active(j) == life[j].status \in {"queued", "running"}
HighQualityFree == \A j \in JobIds : life[j].high => ~Active(j)

LedgerInit == life = [j \in JobIds |-> NotThere]

Submit(j, k, h) ==
    /\ ~There(j)
    /\ \A i \in JobIds : There(i) => life[i].key # k
    /\ h => HighQualityFree
    /\ life' = [life EXCEPT ![j] = Submitted(k, h)]

Claim(j) ==
    /\ life[j].status = "queued"
    /\ life' = [life EXCEPT ![j].status = "running"]

Succeed(j) ==
    /\ life[j].status = "running"
    /\ life' = [life EXCEPT ![j].status = "succeeded"]

(* A failed run counts, and leads back to the queue while attempts remain. *)
Failed(entry, status, retryable) ==
    [status |-> status, attempts |-> entry.attempts + 1, retryable |-> retryable,
     key |-> entry.key, high |-> entry.high]

FailAndRequeue(j) ==
    /\ life[j].status = "running"
    /\ life[j].attempts + 1 < MaxAttempts
    /\ life' = [life EXCEPT ![j] = Failed(@, "queued", @.retryable)]

FailForGood(j, retryable) ==
    /\ life[j].status = "running"
    /\ retryable => life[j].attempts + 1 >= MaxAttempts
    /\ life' = [life EXCEPT ![j] = Failed(@, "failed", retryable)]

Retry(j) ==
    /\ life[j].status = "failed"
    /\ life[j].retryable
    /\ life[j].high => HighQualityFree
    /\ life' = [life EXCEPT ![j].status = "queued"]

Requeue(interrupted) ==
    /\ \A j \in interrupted : life[j].status = "running"
    /\ life' = [j \in JobIds |-> IF j \in interrupted
                                 THEN [life[j] EXCEPT !.status = "queued"] ELSE life[j]]

Withdraw(dropped) ==
    /\ \A j \in dropped : life[j].status = "queued"
    /\ life' = [j \in JobIds |-> IF j \in dropped THEN NotThere ELSE life[j]]

LedgerNext ==
    \/ \E j \in JobIds, k \in Keys, h \in BOOLEAN : Submit(j, k, h)
    \/ \E j \in JobIds : Claim(j) \/ Succeed(j) \/ FailAndRequeue(j) \/ Retry(j)
    \/ \E j \in JobIds, retryable \in BOOLEAN : FailForGood(j, retryable)
    \/ \E S \in SUBSET JobIds : Requeue(S) \/ Withdraw(S)

LedgerSpec == LedgerInit /\ [][LedgerNext]_life
============================================================================
