----------------------------- MODULE JobProofs ------------------------------
(***************************************************************************)
(* Theorems about JobQueue and JobService for every set of jobs, requests, *)
(* contents, actors, request threads and workers, and every value of the   *)
(* bounds.  First the queue on its own: memory and table agree, a crash    *)
(* keeps what callers saw, and the queue implements the job ledger.  Then  *)
(* the service: its threads and workers drive the queue by the queue's own *)
(* operations, and the audit log agrees with it.                           *)
(***************************************************************************)
EXTENDS JobService, FiniteSetTheorems, SequenceTheorems, WellFoundedInduction, TLAPS

-----------------------------------------------------------------------------
(* Sequences: what deque.remove and popleft leave behind.                  *)

(* A nonempty set of naturals has a least element, and Min finds it.       *)
LEMMA MinOfNaturals ==
    ASSUME NEW S \in SUBSET Nat, S # {}
    PROVE  Min(S) \in S /\ \A x \in S : Min(S) <= x
<1>1. \E m \in S : \A x \in S : ~(<<x, m>> \in OpToRel(<, Nat))
  BY NatLessThanWellFounded, WFMin
<1>2. PICK m \in S : \A x \in S : ~(<<x, m>> \in OpToRel(<, Nat))
  BY <1>1
<1>3. \A x \in S : m <= x
  <2> TAKE x \in S
  <2>1. x \in Nat /\ m \in Nat
    OBVIOUS
  <2>2. ~(x < m)
    BY <1>2, <2>1 DEF OpToRel
  <2> QED BY <2>1, <2>2
<1> QED BY <1>3 DEF Min

(* Dropping position i of a sequence shifts the later elements down.       *)
LEMMA RemoveAtProperties ==
    ASSUME NEW S, NEW s \in Seq(S), NEW i \in 1..Len(s)
    PROVE  /\ RemoveAt(s, i) \in Seq(S)
           /\ Len(RemoveAt(s, i)) = Len(s) - 1
           /\ \A n \in 1..(Len(s) - 1) :
                RemoveAt(s, i)[n] = IF n < i THEN s[n] ELSE s[n + 1]
<1> DEFINE a == SubSeq(s, 1, i - 1)
           b == SubSeq(s, i + 1, Len(s))
<1>1. a \in Seq(S) /\ Len(a) = i - 1 /\ \A n \in 1..(i - 1) : a[n] = s[n]
  BY SubSeqProperties
<1>2. b \in Seq(S) /\ Len(b) = Len(s) - i /\ \A n \in 1..(Len(s) - i) : b[n] = s[n + i]
  BY SubSeqProperties
<1> HIDE DEF a, b
<1>3. a \o b \in Seq(S) /\ Len(a \o b) = Len(s) - 1
  <2>1. a \o b \in Seq(S) /\ Len(a \o b) = Len(a) + Len(b)
    BY <1>1, <1>2, ConcatProperties
  <2> QED BY <1>1, <1>2, <2>1
<1>4. ASSUME NEW n \in 1..(Len(s) - 1)
      PROVE  (a \o b)[n] = IF n < i THEN s[n] ELSE s[n + 1]
  BY <1>1, <1>2
<1>5. RemoveAt(s, i) = a \o b
  BY DEF RemoveAt, a, b
<1> QED BY <1>3, <1>4, <1>5

(***************************************************************************)
(* deque.remove: the result is a sequence over the same set; from a deque  *)
(* without duplicates it takes exactly the one element away and leaves no  *)
(* duplicates.                                                             *)
(***************************************************************************)
LEMMA RemoveFirstProperties ==
    ASSUME NEW S, NEW s \in Seq(S), NEW e
    PROVE  /\ RemoveFirst(s, e) \in Seq(S)
           /\ IsInjective(s) => /\ IsInjective(RemoveFirst(s, e))
                                /\ ToSet(RemoveFirst(s, e)) = ToSet(s) \ {e}
<1>1. CASE \E i \in 1..Len(s) : s[i] = e
  <2> DEFINE I == {n \in 1..Len(s) : s[n] = e}
             i == Min(I)
             t == RemoveAt(s, i)
  <2>1. I \in SUBSET Nat /\ I # {}
    BY <1>1
  <2>2. i \in I
    BY <2>1, MinOfNaturals
  <2>3. RemoveFirst(s, e) = t
    BY <1>1, <2>1 DEF RemoveFirst, SelectInSeq
  <2> HIDE DEF i
  <2>4. i \in 1..Len(s) /\ s[i] = e
    BY <2>2
  <2>5. /\ t \in Seq(S)
        /\ Len(t) = Len(s) - 1
        /\ \A n \in 1..(Len(s) - 1) : t[n] = IF n < i THEN s[n] ELSE s[n + 1]
    BY <2>4, RemoveAtProperties
  <2> HIDE DEF t
  <2>6. ASSUME IsInjective(s)
        PROVE  IsInjective(t) /\ ToSet(t) = ToSet(s) \ {e}
    <3>1. DOMAIN s = 1..Len(s) /\ DOMAIN t = 1..(Len(s) - 1) /\ Len(s) \in Nat
      BY <2>5
    <3> DEFINE old(n) == IF n < i THEN n ELSE n + 1
    <3>o. ASSUME NEW n \in 1..(Len(s) - 1)
          PROVE  old(n) \in 1..Len(s) /\ old(n) # i /\ t[n] = s[old(n)]
      BY <2>4, <2>5, <3>1
    <3>d. ASSUME NEW m \in 1..(Len(s) - 1), NEW n \in 1..(Len(s) - 1), old(m) = old(n)
          PROVE  m = n
      BY <2>4, <3>1, <3>d
    <3> HIDE DEF old
    <3>i. \A m, n \in 1..Len(s) : s[m] = s[n] => m = n
      BY <2>6, <3>1 DEF IsInjective
    <3>2. IsInjective(t)
      <4> SUFFICES ASSUME NEW m \in 1..(Len(s) - 1), NEW n \in 1..(Len(s) - 1), t[m] = t[n]
                   PROVE  m = n
        BY <3>1 DEF IsInjective
      <4>1. s[old(m)] = s[old(n)]
        BY <3>o
      <4>2. old(m) = old(n)
        BY <3>o, <3>i, <4>1
      <4> QED BY <3>d, <4>2
    <3>3. ASSUME NEW x \in ToSet(t)
          PROVE  x \in ToSet(s) /\ x # e
      <4>1. PICK n \in 1..(Len(s) - 1) : x = t[n]
        BY <3>1 DEF ToSet
      <4>2. x = s[old(n)] /\ old(n) \in 1..Len(s) /\ old(n) # i
        BY <3>o, <4>1
      <4>3. x \in ToSet(s)
        BY <3>1, <4>2 DEF ToSet
      <4>4. x # e
        BY <2>4, <3>i, <4>2
      <4> QED BY <4>3, <4>4
    <3>4. ASSUME NEW x \in ToSet(s), x # e
          PROVE  x \in ToSet(t)
      <4>1. PICK n \in 1..Len(s) : s[n] = x
        BY <3>1 DEF ToSet
      <4>2. n # i
        BY <4>1, <3>4, <2>4
      <4>3. CASE n < i
        BY <4>1, <4>3, <2>4, <2>5, <3>1 DEF ToSet
      <4>4. CASE n > i
        <5>1. n - 1 \in 1..(Len(s) - 1) /\ t[n - 1] = x
          BY <4>1, <4>4, <2>4, <2>5, <3>1
        <5> QED BY <5>1, <3>1 DEF ToSet
      <4> QED BY <4>2, <4>3, <4>4, <2>4
    <3> QED BY <3>2, <3>3, <3>4
  <2> QED BY <2>3, <2>5, <2>6
<1>2. CASE ~ \E i \in 1..Len(s) : s[i] = e
  <2>1. RemoveFirst(s, e) = s
    BY <1>2 DEF RemoveFirst
  <2>2. ToSet(s) = ToSet(s) \ {e}
    BY <1>2 DEF ToSet
  <2> QED BY <2>1, <2>2
<1> QED BY <1>1, <1>2
-----------------------------------------------------------------------------
(* Type correctness.                                                       *)

(* The byte strings of a record are contents.                              *)
LEMMA ArtifactsAreContents ==
    ASSUME NEW rec \in JobRecord
    PROVE  Artifacts(rec) \subseteq Contents
<1>1. rec.result \subseteq Contents /\ rec.req \in Requests \cup {None}
  BY DEF JobRecord
<1>2. rec.req # None /\ rec.req.src # None => rec.req.src \in Contents
  BY <1>1, RequestsAssumption
<1> QED BY <1>1, <1>2 DEF Artifacts

(* A record stays a record under the changes the queue makes to one.       *)
LEMMA RecordChanges ==
    ASSUME NEW rec \in JobRecord
    PROVE  /\ NoJob \in JobRecord
           /\ \A r \in Requests : NewJob(r) \in JobRecord
           /\ \A st \in Statuses : [rec EXCEPT !.status = st] \in JobRecord
  BY DEF JobRecord, NoJob, NewJob, Statuses, TerminalStatuses

(* _persist writes a row and saves contents.                               *)
LEMMA PersistType ==
    ASSUME TypeOK, NEW j \in JobIds, NEW rec \in JobRecord,
           NEW seq \in Int \cup {None}, Persist(j, rec, seq)
    PROVE  db' \in [JobIds -> Row] /\ files' \in SUBSET Contents
<1>1. PICK top \in Maximal({db[k].rowid : k \in JobIds}) :
        db' = [db EXCEPT ![j] =
                 [job |-> rec, seq |-> seq,
                  rowid |-> IF Stored(j) THEN db[j].rowid ELSE top + 1]]
  BY DEF Persist
<1>2. db \in [JobIds -> Row]
  BY DEF TypeOK
<1>3. top \in Nat /\ db[j].rowid \in Nat
  BY <1>2 DEF Maximal, Row
<1>4. db' \in [JobIds -> Row]
  BY <1>1, <1>2, <1>3 DEF Row
<1>5. files' \subseteq files \cup Artifacts(rec)
  BY DEF Persist
<1> QED BY <1>4, <1>5, ArtifactsAreContents DEF TypeOK

(* Appending to and leaving the deque keep its type.                       *)
LEMMA PendingType ==
    ASSUME TypeOK, NEW j \in JobIds
    PROVE  /\ AppendPending(j) => /\ pending' \in Seq(JobIds)
                                  /\ pendingSeq' \in [JobIds -> Int \cup {None}]
                                  /\ nextSeq' \in Int
           /\ LeavePending(j) => /\ pending' \in Seq(JobIds)
                                 /\ pendingSeq' \in [JobIds -> Int \cup {None}]
<1>1. pending \in Seq(JobIds) /\ nextSeq \in Int
      /\ pendingSeq \in [JobIds -> Int \cup {None}]
  BY DEF TypeOK
<1>2. RemoveFirst(pending, j) \in Seq(JobIds)
  BY <1>1, RemoveFirstProperties
<1>3. Append(pending, j) \in Seq(JobIds)
  BY <1>1, AppendProperties
<1>4. ASSUME AppendPending(j)
      PROVE  /\ pending' \in Seq(JobIds)
             /\ pendingSeq' \in [JobIds -> Int \cup {None}]
             /\ nextSeq' \in Int
  BY <1>1, <1>3, <1>4 DEF AppendPending
<1>5. ASSUME LeavePending(j)
      PROVE  /\ pending' \in Seq(JobIds)
             /\ pendingSeq' \in [JobIds -> Int \cup {None}]
  BY <1>1, <1>2, <1>5 DEF LeavePending
<1> QED BY <1>4, <1>5
(* The job start_next_job claims is a queued one of the deque.             *)
LEMMA NextClaimableProperties ==
    ASSUME TypeOK, NextClaimable # 0
    PROVE  /\ NextClaimable \in 1..Len(pending)
           /\ pending[NextClaimable] \in JobIds
           /\ jobs[pending[NextClaimable]].status = "queued"
<1> DEFINE I == {i \in 1..Len(pending) : jobs[pending[i]].status = "queued"}
<1>1. pending \in Seq(JobIds)
  BY DEF TypeOK
<1>2. NextClaimable = IF I # {} THEN Min(I) ELSE 0
  BY DEF NextClaimable, SelectInSeq
<1>3. I \in SUBSET Nat /\ I # {}
  BY <1>2
<1>4. NextClaimable \in I
  BY <1>2, <1>3, MinOfNaturals
<1> QED BY <1>1, <1>4

(* What _restore_jobs computes: sequences, rows and a sorted deque.        *)
LEMMA RecoveryType ==
    ASSUME TypeOK, NEW first \in FirstPendingSeq, NEW done \in SUBSET RunningRows
    PROVE  /\ first \in Int
           /\ RecoveredTable(done, first) \in [JobIds -> Row]
           /\ \A j \in done : RecoveredTable(done, first)[j].seq \in Int
<1>1. db \in [JobIds -> Row]
  BY DEF TypeOK
<1>2. first \in Int
  BY <1>1 DEF FirstPendingSeq, Minimal, PendingRows, Row
<1>3. ASSUME NEW j \in RunningRows
      PROVE  RecoveredRow(j, first) \in Row /\ RecoveredRow(j, first).seq \in Int
  <2> DEFINE position == Cardinality({k \in RunningRows : db[k].rowid < db[j].rowid})
             fallback == first - Cardinality(RunningRows)
  <2>1. IsFiniteSet(RunningRows)
    BY ConstantsAssumption, FS_Subset DEF RunningRows
  <2>2. Cardinality(RunningRows) \in Nat /\ position \in Nat
    BY <2>1, FS_Subset, FS_CardinalityType
  <2>3. fallback + position \in Int
    BY <1>2, <2>2
  <2> HIDE DEF position, fallback
  <2>4. j \in JobIds /\ db[j] \in Row /\ db[j].job \in JobRecord
    BY <1>1 DEF RunningRows, Row
  <2>5. Requeued(db[j].job) \in JobRecord
    BY <2>4, RecordChanges DEF Requeued, Statuses
  <2>6. RecoveredRow(j, first) =
          [job |-> Requeued(db[j].job),
           seq |-> IF db[j].seq = None THEN fallback + position ELSE db[j].seq,
           rowid |-> db[j].rowid]
    BY DEF RecoveredRow, position, fallback
  <2> QED BY <2>3, <2>4, <2>5, <2>6 DEF Row
<1> QED BY <1>1, <1>2, <1>3 DEF RecoveredTable, RunningRows

LEMMA SortedType ==
    ASSUME NEW S \in SUBSET JobIds, NEW table, NEW p \in SortedBySequence(S, table)
    PROVE  p \in Seq(JobIds)
<1>1. Cardinality(S) \in Nat
  BY ConstantsAssumption, FS_Subset, FS_CardinalityType
<1>2. p \in [1..Cardinality(S) -> JobIds]
  BY DEF SortedBySequence
<1> QED BY <1>1, <1>2
(***************************************************************************)
(* Type correctness of the queue: every operation, storage failure, crash  *)
(* and (interrupted) restart keeps each variable in its type; in           *)
(* particular every sequence a restart computes is an integer and every    *)
(* row names a known status.                                               *)
(***************************************************************************)
LEMMA TypeStep == TypeOK /\ [Next]_vars => TypeOK'
<1> SUFFICES ASSUME TypeOK, [Next]_vars PROVE TypeOK'
  OBVIOUS
<1>0. /\ jobs \in [JobIds -> JobRecord] /\ db \in [JobIds -> Row]
      /\ index \in [Keys -> JobIds \cup {None}]
      /\ pending \in Seq(JobIds) /\ nextSeq \in Int
      /\ pendingSeq \in [JobIds -> Int \cup {None}]
      /\ unpublished \in SUBSET JobIds /\ files \in SUBSET Contents
      /\ up \in BOOLEAN /\ crashes \in Nat
  BY DEF TypeOK
<1>00. /\ \A j \in JobIds : jobs[j] \in JobRecord /\ db[j].job \in JobRecord
       /\ NoJob \in JobRecord /\ NoRow \in Row
       /\ \A r \in Requests : NewJob(r) \in JobRecord
       /\ nextSeq \in Int \cup {None}
       /\ \A j \in JobIds : pendingSeq[j] \in Int \cup {None}
       /\ \A r \in Requests : r.key \in Keys
  <2>1. \A j \in JobIds : jobs[j] \in JobRecord /\ db[j].job \in JobRecord
    BY <1>0 DEF Row
  <2>2. NoJob \in JobRecord /\ \A r \in Requests : NewJob(r) \in JobRecord
    BY DEF JobRecord, NoJob, NewJob, Statuses, TerminalStatuses
  <2>3. NoRow \in Row
    BY <2>2 DEF Row, NoRow
  <2> QED BY <1>0, <2>1, <2>2, <2>3 DEF Keys
<1>1. ASSUME NEW j \in JobIds, NEW r \in Requests, NEW enqueue \in BOOLEAN,
             NEW publish \in BOOLEAN, CreateJob(j, r, enqueue, publish)
      PROVE  TypeOK'
  <2>1. jobs' \in [JobIds -> JobRecord] /\ index' \in [Keys -> JobIds \cup {None}]
    BY <1>0, <1>00, <1>1 DEF CreateJob
  <2>2. db' \in [JobIds -> Row] /\ files' \in SUBSET Contents
    <3>1. CASE publish
      <4>1. Persist(j, NewJob(r), IF enqueue THEN nextSeq ELSE None)
        BY <1>1, <3>1 DEF CreateJob
      <4> QED BY <4>1, <1>00, PersistType
    <3>2. CASE ~publish
      BY <1>0, <1>1, <3>2 DEF CreateJob, disk
    <3> QED BY <3>1, <3>2
  <2>3. /\ pending' \in Seq(JobIds) /\ nextSeq' \in Int
        /\ pendingSeq' \in [JobIds -> Int \cup {None}]
    BY <1>0, <1>1, PendingType DEF CreateJob
  <2>4. unpublished' \in SUBSET JobIds
    BY <1>0, <1>1 DEF CreateJob
  <2> QED BY <1>0, <1>1, <2>1, <2>2, <2>3, <2>4 DEF TypeOK, CreateJob
<1>2. ASSUME NEW j \in JobIds, NEW enqueue \in BOOLEAN, PublishJob(j, enqueue)
      PROVE  TypeOK'
  <2>1. db' \in [JobIds -> Row] /\ files' \in SUBSET Contents
    <3>1. Persist(j, jobs[j], nextSeq) \/ Persist(j, jobs[j], pendingSeq[j])
      BY <1>2 DEF PublishJob
    <3> QED BY <3>1, <1>00, PersistType
  <2>2. /\ pending' \in Seq(JobIds) /\ nextSeq' \in Int
        /\ pendingSeq' \in [JobIds -> Int \cup {None}]
    BY <1>0, <1>2, PendingType DEF PublishJob
  <2> QED BY <1>0, <1>2, <2>1, <2>2 DEF TypeOK, PublishJob
<1>3. ASSUME NEW j \in JobIds, EnqueueJob(j)
      PROVE  TypeOK'
  BY <1>2, <1>3 DEF EnqueueJob
<1>4. ASSUME NEW j \in JobIds, DiscardQueuedJob(j)
      PROVE  TypeOK'
  <2>1. jobs[j].req \in Requests \cup {None}
    BY <1>00 DEF JobRecord
  <2>2. index' \in [Keys -> JobIds \cup {None}]
    BY <1>0, <1>4 DEF DiscardQueuedJob
  <2>3. jobs' \in [JobIds -> JobRecord] /\ db' \in [JobIds -> Row]
    BY <1>0, <1>00, <1>4 DEF DiscardQueuedJob, DeleteRow
  <2>4. files' \in SUBSET Contents
    BY <1>0, <1>4 DEF DiscardQueuedJob, CleanupFiles
  <2>5. /\ pending' \in Seq(JobIds)
        /\ pendingSeq' \in [JobIds -> Int \cup {None}]
    BY <1>4, PendingType DEF DiscardQueuedJob
  <2> QED BY <1>0, <1>4, <2>2, <2>3, <2>4, <2>5 DEF TypeOK, DiscardQueuedJob
<1>5. ASSUME NEW j \in JobIds, DiscardUnlinkFails(j)
      PROVE  TypeOK'
  BY <1>0, <1>00, <1>5 DEF TypeOK, DiscardUnlinkFails, DeleteRow, memory
<1>6. ASSUME StartNextJob
      PROVE  TypeOK'
  <2> DEFINE i == NextClaimable
             j == pending[i]
             rec == [jobs[j] EXCEPT !.status = "running"]
  <2>1. i \in 1..Len(pending) /\ j \in JobIds
    BY <1>6, NextClaimableProperties DEF StartNextJob
  <2>2. rec \in JobRecord
    BY <2>1, <1>00, RecordChanges DEF Statuses
  <2>3. Persist(j, rec, pendingSeq[j]) /\ jobs' = [jobs EXCEPT ![j] = rec]
    BY <1>6 DEF StartNextJob, Replace
  <2>4. /\ pending' = SubSeq(pending, i + 1, Len(pending))
        /\ \A k \in JobIds : pendingSeq'[k] \in {None, pendingSeq[k]}
        /\ pendingSeq' \in [JobIds -> Int \cup {None}]
        /\ UNCHANGED <<up, index, nextSeq, unpublished, crashes>>
    BY <1>0, <1>6 DEF StartNextJob
  <2> HIDE DEF i, rec
  <2>5. db' \in [JobIds -> Row] /\ files' \in SUBSET Contents
    BY <2>1, <2>2, <2>3, <1>00, PersistType
  <2>6. pending' \in Seq(JobIds)
    BY <1>0, <2>1, <2>4, SubSeqProperties
  <2>7. jobs' \in [JobIds -> JobRecord]
    BY <1>0, <2>1, <2>2, <2>3
  <2> QED BY <1>0, <2>4, <2>5, <2>6, <2>7 DEF TypeOK
<1>7. ASSUME NEW j \in JobIds, StartJob(j)
      PROVE  TypeOK'
  <2> DEFINE rec == [jobs[j] EXCEPT !.status = "running"]
  <2>1. rec \in JobRecord
    BY <1>00, RecordChanges DEF Statuses
  <2>2. Persist(j, rec, pendingSeq[j]) /\ jobs' = [jobs EXCEPT ![j] = rec]
    BY <1>7 DEF StartJob, Replace
  <2> HIDE DEF rec
  <2>3. db' \in [JobIds -> Row] /\ files' \in SUBSET Contents
    BY <2>1, <2>2, <1>00, PersistType
  <2>4. /\ pending' \in Seq(JobIds)
        /\ pendingSeq' \in [JobIds -> Int \cup {None}]
    BY <1>7, PendingType DEF StartJob
  <2>5. jobs' \in [JobIds -> JobRecord]
    BY <1>0, <2>1, <2>2
  <2> QED BY <1>0, <1>7, <2>3, <2>4, <2>5 DEF TypeOK, StartJob
<1>8. ASSUME NEW j \in JobIds, NEW result \in SUBSET Contents, MarkSucceeded(j, result)
      PROVE  TypeOK'
  <2> DEFINE rec == [jobs[j] EXCEPT !.status = "succeeded", !.result = result,
                                    !.error = FALSE]
  <2>1. rec \in JobRecord
    BY <1>00 DEF JobRecord, Statuses, TerminalStatuses
  <2>2. Persist(j, rec, None) /\ jobs' = [jobs EXCEPT ![j] = rec]
    BY <1>8 DEF MarkSucceeded, Replace
  <2> HIDE DEF rec
  <2>3. db' \in [JobIds -> Row] /\ files' \in SUBSET Contents
    BY <2>1, <2>2, PersistType
  <2>4. jobs' \in [JobIds -> JobRecord]
    BY <1>0, <2>1, <2>2
  <2> QED BY <1>0, <1>8, <2>3, <2>4 DEF TypeOK, MarkSucceeded
<1>9. ASSUME NEW j \in JobIds, NEW retryable \in BOOLEAN, MarkFailed(j, retryable)
      PROVE  TypeOK'
  <2> DEFINE failed == [jobs[j] EXCEPT !.attempts = @ + 1, !.error = TRUE]
             again == [failed EXCEPT !.status = "queued"]
             final == [failed EXCEPT !.status = "failed", !.retryable = retryable]
  <2>1. failed \in JobRecord
    <3>1. jobs[j].attempts + 1 \in Nat
      BY <1>00 DEF JobRecord
    <3> QED BY <1>00, <3>1 DEF JobRecord
  <2>2. again \in JobRecord /\ final \in JobRecord
    <3> HIDE DEF failed
    <3> QED BY <2>1 DEF JobRecord, Statuses, TerminalStatuses
  <2>3. \/ Persist(j, again, nextSeq) /\ jobs' = [jobs EXCEPT ![j] = again]
        \/ Persist(j, final, None) /\ jobs' = [jobs EXCEPT ![j] = final]
    BY <1>9 DEF MarkFailed, Replace
  <2>4. /\ pending' \in Seq(JobIds) /\ nextSeq' \in Int
        /\ pendingSeq' \in [JobIds -> Int \cup {None}]
    BY <1>0, <1>9, PendingType DEF MarkFailed
  <2>5. UNCHANGED <<up, index, unpublished, crashes>>
    BY <1>9 DEF MarkFailed
  <2> HIDE DEF again, final
  <2>6. db' \in [JobIds -> Row] /\ files' \in SUBSET Contents
    BY <2>2, <2>3, <1>00, PersistType
  <2>7. jobs' \in [JobIds -> JobRecord]
    BY <1>0, <2>2, <2>3
  <2> QED BY <1>0, <2>4, <2>5, <2>6, <2>7 DEF TypeOK
<1>10. ASSUME NEW j \in JobIds, RetryFailedJob(j)
       PROVE  TypeOK'
  <2> DEFINE rec == [jobs[j] EXCEPT !.status = "queued", !.error = FALSE]
  <2>1. rec \in JobRecord
    BY <1>00 DEF JobRecord, Statuses
  <2>2. Persist(j, rec, nextSeq) /\ jobs' = [jobs EXCEPT ![j] = rec]
    BY <1>10 DEF RetryFailedJob, Replace
  <2> HIDE DEF rec
  <2>3. db' \in [JobIds -> Row] /\ files' \in SUBSET Contents
    BY <2>1, <2>2, <1>00, PersistType
  <2>4. jobs' \in [JobIds -> JobRecord]
    BY <1>0, <2>1, <2>2
  <2>5. /\ pending' \in Seq(JobIds) /\ nextSeq' \in Int
        /\ pendingSeq' \in [JobIds -> Int \cup {None}]
    BY <1>10, PendingType DEF RetryFailedJob
  <2> QED BY <1>0, <1>10, <2>3, <2>4, <2>5 DEF TypeOK, RetryFailedJob
<1>11. ASSUME PersistFails
       PROVE  TypeOK'
  BY <1>0, <1>11 DEF TypeOK, PersistFails, disk
<1>12. ASSUME Crash
       PROVE  TypeOK'
  <2>1. db' \in [JobIds -> Row] /\ files' \in SUBSET Contents
    BY <1>0, <1>00, <1>12 DEF Crash, DeleteRow
  <2>2. up' = FALSE /\ crashes' \in Nat
    BY <1>0, <1>12 DEF Crash
  <2>3. UNCHANGED <<jobs, index, pending, pendingSeq, nextSeq, unpublished>>
    BY <1>12 DEF Crash, memory
  <2> QED BY <1>0, <2>1, <2>2, <2>3 DEF TypeOK
<1>13. ASSUME Restart
       PROVE  TypeOK'
  <2> DEFINE queue == RunningRows \cup PendingRows
  <2>0. PICK first \in FirstPendingSeq : db' = RecoveredTable(RunningRows, first)
    BY <1>13 DEF Restart
  <2>1. db' \in [JobIds -> Row] /\ \A j \in RunningRows : db'[j].seq \in Int
    BY <2>0, RecoveryType
  <2>2. \A j \in queue : j \in JobIds /\ db'[j].seq \in Int
    <3>1. \A j \in PendingRows \ RunningRows : db'[j] = db[j]
      BY <2>0 DEF RecoveredTable, PendingRows
    <3> QED BY <2>1, <3>1, <1>0 DEF RunningRows, PendingRows, Row
  <2>3. /\ up' = TRUE /\ unpublished' = {} /\ UNCHANGED <<files, crashes>>
        /\ jobs' = [j \in JobIds |-> db'[j].job]
        /\ index' \in [Keys -> JobIds \cup {None}]
        /\ pending' \in SortedBySequence(queue, db')
        /\ pendingSeq' = [j \in JobIds |-> IF j \in queue THEN db'[j].seq ELSE None]
        /\ \E top \in IF queue = {} THEN {0 - 1} ELSE Maximal({db'[j].seq : j \in queue}) :
             nextSeq' = top + 1
    BY <1>13 DEF Restart
  <2> HIDE DEF queue
  <2>4. jobs' \in [JobIds -> JobRecord]
    BY <2>1, <2>3 DEF Row
  <2>5. pending' \in Seq(JobIds)
    BY <2>2, <2>3, SortedType
  <2>6. pendingSeq' \in [JobIds -> Int \cup {None}]
    BY <2>2, <2>3
  <2>7. nextSeq' \in Int
    BY <2>2, <2>3 DEF Maximal
  <2> QED BY <1>0, <2>1, <2>3, <2>4, <2>5, <2>6, <2>7 DEF TypeOK
<1>14. ASSUME RestartInterrupted
       PROVE  TypeOK'
  <2>1. db' \in [JobIds -> Row]
    BY <1>14, RecoveryType DEF RestartInterrupted
  <2> QED BY <1>0, <1>14, <2>1 DEF TypeOK, RestartInterrupted, memory
<1>15. CASE UNCHANGED vars
  BY <1>0, <1>15 DEF TypeOK, vars, memory, disk
<1> QED BY <1>1, <1>2, <1>3, <1>4, <1>5, <1>6, <1>7, <1>8, <1>9, <1>10, <1>11,
           <1>12, <1>13, <1>14, <1>15 DEF Next

(* Every state of every run is well typed.                                 *)
THEOREM TypeCorrect == Spec => []TypeOK
<1>1. Init => TypeOK
  BY DEF Init, TypeOK, NoJob, NoRow, JobRecord, Row
<1> QED BY <1>1, TypeStep, PTL DEF Spec
-----------------------------------------------------------------------------
(* Artifact files.                                                         *)

(* _persist never leaves a row that names a missing file.                  *)
LEMMA PersistKeepsReferences ==
    ASSUME TypeOK, NoDanglingArtifacts, NEW j \in JobIds, NEW rec, NEW seq,
           Persist(j, rec, seq)
    PROVE  NoDanglingArtifacts'
<1>1. db \in [JobIds -> Row]
  BY DEF TypeOK
<1>2. \A k \in JobIds : db'[k].job = IF k = j THEN rec ELSE db[k].job
  BY <1>1 DEF Persist
<1>3. Referenced(db') \subseteq Referenced(db) \cup Artifacts(rec)
  BY <1>2 DEF Referenced
<1>4. files' = (files \cup Artifacts(rec))
                 \ ((Artifacts(db[j].job) \ Artifacts(rec)) \ Referenced(db'))
  BY DEF Persist
<1>5. Referenced(db)' = Referenced(db')
  BY DEF Referenced
<1> QED BY <1>3, <1>4, <1>5 DEF NoDanglingArtifacts

(* Deleting a row only drops references.                                   *)
LEMMA DeleteRowReferences ==
    ASSUME TypeOK, NEW j \in JobIds, DeleteRow(j)
    PROVE  Referenced(db') \subseteq Referenced(db)
<1>1. \A k \in JobIds : db'[k].job = IF k = j THEN NoJob ELSE db[k].job
  BY DEF TypeOK, DeleteRow, NoRow
<1>2. Artifacts(NoJob) = {}
  BY DEF Artifacts, NoJob
<1> QED BY <1>1, <1>2 DEF Referenced

(* Requeueing a running row keeps what it references.                      *)
LEMMA RecoveryReferences ==
    ASSUME TypeOK, NEW first, NEW done \in SUBSET RunningRows,
           db' = RecoveredTable(done, first)
    PROVE  Referenced(db') = Referenced(db)
<1>1. ASSUME NEW k \in JobIds
      PROVE  Artifacts(db'[k].job) = Artifacts(db[k].job)
  <2>1. db[k].job \in JobRecord
    BY DEF TypeOK, Row
  <2>2. Artifacts(Requeued(db[k].job)) = Artifacts(db[k].job)
    BY <2>1 DEF Artifacts, Requeued, JobRecord
  <2>3. db'[k].job \in {db[k].job, Requeued(db[k].job)}
    BY DEF RecoveredTable, RecoveredRow
  <2> QED BY <2>2, <2>3
<1> QED BY <1>1 DEF Referenced

(***************************************************************************)
(* No operation, failure or crash ever leaves a row naming a file that is  *)
(* gone, so the restart's reads of the artifact store cannot fail.         *)
(***************************************************************************)
THEOREM ArtifactsSafe == Spec => []NoDanglingArtifacts
<1>1. Init => NoDanglingArtifacts
  BY DEF Init, NoDanglingArtifacts, Referenced, Artifacts, NoRow, NoJob
<1>2. TypeOK /\ NoDanglingArtifacts /\ [Next]_vars => NoDanglingArtifacts'
  <2> SUFFICES ASSUME TypeOK, NoDanglingArtifacts, [Next]_vars
               PROVE  NoDanglingArtifacts'
    OBVIOUS
  <2>0. Referenced(db)' = Referenced(db')
    BY DEF Referenced
  <2>1. ASSUME NEW j \in JobIds, NEW r \in Requests, NEW enqueue \in BOOLEAN,
               NEW publish \in BOOLEAN, CreateJob(j, r, enqueue, publish)
        PROVE  NoDanglingArtifacts'
    <3>1. CASE publish
      <4>1. Persist(j, NewJob(r), IF enqueue THEN nextSeq ELSE None)
        BY <2>1, <3>1 DEF CreateJob
      <4> QED BY <4>1, PersistKeepsReferences
    <3>2. CASE ~publish
      BY <2>0, <2>1, <3>2 DEF CreateJob, disk, NoDanglingArtifacts
    <3> QED BY <3>1, <3>2
  <2>2. ASSUME NEW j \in JobIds, NEW enqueue \in BOOLEAN, PublishJob(j, enqueue)
        PROVE  NoDanglingArtifacts'
    BY <2>2, PersistKeepsReferences DEF PublishJob
  <2>3. ASSUME NEW j \in JobIds, DeleteRow(j), CleanupFiles(j) \/ UNCHANGED files
        PROVE  NoDanglingArtifacts'
    BY <2>0, <2>3, DeleteRowReferences DEF CleanupFiles, NoDanglingArtifacts
  <2>4. ASSUME StartNextJob
        PROVE  NoDanglingArtifacts'
    <3>1. PICK j \in JobIds : \E rec, seq : Persist(j, rec, seq)
      BY <2>4, NextClaimableProperties DEF StartNextJob, Replace
    <3> QED BY <3>1, PersistKeepsReferences
  <2>5. ASSUME NEW j \in JobIds, StartJob(j)
        PROVE  NoDanglingArtifacts'
    BY <2>5, PersistKeepsReferences DEF StartJob, Replace
  <2>6. ASSUME NEW j \in JobIds, NEW result, MarkSucceeded(j, result)
        PROVE  NoDanglingArtifacts'
    BY <2>6, PersistKeepsReferences DEF MarkSucceeded, Replace
  <2>7. ASSUME NEW j \in JobIds, NEW retryable, MarkFailed(j, retryable)
        PROVE  NoDanglingArtifacts'
    <3>1. \E rec, seq : Persist(j, rec, seq)
      BY <2>7 DEF MarkFailed, Replace
    <3> QED BY <3>1, PersistKeepsReferences
  <2>8. ASSUME NEW j \in JobIds, RetryFailedJob(j)
        PROVE  NoDanglingArtifacts'
    BY <2>8, PersistKeepsReferences DEF RetryFailedJob, Replace
  <2>9. ASSUME Crash
        PROVE  NoDanglingArtifacts'
    <3>1. CASE UNCHANGED db /\ \E saved \in SUBSET Contents : files' = files \cup saved
      BY <2>0, <3>1 DEF NoDanglingArtifacts
    <3>2. CASE \E j \in JobIds : DeleteRow(j) /\ UNCHANGED files
      BY <2>3, <3>2
    <3> QED BY <2>9, <3>1, <3>2 DEF Crash
  <2>10. ASSUME Restart \/ RestartInterrupted
         PROVE  NoDanglingArtifacts'
    <3>1. UNCHANGED files
      BY <2>10 DEF Restart, RestartInterrupted
    <3>2. \E done \in SUBSET RunningRows : \E first : db' = RecoveredTable(done, first)
      <4>1. CASE Restart
        BY <4>1 DEF Restart
      <4>2. CASE RestartInterrupted
        <5>1. PICK last \in RunningRows, first \in FirstPendingSeq :
                db' = RecoveredTable({j \in RunningRows : db[j].rowid <= db[last].rowid}, first)
          BY <4>2 DEF RestartInterrupted
        <5> QED BY <5>1
      <4> QED BY <2>10, <4>1, <4>2
    <3> QED BY <2>0, <3>1, <3>2, RecoveryReferences DEF NoDanglingArtifacts
  <2>11. CASE UNCHANGED disk
    BY <2>0, <2>11 DEF disk, NoDanglingArtifacts
  <2> QED BY <2>1, <2>2, <2>3, <2>4, <2>5, <2>6, <2>7, <2>8, <2>9, <2>10, <2>11
          DEF Next, EnqueueJob, DiscardQueuedJob, DiscardUnlinkFails, PersistFails,
              vars
<1> QED BY <1>1, <1>2, TypeCorrect, PTL DEF Spec
-----------------------------------------------------------------------------
(* The inductive invariant of memory and table.                            *)

(* A row holds a job, no row is no trace; only active jobs keep a sequence. *)
RowMeaningful(j) ==
    /\ IF Stored(j) THEN db[j].job.status # "absent" ELSE db[j] = NoRow
    /\ db[j].job.status \notin {"queued", "running"} => db[j].seq = None

(* A job that is not published yet is still queued.                        *)
UnpublishedAreQueued ==
    up => \A j \in JobIds : j \in unpublished => jobs[j].status = "queued"

QueueInv ==
    /\ TypeOK
    /\ \A j \in JobIds : RowMeaningful(j)
    /\ UnpublishedAreQueued
    /\ DurableMirror
    /\ PendingExact
    /\ AtMostOneActiveHighQuality

(***************************************************************************)
(* The part of the invariant that speaks about a single job while the      *)
(* server is up.  An action disturbs it for the job it works on; for every *)
(* other job it is framed.                                                 *)
(***************************************************************************)
JobConsistent(k) ==
    /\ RowMeaningful(k)
    /\ k \in unpublished => jobs[k].status = "queued"
    /\ Stored(k) => Published(k) /\ db[k].job = jobs[k]
    /\ Published(k) /\ ~Stored(k) => UnlinkMayFail /\ jobs[k].status = "queued"
    /\ IsPending(k) <=> pendingSeq[k] # None
    /\ IsPending(k) => Published(k) /\ jobs[k].status = "queued"
    /\ Stored(k) /\ jobs[k].status = "queued" => db[k].seq = pendingSeq[k]

OneActiveInMemory ==
    \A j, k \in JobIds :
        ActiveHighQuality(jobs[j]) /\ ActiveHighQuality(jobs[k]) => j = k

(* While the server is up the invariant is one statement per job ...       *)
LEMMA ConsistentWhileUp ==
    ASSUME QueueInv, up
    PROVE  /\ IsInjective(pending)
           /\ \A k \in JobIds : JobConsistent(k)
           /\ OneActiveInMemory
  BY DEF QueueInv, UnpublishedAreQueued, DurableMirror, PendingExact,
         JobConsistent, AtMostOneActiveHighQuality, OneActiveInMemory

(* ... and those statements give the invariant back after a step.          *)
LEMMA InvFromConsistency ==
    ASSUME TypeOK', IsInjective(pending)', \A k \in JobIds : JobConsistent(k)',
           OneActiveInMemory'
    PROVE  QueueInv'
<1>1. /\ \A j \in JobIds : RowMeaningful(j)'
      /\ UnpublishedAreQueued' /\ DurableMirror'
  BY DEF UnpublishedAreQueued, DurableMirror, JobConsistent
<1>2. ASSUME NEW j \in JobIds, jobs'[j].status \in TerminalStatuses
      PROVE  db'[j].seq = None
  <2>1. JobConsistent(j)' /\ RowMeaningful(j)'
    BY DEF JobConsistent
  <2>2. CASE Stored(j)'
    BY <1>2, <2>1, <2>2 DEF JobConsistent, RowMeaningful, TerminalStatuses
  <2>3. CASE ~Stored(j)'
    BY <2>1, <2>3 DEF RowMeaningful, NoRow
  <2> QED BY <2>2, <2>3
<1>3. PendingExact'
  BY <1>2 DEF PendingExact, JobConsistent
<1>4. ASSUME NEW j \in JobIds, ActiveHighQuality(db'[j].job)
      PROVE  ActiveHighQuality(jobs'[j])
  <2>1. JobConsistent(j)' /\ RowMeaningful(j)'
    BY DEF JobConsistent
  <2>2. Stored(j)'
    BY <1>4, <2>1 DEF RowMeaningful, NoRow, NoJob, ActiveHighQuality, IsHighQuality
  <2> QED BY <1>4, <2>1, <2>2 DEF JobConsistent
<1>5. AtMostOneActiveHighQuality'
  BY <1>4 DEF AtMostOneActiveHighQuality, OneActiveInMemory
<1> QED BY <1>1, <1>3, <1>5 DEF QueueInv

(* A job the step does not touch stays consistent.                         *)
LEMMA Frame ==
    ASSUME NEW k \in JobIds, JobConsistent(k),
           jobs'[k] = jobs[k], db'[k] = db[k],
           k \in unpublished' <=> k \in unpublished,
           IsPending(k)' <=> IsPending(k),
           pendingSeq'[k] = pendingSeq[k]
    PROVE  JobConsistent(k)'
  BY DEF JobConsistent, RowMeaningful, Published, Known, Stored

(* _persist changes the row of one job and gives it a rowid.               *)
LEMMA PersistEffect ==
    ASSUME TypeOK, NEW j \in JobIds, NEW rec, NEW seq, Persist(j, rec, seq)
    PROVE  /\ Stored(j)'
           /\ db'[j].job = rec /\ db'[j].seq = seq
           /\ \A k \in JobIds \ {j} : db'[k] = db[k]
<1>1. PICK top \in Maximal({db[k].rowid : k \in JobIds}) :
        db' = [db EXCEPT ![j] =
                 [job |-> rec, seq |-> seq,
                  rowid |-> IF Stored(j) THEN db[j].rowid ELSE top + 1]]
  BY DEF Persist
<1>2. db \in [JobIds -> Row]
  BY DEF TypeOK
<1>3. top \in Nat
  BY <1>2 DEF Maximal, Row
<1>4. (IF Stored(j) THEN db[j].rowid ELSE top + 1) # 0
  BY <1>3 DEF Stored
<1> QED BY <1>1, <1>2, <1>4 DEF Stored

(* Entering and leaving the deque change it for one job.                   *)
LEMMA PendingEffect ==
    ASSUME TypeOK, IsInjective(pending), NEW j \in JobIds
    PROVE  /\ AppendPending(j) /\ ~IsPending(j) =>
                /\ IsInjective(pending)'
                /\ IsPending(j)' /\ pendingSeq'[j] = nextSeq
                /\ \A k \in JobIds \ {j} : /\ IsPending(k)' <=> IsPending(k)
                                           /\ pendingSeq'[k] = pendingSeq[k]
           /\ LeavePending(j) =>
                /\ IsInjective(pending)'
                /\ ~IsPending(j)' /\ pendingSeq'[j] = None
                /\ \A k \in JobIds \ {j} : /\ IsPending(k)' <=> IsPending(k)
                                           /\ pendingSeq'[k] = pendingSeq[k]
<1>1. pending \in Seq(JobIds) /\ pendingSeq \in [JobIds -> Int \cup {None}]
  BY DEF TypeOK
<1>2. ASSUME AppendPending(j), ~IsPending(j)
      PROVE  /\ IsInjective(pending')
             /\ ToSet(pending') = ToSet(pending) \cup {j}
  <2>1. pending' = Append(pending, j)
    BY <1>2 DEF AppendPending
  <2>2. /\ DOMAIN pending = 1..Len(pending) /\ Len(pending) \in Nat
        /\ DOMAIN pending' = 1..(Len(pending) + 1)
        /\ \A n \in 1..Len(pending) : pending'[n] = pending[n]
        /\ pending'[Len(pending) + 1] = j
    BY <1>1, <2>1
  <2>3. \A n \in 1..Len(pending) : pending[n] # j
    BY <1>2, <2>2 DEF IsPending, ToSet
  <2>4. IsInjective(pending')
    BY <2>2, <2>3 DEF IsInjective
  <2>5. ToSet(pending') = ToSet(pending) \cup {j}
    <3>1. \A x \in ToSet(pending') : x \in ToSet(pending) \cup {j}
      BY <2>2 DEF ToSet
    <3>2. \A x \in ToSet(pending) \cup {j} : x \in ToSet(pending')
      BY <2>2 DEF ToSet
    <3> QED BY <3>1, <3>2
  <2> QED BY <2>4, <2>5
<1>3. ASSUME LeavePending(j)
      PROVE  /\ IsInjective(pending')
             /\ ToSet(pending') = ToSet(pending) \ {j}
  BY <1>1, <1>3, RemoveFirstProperties DEF LeavePending
<1>4. AppendPending(j) => /\ pendingSeq'[j] = nextSeq
                          /\ \A k \in JobIds \ {j} : pendingSeq'[k] = pendingSeq[k]
  BY <1>1 DEF AppendPending
<1>5. LeavePending(j) => /\ pendingSeq'[j] = None
                         /\ \A k \in JobIds \ {j} : pendingSeq'[k] = pendingSeq[k]
  BY <1>1 DEF LeavePending
<1>6. /\ IsInjective(pending)' <=> IsInjective(pending')
      /\ \A k \in JobIds : IsPending(k)' <=> k \in ToSet(pending')
  BY DEF IsPending, IsInjective, ToSet
<1> QED BY <1>2, <1>3, <1>4, <1>5, <1>6 DEF IsPending
(* Changing one job keeps the high-quality jobs exclusive.                 *)
LEMMA OneActiveKept ==
    ASSUME TypeOK, OneActiveInMemory, NEW j \in JobIds, NEW rec,
           jobs' = [jobs EXCEPT ![j] = rec],
           ActiveHighQuality(rec) => \/ ActiveHighQuality(jobs[j])
                                     \/ ~HasActiveHighQualityJob
    PROVE  OneActiveInMemory'
<1>1. \A k \in JobIds : jobs'[k] = IF k = j THEN rec ELSE jobs[k]
  BY DEF TypeOK
<1>2. OneActiveInMemory' <=>
        \A a, b \in JobIds :
            ActiveHighQuality(jobs'[a]) /\ ActiveHighQuality(jobs'[b]) => a = b
  BY DEF OneActiveInMemory, ActiveHighQuality, IsHighQuality
<1> QED BY <1>1, <1>2 DEF OneActiveInMemory, HasActiveHighQualityJob

(* The deque a restart builds holds each requeued or pending job once.     *)
LEMMA SortedEffect ==
    ASSUME NEW S \in SUBSET JobIds, NEW table \in [JobIds -> Row],
           \A j \in S : table[j].seq \in Int,
           NEW p \in SortedBySequence(S, table)
    PROVE  IsInjective(p) /\ ToSet(p) = S
<1> DEFINE n == Cardinality(S)
<1>1. IsFiniteSet(S) /\ n \in Nat
  BY ConstantsAssumption, FS_Subset, FS_CardinalityType
<1>2. IsFiniteSet(1..n) /\ Cardinality(1..n) = n
  BY <1>1, FS_Interval
<1>3. /\ p \in [1..n -> S]
      /\ \A a, b \in 1..n : a < b => Before(table, p[a], p[b])
  BY DEF SortedBySequence
<1> HIDE DEF n
<1>4. ASSUME NEW a \in 1..n, NEW b \in 1..n, p[a] = p[b]
      PROVE  a = b
  <2>1. ~Before(table, p[a], p[a])
    <3>1. p[a] \in S
      BY <1>3
    <3>2. table[p[a]].seq \in Int /\ table[p[a]].rowid \in Nat
      BY <3>1 DEF Row
    <3> QED BY <3>2 DEF Before
  <2>2. ~(a < b) /\ ~(b < a)
    BY <1>3, <1>4, <2>1
  <2> QED BY <1>1, <2>2
<1>5. IsInjective(p)
  BY <1>3, <1>4 DEF IsInjective
<1>6. p \in Injection(1..n, S)
  BY <1>3, <1>5 DEF Injection
<1>7. p \in Surjection(1..n, S)
  BY <1>1, <1>2, <1>6, FS_Injection DEF n
<1>8. ToSet(p) = S
  BY <1>3, <1>7 DEF ToSet, Surjection
<1> QED BY <1>5, <1>8

(* A job with a sequence is told from one without.                         *)
LEMMA SequencesAreNotNone == ASSUME TypeOK PROVE nextSeq # None
  BY ConstantsAssumption DEF TypeOK

-----------------------------------------------------------------------------
(* Every step keeps the invariant: first the steps of a running server.    *)

LEMMA CreateStep ==
    ASSUME QueueInv, TypeOK', NEW j \in JobIds, NEW r \in Requests,
           NEW enqueue \in BOOLEAN, NEW publish \in BOOLEAN,
           CreateJob(j, r, enqueue, publish)
    PROVE  QueueInv'
<1>0. TypeOK /\ up
  BY DEF QueueInv, CreateJob, CanCreate
<1>1. /\ IsInjective(pending) /\ \A k \in JobIds : JobConsistent(k)
      /\ OneActiveInMemory /\ nextSeq # None
  BY <1>0, ConsistentWhileUp, SequencesAreNotNone
<1>2. /\ jobs[j].status = "absent" /\ ~Stored(j) /\ ~IsPending(j)
      /\ pendingSeq[j] = None /\ j \notin unpublished
  BY <1>1 DEF CreateJob, JobConsistent, Known, Published
<1>3. jobs' = [jobs EXCEPT ![j] = NewJob(r)] /\ jobs \in [JobIds -> JobRecord]
  BY <1>0 DEF CreateJob, TypeOK
<1>4. NewJob(r).status = "queued" /\ NewJob(r).req = r
  BY DEF NewJob, NoJob
<1>5. OneActiveInMemory'
  <2>1. ActiveHighQuality(NewJob(r)) => ~HasActiveHighQualityJob
    BY <1>4 DEF CreateJob, CanCreate, ActiveHighQuality, IsHighQuality
  <2> QED BY <1>0, <1>1, <1>3, <2>1, OneActiveKept
<1>6. CASE publish
  <2>1. Persist(j, NewJob(r), IF enqueue THEN nextSeq ELSE None)
    BY <1>6 DEF CreateJob
  <2>2. /\ Stored(j)' /\ db'[j].job = NewJob(r)
        /\ db'[j].seq = IF enqueue THEN nextSeq ELSE None
        /\ \A k \in JobIds \ {j} : db'[k] = db[k]
    BY <1>0, <2>1, PersistEffect
  <2>3. /\ IsInjective(pending)'
        /\ IsPending(j)' <=> enqueue
        /\ pendingSeq'[j] = IF enqueue THEN nextSeq ELSE None
        /\ \A k \in JobIds \ {j} : /\ IsPending(k)' <=> IsPending(k)
                                   /\ pendingSeq'[k] = pendingSeq[k]
    <3>1. CASE enqueue
      <4>1. AppendPending(j)
        BY <1>6, <3>1 DEF CreateJob
      <4> QED BY <1>0, <1>1, <1>2, <3>1, <4>1, PendingEffect
    <3>2. CASE ~enqueue
      BY <1>1, <1>2, <1>6, <3>2 DEF CreateJob, IsPending, IsInjective
    <3> QED BY <3>1, <3>2
  <2>4. unpublished' = unpublished
    BY <1>6 DEF CreateJob
  <2>5. JobConsistent(j)'
    BY <1>1, <1>2, <1>3, <1>4, <2>2, <2>3, <2>4
       DEF JobConsistent, RowMeaningful, Published, Known
  <2>6. \A k \in JobIds \ {j} : JobConsistent(k)'
    BY <1>1, <1>3, <2>2, <2>3, <2>4, Frame
  <2> QED BY <1>5, <2>3, <2>5, <2>6, InvFromConsistency
<1>7. CASE ~publish
  <2>1. /\ unpublished' = unpublished \cup {j}
        /\ UNCHANGED <<db, pending, pendingSeq>>
    BY <1>7 DEF CreateJob, disk
  <2>2. IsInjective(pending)' /\ \A k \in JobIds : IsPending(k)' <=> IsPending(k)
    BY <1>1, <2>1 DEF IsPending, IsInjective
  <2>3. JobConsistent(j)'
    BY <1>1, <1>2, <1>3, <1>4, <2>1, <2>2
       DEF JobConsistent, RowMeaningful, Published, Known, Stored
  <2>4. \A k \in JobIds \ {j} : JobConsistent(k)'
    BY <1>1, <1>3, <2>1, <2>2, Frame
  <2> QED BY <1>5, <2>2, <2>3, <2>4, InvFromConsistency
<1> QED BY <1>6, <1>7
(***************************************************************************)
(* The shape common to start, success, failure and retry: the record of a  *)
(* published job is replaced in table and memory.                          *)
(***************************************************************************)
LEMMA ReplaceStep ==
    ASSUME QueueInv, TypeOK', up, NEW j \in JobIds, NEW rec, NEW seq,
           Published(j), rec.status \in Statuses,
           Replace(j, rec, seq), unpublished' = unpublished,
           IsInjective(pending)',
           \A k \in JobIds \ {j} : /\ IsPending(k)' <=> IsPending(k)
                                   /\ pendingSeq'[k] = pendingSeq[k],
           IsPending(j)' <=> pendingSeq'[j] # None,
           IsPending(j)' => rec.status = "queued",
           rec.status = "queued" => seq = pendingSeq'[j],
           rec.status \in TerminalStatuses => seq = None,
           ActiveHighQuality(rec) => \/ ActiveHighQuality(jobs[j])
                                     \/ ~HasActiveHighQualityJob
    PROVE  QueueInv'
<1>0. TypeOK /\ Persist(j, rec, seq) /\ jobs' = [jobs EXCEPT ![j] = rec]
  BY DEF QueueInv, Replace
<1>1. (\A k \in JobIds : JobConsistent(k)) /\ OneActiveInMemory
  BY ConsistentWhileUp
<1>2. /\ Stored(j)' /\ db'[j].job = rec /\ db'[j].seq = seq
      /\ \A k \in JobIds \ {j} : db'[k] = db[k]
  BY <1>0, PersistEffect
<1>3. jobs'[j] = rec /\ \A k \in JobIds \ {j} : jobs'[k] = jobs[k]
  BY <1>0 DEF TypeOK
<1>4. JobConsistent(j)'
  <2>1. rec.status # "absent" /\ j \notin unpublished'
    BY DEF Published, Statuses, TerminalStatuses
  <2>2. RowMeaningful(j)'
    BY <1>2, <2>1 DEF RowMeaningful, Statuses, TerminalStatuses
  <2> QED BY <1>2, <1>3, <2>1, <2>2 DEF JobConsistent, Published, Known
<1>5. \A k \in JobIds \ {j} : JobConsistent(k)'
  BY <1>1, <1>2, <1>3, Frame
<1>6. OneActiveInMemory'
  BY <1>0, <1>1, OneActiveKept
<1> QED BY <1>4, <1>5, <1>6, InvFromConsistency

LEMMA StartStep ==
    ASSUME QueueInv, TypeOK', NEW j \in JobIds, StartJob(j)
    PROVE  QueueInv'
<1> DEFINE rec == [jobs[j] EXCEPT !.status = "running"]
<1>0. TypeOK /\ up /\ jobs[j] \in JobRecord
  BY DEF QueueInv, StartJob, TypeOK
<1>1. IsInjective(pending) /\ JobConsistent(j)
  BY <1>0, ConsistentWhileUp
<1>2. /\ Published(j) /\ Replace(j, rec, pendingSeq[j]) /\ LeavePending(j)
      /\ jobs[j].status = "queued" /\ unpublished' = unpublished
  BY DEF StartJob
<1>3. /\ rec.status = "running" /\ rec.req = jobs[j].req
  BY <1>0 DEF JobRecord
<1>4. /\ IsInjective(pending)' /\ ~IsPending(j)' /\ pendingSeq'[j] = None
      /\ \A k \in JobIds \ {j} : /\ IsPending(k)' <=> IsPending(k)
                                 /\ pendingSeq'[k] = pendingSeq[k]
  BY <1>0, <1>1, <1>2, PendingEffect
<1>5. ActiveHighQuality(rec) => ActiveHighQuality(jobs[j])
  BY <1>2, <1>3 DEF ActiveHighQuality, IsHighQuality, TerminalStatuses
<1>6. /\ rec.status \in Statuses /\ rec.status # "queued"
      /\ rec.status \notin TerminalStatuses
  BY <1>3 DEF Statuses, TerminalStatuses
<1> HIDE DEF rec
<1> QED BY <1>0, <1>2, <1>4, <1>5, <1>6, ReplaceStep

(* The deque holds queued jobs only, so start_next_job pops its head.      *)
LEMMA StartNextStep ==
    ASSUME QueueInv, TypeOK', StartNextJob
    PROVE  QueueInv'
<1>0. /\ TypeOK /\ up /\ pending \in Seq(JobIds)
      /\ pendingSeq \in [JobIds -> Int \cup {None}] /\ jobs \in [JobIds -> JobRecord]
  BY DEF QueueInv, StartNextJob, TypeOK
<1>1. IsInjective(pending) /\ \A k \in JobIds : JobConsistent(k)
  BY <1>0, ConsistentWhileUp
<1>2. NextClaimable = 1 /\ Len(pending) \in Nat \ {0}
  <2> DEFINE I == {n \in 1..Len(pending) : jobs[pending[n]].status = "queued"}
  <2>1. NextClaimable \in 1..Len(pending)
    BY <1>0, NextClaimableProperties DEF StartNextJob
  <2>2. \A n \in 1..Len(pending) : jobs[pending[n]].status = "queued"
    <3> TAKE n \in 1..Len(pending)
    <3>1. pending[n] \in JobIds /\ IsPending(pending[n])
      BY <1>0 DEF IsPending, ToSet
    <3> QED BY <1>1, <3>1 DEF JobConsistent
  <2>3. I = 1..Len(pending) /\ I \in SUBSET Nat /\ I # {} /\ 1 \in I
    BY <1>0, <2>1, <2>2
  <2>4. NextClaimable = Min(I)
    BY <2>3 DEF NextClaimable, SelectInSeq
  <2>5. Min(I) \in I /\ \A x \in I : Min(I) <= x
    BY <2>3, MinOfNaturals
  <2> HIDE DEF I
  <2>6. NextClaimable <= 1
    BY <2>3, <2>4, <2>5
  <2> QED BY <1>0, <2>1, <2>6
<1>3. PICK j \in JobIds : j = pending[1] /\ IsPending(j) /\ jobs[j] \in JobRecord
  BY <1>0, <1>2 DEF IsPending, ToSet
<1> DEFINE rec == [jobs[j] EXCEPT !.status = "running"]
<1>4. Published(j) /\ jobs[j].status = "queued"
  BY <1>1, <1>3 DEF JobConsistent
<1>5. /\ Replace(j, rec, pendingSeq[j]) /\ unpublished' = unpublished
      /\ pending' = SubSeq(pending, 2, Len(pending))
      /\ pendingSeq' = [k \in JobIds |->
                          IF \E n \in 1..1 : pending[n] = k THEN None ELSE pendingSeq[k]]
  BY <1>2, <1>3 DEF StartNextJob
<1>6. /\ DOMAIN pending = 1..Len(pending) /\ DOMAIN pending' = 1..(Len(pending) - 1)
      /\ \A n \in 1..(Len(pending) - 1) : pending'[n] = pending[n + 1]
  <2>1. /\ SubSeq(pending, 2, Len(pending)) \in Seq(JobIds)
        /\ Len(SubSeq(pending, 2, Len(pending))) = Len(pending) - 1
        /\ \A n \in 1..(Len(pending) - 1) :
             SubSeq(pending, 2, Len(pending))[n] = pending[n + 1]
    <3>1. Len(pending) \in Int /\ \A n \in 2..Len(pending) : pending[n] \in JobIds
      BY <1>0, <1>2
    <3>2. /\ SubSeq(pending, 2, Len(pending)) \in Seq(JobIds)
          /\ Len(SubSeq(pending, 2, Len(pending))) =
               IF 2 <= Len(pending) THEN Len(pending) - 2 + 1 ELSE 0
          /\ \A n \in 1..(Len(pending) - 2 + 1) :
               SubSeq(pending, 2, Len(pending))[n] = pending[2 + n - 1]
      BY <3>1, SubSeqProperties
    <3>3. PICK len \in Nat : len = Len(pending) /\ len # 0
      BY <1>2
    <3>4. /\ len - 2 + 1 = len - 1
          /\ (IF 2 <= len THEN len - 2 + 1 ELSE 0) = len - 1
          /\ \A n \in 1..(len - 1) : 2 + n - 1 = n + 1
      BY <3>3
    <3> QED BY <3>2, <3>3, <3>4
  <2> QED BY <1>0, <1>5, <2>1
<1>7. IsInjective(pending)'
  BY <1>1, <1>2, <1>6 DEF IsInjective
<1>8. /\ ~IsPending(j)' /\ pendingSeq'[j] = None
      /\ \A k \in JobIds \ {j} : /\ IsPending(k)' <=> IsPending(k)
                                 /\ pendingSeq'[k] = pendingSeq[k]
  <2>1. \A k \in JobIds : IsPending(k)' <=> \E n \in 1..(Len(pending) - 1) : pending'[n] = k
    BY <1>6 DEF IsPending, ToSet
  <2>2. ~IsPending(j)'
    <3>1. ASSUME NEW n \in 1..(Len(pending) - 1), pending'[n] = j
          PROVE  FALSE
      <4>1. n + 1 \in 1..Len(pending) /\ 1 \in 1..Len(pending) /\ n + 1 # 1
        BY <1>2
      <4>2. pending[n + 1] = pending[1]
        BY <1>3, <1>6, <3>1
      <4> QED BY <1>1, <1>6, <4>1, <4>2 DEF IsInjective
    <3> QED BY <2>1, <3>1
  <2>3. ASSUME NEW k \in JobIds \ {j}
        PROVE  IsPending(k)' <=> IsPending(k)
    <3>1. IsPending(k) <=> \E n \in 1..Len(pending) : pending[n] = k
      BY <1>6 DEF IsPending, ToSet
    <3>2. ASSUME NEW n \in 1..Len(pending), pending[n] = k
          PROVE  IsPending(k)'
      <4>1. n - 1 \in 1..(Len(pending) - 1) /\ pending'[n - 1] = k
        <5>1. n # 1
          BY <1>3, <3>2
        <5>2. n \in Nat /\ n - 1 \in 1..(Len(pending) - 1)
          BY <1>2, <5>1
        <5>3. pending'[n - 1] = pending[(n - 1) + 1] /\ (n - 1) + 1 = n
          BY <1>6, <5>2
        <5> QED BY <3>2, <5>2, <5>3
      <4> QED BY <4>1, <2>1
    <3>3. ASSUME NEW n \in 1..(Len(pending) - 1), pending'[n] = k
          PROVE  IsPending(k)
      <4>1. n + 1 \in 1..Len(pending) /\ pending[n + 1] = k
        BY <1>2, <1>6, <3>3
      <4> QED BY <4>1, <3>1
    <3> QED BY <2>1, <3>1, <3>2, <3>3
  <2>4. pendingSeq'[j] = None /\ \A k \in JobIds \ {j} : pendingSeq'[k] = pendingSeq[k]
    BY <1>3, <1>5
  <2> QED BY <2>2, <2>3, <2>4
<1>9. rec.status = "running" /\ rec.req = jobs[j].req
  BY <1>3 DEF JobRecord
<1>10. ActiveHighQuality(rec) => ActiveHighQuality(jobs[j])
  BY <1>4, <1>9 DEF ActiveHighQuality, IsHighQuality, TerminalStatuses
<1>11. /\ rec.status \in Statuses /\ rec.status # "queued"
       /\ rec.status \notin TerminalStatuses
  BY <1>9 DEF Statuses, TerminalStatuses
<1> HIDE DEF rec
<1> QED BY <1>0, <1>3, <1>4, <1>5, <1>7, <1>8, <1>10, <1>11, ReplaceStep
LEMMA SucceedStep ==
    ASSUME QueueInv, TypeOK', NEW j \in JobIds, NEW result, MarkSucceeded(j, result)
    PROVE  QueueInv'
<1> DEFINE rec == [jobs[j] EXCEPT !.status = "succeeded", !.result = result,
                                  !.error = FALSE]
<1>0. TypeOK /\ up /\ jobs[j] \in JobRecord /\ jobs[j].status = "running"
  BY DEF QueueInv, MarkSucceeded, RequireRunning, TypeOK
<1>1. IsInjective(pending) /\ JobConsistent(j)
  BY <1>0, ConsistentWhileUp
<1>2. /\ Replace(j, rec, None) /\ unpublished' = unpublished
      /\ UNCHANGED <<pending, pendingSeq>>
  BY DEF MarkSucceeded
<1>3. Published(j) /\ ~IsPending(j) /\ pendingSeq[j] = None
  BY <1>0, <1>1 DEF JobConsistent, Published, Known
<1>4. rec.status = "succeeded"
  BY <1>0 DEF JobRecord
<1>5. /\ IsInjective(pending)' /\ ~IsPending(j)' /\ pendingSeq'[j] = None
      /\ \A k \in JobIds \ {j} : /\ IsPending(k)' <=> IsPending(k)
                                 /\ pendingSeq'[k] = pendingSeq[k]
  BY <1>1, <1>2, <1>3 DEF IsInjective, IsPending
<1>6. /\ rec.status \in Statuses /\ rec.status # "queued" /\ ~ActiveHighQuality(rec)
  BY <1>4 DEF Statuses, TerminalStatuses, ActiveHighQuality
<1> HIDE DEF rec
<1> QED BY <1>0, <1>2, <1>3, <1>5, <1>6, ReplaceStep

LEMMA FailStep ==
    ASSUME QueueInv, TypeOK', NEW j \in JobIds, NEW retryable \in BOOLEAN,
           MarkFailed(j, retryable)
    PROVE  QueueInv'
<1> DEFINE failed == [jobs[j] EXCEPT !.attempts = @ + 1, !.error = TRUE]
           again == [failed EXCEPT !.status = "queued"]
           final == [failed EXCEPT !.status = "failed", !.retryable = retryable]
<1>0. TypeOK /\ up /\ jobs[j] \in JobRecord /\ jobs[j].status = "running"
  BY DEF QueueInv, MarkFailed, RequireRunning, TypeOK
<1>1. IsInjective(pending) /\ JobConsistent(j) /\ nextSeq # None
  BY <1>0, ConsistentWhileUp, SequencesAreNotNone
<1>2. unpublished' = unpublished
  BY DEF MarkFailed
<1>3. Published(j) /\ ~IsPending(j) /\ pendingSeq[j] = None
  BY <1>0, <1>1 DEF JobConsistent, Published, Known
<1>4. CASE WillRequeue(j, retryable)
  <2>1. Replace(j, again, nextSeq) /\ AppendPending(j)
    BY <1>4 DEF MarkFailed
  <2>2. again.status = "queued" /\ again.req = jobs[j].req
    BY <1>0 DEF JobRecord
  <2>3. /\ IsInjective(pending)' /\ IsPending(j)' /\ pendingSeq'[j] = nextSeq
        /\ \A k \in JobIds \ {j} : /\ IsPending(k)' <=> IsPending(k)
                                   /\ pendingSeq'[k] = pendingSeq[k]
    BY <1>0, <1>1, <1>3, <2>1, PendingEffect
  <2>4. /\ again.status \in Statuses /\ again.status \notin TerminalStatuses
        /\ ActiveHighQuality(again) => ActiveHighQuality(jobs[j])
    BY <1>0, <2>2 DEF Statuses, TerminalStatuses, ActiveHighQuality, IsHighQuality
  <2> HIDE DEF again
  <2> QED BY <1>0, <1>1, <1>2, <1>3, <2>1, <2>2, <2>3, <2>4, ReplaceStep
<1>5. CASE ~WillRequeue(j, retryable)
  <2>1. Replace(j, final, None) /\ UNCHANGED <<pending, pendingSeq>>
    BY <1>5 DEF MarkFailed
  <2>2. final.status = "failed"
    BY <1>0 DEF JobRecord
  <2>3. /\ IsInjective(pending)' /\ ~IsPending(j)' /\ pendingSeq'[j] = None
        /\ \A k \in JobIds \ {j} : /\ IsPending(k)' <=> IsPending(k)
                                   /\ pendingSeq'[k] = pendingSeq[k]
    BY <1>1, <1>3, <2>1 DEF IsInjective, IsPending
  <2>4. /\ final.status \in Statuses /\ final.status # "queued"
        /\ ~ActiveHighQuality(final)
    BY <2>2 DEF Statuses, TerminalStatuses, ActiveHighQuality
  <2> HIDE DEF final
  <2> QED BY <1>0, <1>2, <1>3, <2>1, <2>3, <2>4, ReplaceStep
<1> QED BY <1>4, <1>5

LEMMA RetryStep ==
    ASSUME QueueInv, TypeOK', NEW j \in JobIds, RetryFailedJob(j)
    PROVE  QueueInv'
<1> DEFINE rec == [jobs[j] EXCEPT !.status = "queued", !.error = FALSE]
<1>0. TypeOK /\ up /\ jobs[j] \in JobRecord /\ jobs[j].status = "failed"
  BY DEF QueueInv, RetryFailedJob, CanRetry, TypeOK
<1>1. IsInjective(pending) /\ JobConsistent(j) /\ nextSeq # None
  BY <1>0, ConsistentWhileUp, SequencesAreNotNone
<1>2. /\ Replace(j, rec, nextSeq) /\ AppendPending(j) /\ unpublished' = unpublished
      /\ IsHighQuality(jobs[j]) => ~HasActiveHighQualityJob
  BY DEF RetryFailedJob, CanRetry
<1>3. Published(j) /\ ~IsPending(j)
  BY <1>0, <1>1 DEF JobConsistent, Published, Known
<1>4. rec.status = "queued" /\ rec.req = jobs[j].req
  BY <1>0 DEF JobRecord
<1>5. /\ IsInjective(pending)' /\ IsPending(j)' /\ pendingSeq'[j] = nextSeq
      /\ \A k \in JobIds \ {j} : /\ IsPending(k)' <=> IsPending(k)
                                 /\ pendingSeq'[k] = pendingSeq[k]
  BY <1>0, <1>1, <1>2, <1>3, PendingEffect
<1>6. /\ rec.status \in Statuses /\ rec.status \notin TerminalStatuses
      /\ ActiveHighQuality(rec) => ~HasActiveHighQualityJob
  BY <1>2, <1>4 DEF Statuses, TerminalStatuses, ActiveHighQuality, IsHighQuality
<1> HIDE DEF rec
<1> QED BY <1>0, <1>1, <1>2, <1>3, <1>4, <1>5, <1>6, ReplaceStep

LEMMA PublishStep ==
    ASSUME QueueInv, TypeOK', NEW j \in JobIds, NEW enqueue \in BOOLEAN,
           PublishJob(j, enqueue)
    PROVE  QueueInv'
<1>0. TypeOK /\ up /\ Known(j)
  BY DEF QueueInv, PublishJob, CanPublish
<1>1. /\ IsInjective(pending) /\ \A k \in JobIds : JobConsistent(k)
      /\ OneActiveInMemory /\ nextSeq # None
  BY <1>0, ConsistentWhileUp, SequencesAreNotNone
<1>2. jobs' = jobs /\ unpublished' = unpublished \ {j}
  BY DEF PublishJob
<1>3. OneActiveInMemory'
  BY <1>1, <1>2 DEF OneActiveInMemory
<1>4. CASE enqueue /\ ~IsPending(j)
  <2>1. Persist(j, jobs[j], nextSeq) /\ AppendPending(j) /\ jobs[j].status = "queued"
    BY <1>4 DEF PublishJob, CanPublish
  <2>2. /\ Stored(j)' /\ db'[j].job = jobs[j] /\ db'[j].seq = nextSeq
        /\ \A k \in JobIds \ {j} : db'[k] = db[k]
    BY <1>0, <2>1, PersistEffect
  <2>3. /\ IsInjective(pending)' /\ IsPending(j)' /\ pendingSeq'[j] = nextSeq
        /\ \A k \in JobIds \ {j} : /\ IsPending(k)' <=> IsPending(k)
                                   /\ pendingSeq'[k] = pendingSeq[k]
    BY <1>0, <1>1, <1>4, <2>1, PendingEffect
  <2>4. JobConsistent(j)'
    BY <1>1, <1>2, <2>1, <2>2, <2>3 DEF JobConsistent, RowMeaningful, Published, Known
  <2>5. \A k \in JobIds \ {j} : JobConsistent(k)'
    BY <1>1, <1>2, <2>2, <2>3, Frame
  <2> QED BY <1>3, <2>3, <2>4, <2>5, InvFromConsistency
<1>5. CASE ~(enqueue /\ ~IsPending(j))
  <2>1. Persist(j, jobs[j], pendingSeq[j]) /\ UNCHANGED <<pending, pendingSeq>>
    BY <1>5 DEF PublishJob
  <2>2. /\ Stored(j)' /\ db'[j].job = jobs[j] /\ db'[j].seq = pendingSeq[j]
        /\ \A k \in JobIds \ {j} : db'[k] = db[k]
    BY <1>0, <2>1, PersistEffect
  <2>3. IsInjective(pending)' /\ \A k \in JobIds : IsPending(k)' <=> IsPending(k)
    BY <1>1, <2>1 DEF IsInjective, IsPending
  <2>4. JobConsistent(j)'
    <3>1. JobConsistent(j)
      BY <1>1
    <3>2. jobs[j].status # "queued" => pendingSeq[j] = None
      BY <3>1 DEF JobConsistent
    <3>3. RowMeaningful(j)'
      BY <1>0, <2>2, <3>2 DEF RowMeaningful, Known
    <3> QED BY <1>0, <1>2, <2>1, <2>2, <2>3, <3>1, <3>3 DEF JobConsistent, Published, Known
  <2>5. \A k \in JobIds \ {j} : JobConsistent(k)'
    BY <1>1, <1>2, <2>1, <2>2, <2>3, Frame
  <2> QED BY <1>3, <2>3, <2>4, <2>5, InvFromConsistency
<1> QED BY <1>4, <1>5

LEMMA DiscardStep ==
    ASSUME QueueInv, TypeOK', NEW j \in JobIds, DiscardQueuedJob(j)
    PROVE  QueueInv'
<1>0. TypeOK /\ up
  BY DEF QueueInv, DiscardQueuedJob, CanDiscard
<1>1. /\ IsInjective(pending) /\ \A k \in JobIds : JobConsistent(k)
      /\ OneActiveInMemory
  BY <1>0, ConsistentWhileUp
<1>2. /\ jobs' = [jobs EXCEPT ![j] = NoJob] /\ jobs \in [JobIds -> JobRecord]
      /\ db' = [db EXCEPT ![j] = NoRow] /\ db \in [JobIds -> Row]
      /\ unpublished' = unpublished \ {j} /\ LeavePending(j)
  BY <1>0 DEF DiscardQueuedJob, DeleteRow, TypeOK
<1>3. /\ IsInjective(pending)' /\ ~IsPending(j)' /\ pendingSeq'[j] = None
      /\ \A k \in JobIds \ {j} : /\ IsPending(k)' <=> IsPending(k)
                                 /\ pendingSeq'[k] = pendingSeq[k]
  BY <1>0, <1>1, <1>2, PendingEffect
<1>4. JobConsistent(j)'
  BY <1>2, <1>3 DEF JobConsistent, RowMeaningful, Published, Known, Stored, NoRow, NoJob
<1>5. \A k \in JobIds \ {j} : JobConsistent(k)'
  BY <1>1, <1>2, <1>3, Frame
<1>6. ~ActiveHighQuality(NoJob)
  BY DEF ActiveHighQuality, IsHighQuality, NoJob
<1>7. OneActiveInMemory'
  BY <1>0, <1>1, <1>2, <1>6, OneActiveKept
<1> QED BY <1>3, <1>4, <1>5, <1>7, InvFromConsistency

(* The row is gone, the queued job is still there.                         *)
LEMMA DiscardUnlinkFailsStep ==
    ASSUME QueueInv, TypeOK', NEW j \in JobIds, DiscardUnlinkFails(j)
    PROVE  QueueInv'
<1>0. TypeOK /\ up /\ UnlinkMayFail /\ jobs[j].status = "queued"
  BY DEF QueueInv, DiscardUnlinkFails, CanDiscard
<1>1. /\ IsInjective(pending) /\ \A k \in JobIds : JobConsistent(k)
      /\ OneActiveInMemory
  BY <1>0, ConsistentWhileUp
<1>2. /\ UNCHANGED <<jobs, pending, pendingSeq, unpublished>>
      /\ db' = [db EXCEPT ![j] = NoRow] /\ db \in [JobIds -> Row]
  BY <1>0 DEF DiscardUnlinkFails, DeleteRow, TypeOK, memory
<1>3. IsInjective(pending)' /\ \A k \in JobIds : IsPending(k)' <=> IsPending(k)
  BY <1>1, <1>2 DEF IsInjective, IsPending
<1>4. JobConsistent(j)'
  BY <1>0, <1>1, <1>2, <1>3
     DEF JobConsistent, RowMeaningful, Published, Known, Stored, NoRow, NoJob
<1>5. \A k \in JobIds \ {j} : JobConsistent(k)'
  BY <1>1, <1>2, <1>3, Frame
<1>6. OneActiveInMemory'
  BY <1>1, <1>2 DEF OneActiveInMemory
<1> QED BY <1>3, <1>4, <1>5, <1>6, InvFromConsistency
-----------------------------------------------------------------------------
(* Crash and restart.                                                      *)

(* While no server runs only the table matters.                            *)
LEMMA InvWhileDown ==
    ASSUME TypeOK', ~up', \A j \in JobIds : RowMeaningful(j)',
           AtMostOneActiveHighQuality'
    PROVE  QueueInv'
  BY DEF QueueInv, UnpublishedAreQueued, DurableMirror, PendingExact

LEMMA CrashStep ==
    ASSUME QueueInv, TypeOK', Crash
    PROVE  QueueInv'
<1>0. /\ TypeOK /\ up' = FALSE /\ jobs' = jobs /\ db \in [JobIds -> Row]
      /\ AtMostOneActiveHighQuality /\ \A k \in JobIds : RowMeaningful(k)
  BY DEF QueueInv, Crash, TypeOK, memory
<1>1. \A k \in JobIds : db'[k] \in {db[k], NoRow}
  BY <1>0 DEF Crash, DeleteRow
<1>2. \A k \in JobIds : RowMeaningful(k)'
  <2>1. NoRow.rowid = 0 /\ NoRow.seq = None
    BY DEF NoRow
  <2> QED BY <1>0, <1>1, <2>1 DEF RowMeaningful, Stored
<1>3. ~ActiveHighQuality(NoRow.job)
  BY DEF ActiveHighQuality, IsHighQuality, NoJob, NoRow
<1>4. AtMostOneActiveHighQuality'
  BY <1>0, <1>1, <1>3 DEF AtMostOneActiveHighQuality
<1> QED BY <1>0, <1>2, <1>4, InvWhileDown

(* Requeueing running rows keeps rows meaningful and their owners.         *)
LEMMA RecoveryEffect ==
    ASSUME QueueInv, NEW first, NEW done \in SUBSET RunningRows,
           db' = RecoveredTable(done, first)
    PROVE  \A k \in JobIds :
              /\ Stored(k)' <=> Stored(k)
              /\ k \in done => /\ db'[k].job = Requeued(db[k].job)
                               /\ db'[k].job.status = "queued"
              /\ k \notin done => db'[k] = db[k]
              /\ RowMeaningful(k)'
              /\ ActiveHighQuality(db'[k].job) => ActiveHighQuality(db[k].job)
<1> TAKE k \in JobIds
<1>0. db \in [JobIds -> Row] /\ RowMeaningful(k)
  BY DEF QueueInv, TypeOK
<1>1. k \notin done => db'[k] = db[k]
  BY DEF RecoveredTable
<1>2. ASSUME k \in done
      PROVE  /\ db'[k].job = Requeued(db[k].job) /\ db'[k].rowid = db[k].rowid
             /\ db'[k].job.status = "queued" /\ db'[k].job.req = db[k].job.req
             /\ db[k].job.status = "running" /\ db[k].rowid # 0
  <2>1. db'[k] = RecoveredRow(k, first)
    BY <1>2 DEF RecoveredTable
  <2>2. db'[k].job = Requeued(db[k].job) /\ db'[k].rowid = db[k].rowid
    BY <2>1 DEF RecoveredRow
  <2>3. db[k].job \in JobRecord
    BY <1>0 DEF Row
  <2>4. /\ Requeued(db[k].job).status = "queued"
        /\ Requeued(db[k].job).req = db[k].job.req
    BY <2>3 DEF Requeued, JobRecord
  <2>5. db[k].job.status = "running" /\ db[k].rowid # 0
    BY <1>2 DEF RunningRows, Stored
  <2> QED BY <2>2, <2>4, <2>5
<1>3. Stored(k)' <=> Stored(k)
  BY <1>1, <1>2 DEF Stored
<1>4. RowMeaningful(k)'
  BY <1>0, <1>1, <1>2, <1>3 DEF RowMeaningful, Stored
<1>5. ActiveHighQuality(db'[k].job) => ActiveHighQuality(db[k].job)
  BY <1>1, <1>2 DEF ActiveHighQuality, IsHighQuality, TerminalStatuses
<1> QED BY <1>1, <1>2, <1>3, <1>4, <1>5

LEMMA RestartInterruptedStep ==
    ASSUME QueueInv, TypeOK', RestartInterrupted
    PROVE  QueueInv'
<1>1. PICK last \in RunningRows, first \in FirstPendingSeq :
        db' = RecoveredTable({j \in RunningRows : db[j].rowid <= db[last].rowid}, first)
  BY DEF RestartInterrupted
<1>2. \A k \in JobIds :
        /\ RowMeaningful(k)'
        /\ ActiveHighQuality(db'[k].job) => ActiveHighQuality(db[k].job)
  BY <1>1, RecoveryEffect
<1>3. ~up' /\ jobs' = jobs
  BY DEF RestartInterrupted, memory
<1>4. AtMostOneActiveHighQuality'
  BY <1>2, <1>3 DEF QueueInv, AtMostOneActiveHighQuality
<1> QED BY <1>2, <1>3, <1>4, InvWhileDown

LEMMA RestartStep ==
    ASSUME QueueInv, TypeOK', Restart
    PROVE  QueueInv'
<1> DEFINE queue == RunningRows \cup PendingRows
<1>0. db \in [JobIds -> Row] /\ db' \in [JobIds -> Row] /\ TypeOK
      /\ \A k \in JobIds : RowMeaningful(k)
  BY DEF QueueInv, TypeOK
<1>1. PICK first \in FirstPendingSeq : db' = RecoveredTable(RunningRows, first)
  BY DEF Restart
<1>2. /\ jobs' = [j \in JobIds |-> db'[j].job] /\ unpublished' = {}
      /\ pending' \in SortedBySequence(queue, db')
      /\ pendingSeq' = [j \in JobIds |-> IF j \in queue THEN db'[j].seq ELSE None]
  BY DEF Restart
<1>3. \A k \in JobIds :
        /\ Stored(k)' <=> Stored(k)
        /\ k \in RunningRows => db'[k].job.status = "queued"
        /\ k \notin RunningRows => db'[k] = db[k]
        /\ RowMeaningful(k)'
        /\ ActiveHighQuality(db'[k].job) => ActiveHighQuality(db[k].job)
  BY <1>1, RecoveryEffect
<1>4. \A k \in queue : k \in JobIds /\ db'[k].seq \in Int
  <2>1. \A k \in RunningRows : db'[k].seq \in Int
    BY <1>0, <1>1, RecoveryType
  <2>2. \A k \in PendingRows \ RunningRows : db'[k].seq \in Int
    BY <1>0, <1>3 DEF PendingRows, Row
  <2> QED BY <2>1, <2>2 DEF RunningRows, PendingRows
<1>5. \A k \in JobIds : k \in queue => Stored(k) /\ db'[k].job.status = "queued"
  BY <1>3 DEF RunningRows, PendingRows
<1>6. ASSUME NEW k \in JobIds, k \notin queue
      PROVE  db'[k] = db[k] /\ (Stored(k) /\ db[k].job.status = "queued" => db[k].seq = None)
  BY <1>3, <1>6 DEF PendingRows
<1> HIDE DEF queue
<1>7. IsInjective(pending') /\ ToSet(pending') = queue
  BY <1>0, <1>2, <1>4, SortedEffect
<1>8. IsInjective(pending)' /\ \A k \in JobIds : IsPending(k)' <=> k \in queue
  BY <1>7 DEF IsPending, IsInjective, ToSet
<1>9. ASSUME NEW k \in JobIds
      PROVE  JobConsistent(k)'
  <2>1. jobs'[k] = db'[k].job /\ k \notin unpublished' /\ RowMeaningful(k)'
    BY <1>2, <1>3
  <2>2. Published(k)' <=> Stored(k)'
    BY <2>1 DEF Published, Known, RowMeaningful, NoRow, NoJob
  <2>3. pendingSeq'[k] # None <=> k \in queue
    BY <1>2, <1>4, ConstantsAssumption
  <2>4. Stored(k)' /\ jobs'[k].status = "queued" => db'[k].seq = pendingSeq'[k]
    BY <1>2, <1>3, <1>6, <2>1
  <2>5. k \in queue => Stored(k)' /\ jobs'[k].status = "queued"
    BY <1>3, <1>5, <2>1
  <2> QED BY <1>8, <2>1, <2>2, <2>3, <2>4, <2>5 DEF JobConsistent
<1>10. OneActiveInMemory'
  <2>1. \A j, k \in JobIds :
          ActiveHighQuality(jobs'[j]) /\ ActiveHighQuality(jobs'[k]) => j = k
    BY <1>2, <1>3 DEF QueueInv, AtMostOneActiveHighQuality
  <2> QED BY <2>1 DEF OneActiveInMemory
<1> QED BY <1>8, <1>9, <1>10, InvFromConsistency

-----------------------------------------------------------------------------
(* The invariant holds initially ...                                       *)
LEMMA QueueInit == ASSUME Init PROVE QueueInv
<1>1. TypeOK
  BY DEF Init, TypeOK, NoJob, NoRow, JobRecord, Row
<1>2. \A j \in JobIds : RowMeaningful(j)
  BY DEF Init, RowMeaningful, Stored, NoRow, NoJob
<1>3. UnpublishedAreQueued /\ DurableMirror
  BY DEF Init, UnpublishedAreQueued, DurableMirror, Stored, Published, Known, NoRow, NoJob
<1>4. IsInjective(pending) /\ \A j \in JobIds : ~IsPending(j)
  BY DEF Init, IsInjective, IsPending, ToSet
<1>5. PendingExact
  BY <1>4 DEF Init, PendingExact, Stored, NoRow, NoJob, TerminalStatuses
<1>6. AtMostOneActiveHighQuality
  BY DEF Init, AtMostOneActiveHighQuality, ActiveHighQuality, IsHighQuality, NoRow, NoJob
<1> QED BY <1>1, <1>2, <1>3, <1>5, <1>6 DEF QueueInv

(* ... and every step keeps it: one lemma per action.                      *)
LEMMA QueueStep == ASSUME QueueInv, [Next]_vars PROVE QueueInv'
<1>0. TypeOK'
  BY TypeStep DEF QueueInv
<1>1. ASSUME UNCHANGED <<up, jobs, pending, pendingSeq, unpublished, db>>
      PROVE  QueueInv'
  BY <1>0, <1>1 DEF QueueInv, RowMeaningful, Stored, UnpublishedAreQueued, Published,
     Known, DurableMirror, PendingExact, IsPending, AtMostOneActiveHighQuality
<1>2. CASE PersistFails
  BY <1>1, <1>2 DEF PersistFails, disk
<1>3. CASE UNCHANGED vars
  BY <1>1, <1>3 DEF vars, memory, disk
<1> QED BY <1>0, <1>2, <1>3, CreateStep, PublishStep, DiscardStep,
           DiscardUnlinkFailsStep, StartNextStep, StartStep, SucceedStep, FailStep,
           RetryStep, CrashStep, RestartStep, RestartInterruptedStep
        DEF Next, EnqueueJob

(* QueueInv holds in every reachable state: memory and table agree.        *)
THEOREM QueueInvariant == Spec => []QueueInv
<1>1. Init => QueueInv
  BY QueueInit
<1>2. QueueInv /\ [Next]_vars => QueueInv'
  BY QueueStep
<1> QED BY <1>1, <1>2, PTL DEF Spec

(***************************************************************************)
(* No schedule of creates, retries, failures, crashes and recoveries has   *)
(* two high-quality jobs active, in memory or in the table.                *)
(***************************************************************************)
THEOREM HighQualityExclusive == Spec => []AtMostOneActiveHighQuality
<1>1. QueueInv => AtMostOneActiveHighQuality
  BY DEF QueueInv
<1> QED BY <1>1, QueueInvariant, PTL

(* What callers can see is what the table holds.                           *)
THEOREM MirrorDurable == Spec => []DurableMirror
<1>1. QueueInv => DurableMirror
  BY DEF QueueInv
<1> QED BY <1>1, QueueInvariant, PTL

(* The deque, its sequences and the stored sequences never disagree.       *)
THEOREM PendingIsExact == Spec => []PendingExact
<1>1. QueueInv => PendingExact
  BY DEF QueueInv
<1> QED BY <1>1, QueueInvariant, PTL

-----------------------------------------------------------------------------
(***************************************************************************)
(* The queue implements the job ledger, and a key is bound to one job.     *)
(***************************************************************************)

(* The inductive invariant: who owns a key, in memory and in the table.    *)

Bound ==
    up => /\ \A k \in Keys : index[k] # None =>
                                Known(index[k]) /\ jobs[index[k]].req.key = k
          /\ \A j \in JobIds : Known(j) => /\ jobs[j].req \in Requests
                                           /\ index[jobs[j].req.key] = j

(* A job that is not published yet has never been tried.                   *)
UnpublishedAreNew ==
    up => \A j \in JobIds : j \in unpublished =>
                                jobs[j].attempts = 0 /\ jobs[j].retryable = TRUE

RowsBound ==
    /\ \A j \in JobIds : Stored(j) => db[j].job.req \in Requests
    /\ \A j, k \in JobIds :
            Stored(j) /\ Stored(k) /\ db[j].job.req.key = db[k].job.req.key => j = k

LedgerInv == QueueInv /\ Bound /\ UnpublishedAreNew /\ RowsBound

(* While the server is up the table follows from memory.                   *)
LEMMA TableFollows ==
    ASSUME QueueInv', up', Bound', UnpublishedAreNew'
    PROVE  LedgerInv'
<1>1. \A k \in JobIds : Stored(k)' => Known(k)' /\ db'[k].job = jobs'[k]
  BY DEF QueueInv, DurableMirror, Published
<1>2. \A k \in JobIds : Known(k)' => jobs'[k].req \in Requests /\ index'[jobs'[k].req.key] = k
  BY DEF Bound
<1>3. RowsBound'
  BY <1>1, <1>2 DEF RowsBound
<1> QED BY <1>3 DEF LedgerInv

(* A step that moves no request to another job and publishes at most.      *)
LEMMA KeysKept ==
    ASSUME LedgerInv, QueueInv', up, up', index' = index,
           \A k \in JobIds : /\ jobs'[k].req = jobs[k].req
                             /\ Known(k)' <=> Known(k)
                             /\ k \in unpublished' => /\ k \in unpublished
                                                      /\ jobs'[k] = jobs[k]
    PROVE  LedgerInv'
<1>0. index \in [Keys -> JobIds \cup {None}]
  BY DEF LedgerInv, QueueInv, TypeOK
<1>1. Bound'
  BY <1>0 DEF LedgerInv, Bound
<1>2. UnpublishedAreNew'
  BY DEF LedgerInv, UnpublishedAreNew
<1> QED BY <1>1, <1>2, TableFollows

-----------------------------------------------------------------------------
(* What callers see of a step.                                             *)

Life == [j \in JobIds |-> Visible(j)]

(* The fields of a view.                                                   *)
LEMMA ViewFields ==
    ASSUME NEW rec
    PROVE  /\ View(rec).status = rec.status /\ View(rec).attempts = rec.attempts
           /\ View(rec).retryable = rec.retryable
           /\ View(rec).high = IsHighQuality(rec)
           /\ rec.req # None => View(rec).key = rec.req.key
  BY DEF View

(* The record of a published job is replaced; nothing else is seen.        *)
Replaced(j, rec) ==
    /\ up /\ up' /\ Published(j)
    /\ jobs' = [jobs EXCEPT ![j] = rec]
    /\ rec.status # "absent" /\ rec.req = jobs[j].req
    /\ index' = index /\ unpublished' = unpublished

LEMMA ReplacedKeys ==
    ASSUME LedgerInv, QueueInv', NEW j \in JobIds, NEW rec, Replaced(j, rec)
    PROVE  LedgerInv'
<1>0. jobs \in [JobIds -> JobRecord]
  BY DEF LedgerInv, QueueInv, TypeOK
<1>1. \A k \in JobIds : jobs'[k] = IF k = j THEN rec ELSE jobs[k]
  BY <1>0 DEF Replaced
<1>2. up /\ up' /\ index' = index /\ unpublished' = unpublished /\ j \notin unpublished
      /\ jobs[j].status # "absent" /\ rec.status # "absent" /\ rec.req = jobs[j].req
  BY DEF Replaced, Published, Known
<1>3. \A k \in JobIds : /\ jobs'[k].req = jobs[k].req
                        /\ Known(k)' <=> Known(k)
                        /\ k \in unpublished' => k \in unpublished /\ jobs'[k] = jobs[k]
  BY <1>1, <1>2 DEF Known
<1> QED BY <1>2, <1>3, KeysKept

LEMMA ReplacedSeen ==
    ASSUME TypeOK, NEW j \in JobIds, NEW rec, Replaced(j, rec)
    PROVE  /\ Life[j] = View(jobs[j])
           /\ Life' = [Life EXCEPT ![j] = View(rec)]
<1>1. \A k \in JobIds : jobs'[k] = IF k = j THEN rec ELSE jobs[k]
  BY DEF Replaced, TypeOK
<1>2. Visible(j) = View(jobs[j])
  BY DEF Replaced, Visible
<1>3. up /\ up' /\ unpublished' = unpublished /\ j \notin unpublished /\ rec.status # "absent"
  BY DEF Replaced, Published
<1>4. Visible(j)' = View(rec)
  BY <1>1, <1>3 DEF Visible, Published, Known, View, IsHighQuality
<1>5. \A k \in JobIds : k # j => Visible(k)' = Visible(k)
  BY <1>1, <1>3 DEF Visible, Published, Known, View, IsHighQuality
<1> QED BY <1>2, <1>4, <1>5 DEF Life

-----------------------------------------------------------------------------
(* Claiming, settling and retrying a job.                                  *)

LEMMA ClaimSeen ==
    ASSUME TypeOK, NEW j \in JobIds, jobs[j].status = "queued",
           Replaced(j, [jobs[j] EXCEPT !.status = "running"])
    PROVE  Ledger!LedgerNext
<1> DEFINE rec == [jobs[j] EXCEPT !.status = "running"]
<1>1. Life[j] = View(jobs[j]) /\ Life' = [Life EXCEPT ![j] = View(rec)]
  BY ReplacedSeen
<1>2. jobs[j] \in JobRecord
  BY DEF TypeOK
<1>3. View(rec) = [View(jobs[j]) EXCEPT !.status = "running"]
  BY <1>2 DEF View, IsHighQuality, JobRecord
<1>4. Life' = [Life EXCEPT ![j].status = "running"] /\ Life[j].status = "queued"
  BY <1>1, <1>3, ViewFields
<1>5. Ledger!Claim(j)
  BY <1>4 DEF Ledger!Claim, Life
<1> QED BY <1>5 DEF Ledger!LedgerNext

LEMMA SuccessSeen ==
    ASSUME TypeOK, NEW j \in JobIds, NEW result, jobs[j].status = "running",
           Replaced(j, [jobs[j] EXCEPT !.status = "succeeded", !.result = result,
                                       !.error = FALSE])
    PROVE  Ledger!LedgerNext
<1> DEFINE rec == [jobs[j] EXCEPT !.status = "succeeded", !.result = result,
                                  !.error = FALSE]
<1>1. Life[j] = View(jobs[j]) /\ Life' = [Life EXCEPT ![j] = View(rec)]
  BY ReplacedSeen
<1>2. jobs[j] \in JobRecord
  BY DEF TypeOK
<1>3. View(rec) = [View(jobs[j]) EXCEPT !.status = "succeeded"]
  BY <1>2 DEF View, IsHighQuality, JobRecord
<1>4. Life' = [Life EXCEPT ![j].status = "succeeded"] /\ Life[j].status = "running"
  BY <1>1, <1>3, ViewFields
<1>5. Ledger!Succeed(j)
  BY <1>4 DEF Ledger!Succeed, Life
<1> QED BY <1>5 DEF Ledger!LedgerNext

LEMMA RequeueSeen ==
    ASSUME TypeOK, NEW j \in JobIds, jobs[j].status = "running",
           jobs[j].attempts + 1 < MaxAttempts,
           Replaced(j, [jobs[j] EXCEPT !.attempts = @ + 1, !.error = TRUE,
                                       !.status = "queued"])
    PROVE  Ledger!LedgerNext
<1> DEFINE rec == [jobs[j] EXCEPT !.attempts = @ + 1, !.error = TRUE,
                                  !.status = "queued"]
<1>1. Life[j] = View(jobs[j]) /\ Life' = [Life EXCEPT ![j] = View(rec)]
  BY ReplacedSeen
<1>2. jobs[j] \in JobRecord
  BY DEF TypeOK
<1>3. View(rec) = Ledger!Failed(View(jobs[j]), "queued", View(jobs[j]).retryable)
  BY <1>2 DEF View, IsHighQuality, JobRecord, Ledger!Failed
<1>4. /\ Life' = [Life EXCEPT ![j] = Ledger!Failed(Life[j], "queued", Life[j].retryable)]
      /\ Life[j].status = "running" /\ Life[j].attempts + 1 < MaxAttempts
  BY <1>1, <1>3, ViewFields
<1>5. Ledger!FailAndRequeue(j)
  BY <1>4 DEF Ledger!FailAndRequeue, Life
<1> QED BY <1>5 DEF Ledger!LedgerNext

LEMMA FailureSeen ==
    ASSUME TypeOK, NEW j \in JobIds, NEW retryable \in BOOLEAN,
           jobs[j].status = "running",
           retryable => jobs[j].attempts + 1 >= MaxAttempts,
           Replaced(j, [jobs[j] EXCEPT !.attempts = @ + 1, !.error = TRUE,
                                       !.status = "failed", !.retryable = retryable])
    PROVE  Ledger!LedgerNext
<1> DEFINE rec == [jobs[j] EXCEPT !.attempts = @ + 1, !.error = TRUE,
                                  !.status = "failed", !.retryable = retryable]
<1>1. Life[j] = View(jobs[j]) /\ Life' = [Life EXCEPT ![j] = View(rec)]
  BY ReplacedSeen
<1>2. jobs[j] \in JobRecord
  BY DEF TypeOK
<1>3. View(rec) = Ledger!Failed(View(jobs[j]), "failed", retryable)
  BY <1>2 DEF View, IsHighQuality, JobRecord, Ledger!Failed
<1>4. /\ Life' = [Life EXCEPT ![j] = Ledger!Failed(Life[j], "failed", retryable)]
      /\ Life[j].status = "running"
      /\ retryable => Life[j].attempts + 1 >= MaxAttempts
  BY <1>1, <1>3, ViewFields
<1>5. Ledger!FailForGood(j, retryable)
  BY <1>4 DEF Ledger!FailForGood, Life
<1> QED BY <1>5 DEF Ledger!LedgerNext

(* No active high-quality job in memory, none in view.                     *)
LEMMA HighQualityFreeInView ==
    ASSUME up, NEW j \in JobIds,
           \A k \in JobIds : ActiveHighQuality(jobs[k]) => ~Published(k)
    PROVE  Ledger!HighQualityFree
<1>1. ASSUME NEW k \in JobIds, Visible(k).high
      PROVE  Visible(k).status \notin {"queued", "running"}
  <2>1. Published(k)
    BY <1>1 DEF Visible, View, IsHighQuality, NoJob
  <2>2. Visible(k) = View(jobs[k])
    BY <2>1 DEF Visible
  <2>3. IsHighQuality(jobs[k]) /\ Visible(k).status = jobs[k].status
    BY <1>1, <2>2, ViewFields
  <2> QED BY <2>1, <2>3 DEF ActiveHighQuality, TerminalStatuses
<1> QED BY <1>1 DEF Ledger!HighQualityFree, Ledger!Active

LEMMA RetrySeen ==
    ASSUME TypeOK, NEW j \in JobIds, CanRetry(j),
           Replaced(j, [jobs[j] EXCEPT !.status = "queued", !.error = FALSE])
    PROVE  Ledger!LedgerNext
<1> DEFINE rec == [jobs[j] EXCEPT !.status = "queued", !.error = FALSE]
<1>1. Life[j] = View(jobs[j]) /\ Life' = [Life EXCEPT ![j] = View(rec)]
  BY ReplacedSeen
<1>2. jobs[j] \in JobRecord
  BY DEF TypeOK
<1>3. View(rec) = [View(jobs[j]) EXCEPT !.status = "queued"]
  BY <1>2 DEF View, IsHighQuality, JobRecord
<1>4. /\ Life' = [Life EXCEPT ![j].status = "queued"]
      /\ Life[j].status = "failed" /\ Life[j].retryable
      /\ Life[j].high = IsHighQuality(jobs[j])
  <2>1. /\ View(jobs[j]).status = jobs[j].status
        /\ View(jobs[j]).retryable = jobs[j].retryable
        /\ View(jobs[j]).high = IsHighQuality(jobs[j])
    BY ViewFields
  <2>2. jobs[j].status = "failed" /\ jobs[j].retryable
    BY DEF CanRetry
  <2> HIDE DEF rec
  <2> QED BY <1>1, <1>3, <2>1, <2>2
<1>5. Life[j].high => Ledger!HighQualityFree
  BY <1>4, HighQualityFreeInView DEF CanRetry, HasActiveHighQualityJob
<1>6. Ledger!Retry(j)
  BY <1>4, <1>5 DEF Ledger!Retry, Life
<1> QED BY <1>6 DEF Ledger!LedgerNext

-----------------------------------------------------------------------------
(* Submitting, withdrawing and requeueing jobs.                            *)

(* An entry without a job.                                                 *)
LEMMA NoJobView == View(NoJob) = Ledger!NotThere
<1>1. ~IsHighQuality(NoJob)
  BY DEF IsHighQuality, NoJob
<1> QED BY <1>1 DEF View, NoJob, IsHighQuality, Ledger!NotThere

(* A new job gets into view: published at once, or some time after it was  *)
(* created.                                                                *)
LEMMA SubmitSeen ==
    ASSUME Bound, up, up', NEW j \in JobIds, NEW r \in Requests,
           ~Published(j), j \notin unpublished',
           jobs'[j].req = r, jobs'[j].status = "queued", jobs'[j].attempts = 0,
           jobs'[j].retryable = TRUE,
           \A k \in JobIds : k # j => /\ jobs'[k] = jobs[k]
                                      /\ k \in unpublished' <=> k \in unpublished,
           \A k \in JobIds : Published(k) => jobs[k].req.key # r.key,
           r.mode = "high_quality" =>
                \A k \in JobIds : ActiveHighQuality(jobs[k]) => ~Published(k)
    PROVE  Ledger!LedgerNext
<1> DEFINE h == r.mode = "high_quality"
<1>0. r # None /\ r.key \in Keys
  BY ConstantsAssumption DEF Keys
<1>1. Visible(j)' = Ledger!Submitted(r.key, h)
  <2>1. Visible(j)' = View(jobs'[j])
    BY DEF Visible, Published, Known, View, IsHighQuality
  <2> QED BY <1>0, <2>1 DEF View, IsHighQuality, Ledger!Submitted
<1>2. \A k \in JobIds : k # j => Visible(k)' = Visible(k)
  BY DEF Visible, Published, Known, View, IsHighQuality
<1>3. Visible(j).status = "absent"
  BY DEF Visible, View, NoJob
<1>4. ASSUME NEW k \in JobIds, Visible(k).status # "absent"
      PROVE  Visible(k).key # r.key
  <2>1. Published(k)
    BY <1>4 DEF Visible, View, NoJob
  <2>2. jobs[k].req # None
    BY <2>1, ConstantsAssumption DEF Bound, Published
  <2>3. Visible(k).key = jobs[k].req.key
    BY <2>1, <2>2, ViewFields DEF Visible
  <2> QED BY <2>1, <2>3
<1>5. h => Ledger!HighQualityFree
  BY HighQualityFreeInView
<1>6. Life' = [Life EXCEPT ![j] = Ledger!Submitted(r.key, h)]
  BY <1>1, <1>2 DEF Life
<1> HIDE DEF h
<1>7. Ledger!Submit(j, r.key, h)
  BY <1>3, <1>4, <1>5, <1>6 DEF Ledger!Submit, Ledger!There, Life
<1>8. h \in BOOLEAN
  BY DEF h
<1> QED BY <1>0, <1>7, <1>8 DEF Ledger!LedgerNext

LEMMA WithdrawSeen ==
    ASSUME NEW S \in SUBSET JobIds,
           \A k \in S : Visible(k).status = "queued" /\ Visible(k)' = View(NoJob),
           \A k \in JobIds \ S : Visible(k)' = Visible(k)
    PROVE  Ledger!LedgerNext
<1>1. Life' = [k \in JobIds |-> IF k \in S THEN Ledger!NotThere ELSE Life[k]]
  BY NoJobView DEF Life
<1>2. Ledger!Withdraw(S)
  BY <1>1 DEF Ledger!Withdraw, Life
<1> QED BY <1>2 DEF Ledger!LedgerNext

LEMMA RecoverySeen ==
    ASSUME QueueInv, ~up, NEW first, NEW done \in SUBSET RunningRows,
           db' = RecoveredTable(done, first),
           \A k \in JobIds : Visible(k)' = View(db'[k].job)
    PROVE  Ledger!LedgerNext
<1>0. db \in [JobIds -> Row] /\ done \in SUBSET JobIds
  BY DEF QueueInv, TypeOK, RunningRows
<1>1. \A k \in JobIds : Visible(k) = View(db[k].job)
  BY DEF Visible
<1>2. \A k \in JobIds \ done : Visible(k)' = Visible(k)
  BY <1>1, RecoveryEffect
<1>3. ASSUME NEW k \in done
      PROVE  /\ Visible(k).status = "running"
             /\ Visible(k)' = [Visible(k) EXCEPT !.status = "queued"]
  <2>1. k \in JobIds /\ db[k].job \in JobRecord /\ db[k].job.status = "running"
    BY <1>0 DEF RunningRows, Row
  <2>2. Visible(k)' = View(Requeued(db[k].job))
    BY <2>1, RecoveryEffect
  <2>3. View(Requeued(db[k].job)) = [View(db[k].job) EXCEPT !.status = "queued"]
    BY <2>1 DEF View, Requeued, IsHighQuality, JobRecord
  <2> QED BY <1>1, <2>1, <2>2, <2>3, ViewFields
<1>4. Life' = [k \in JobIds |-> IF k \in done
                                THEN [Life[k] EXCEPT !.status = "queued"] ELSE Life[k]]
  BY <1>2, <1>3 DEF Life
<1>5. Ledger!Requeue(done)
  BY <1>0, <1>3, <1>4 DEF Ledger!Requeue, Life
<1> QED BY <1>0, <1>5 DEF Ledger!LedgerNext

-----------------------------------------------------------------------------
(* Every action keeps the invariant, and is a step of the ledger or not    *)
(* seen at all.                                                            *)

Seen == Ledger!LedgerNext \/ UNCHANGED Life

(* Memory as callers see it is untouched.                                  *)
LEMMA Unseen ==
    ASSUME up, up', \A k \in JobIds : /\ jobs'[k] = jobs[k]
                                      /\ k \in unpublished' <=> k \in unpublished
    PROVE  Seen
<1>1. \A k \in JobIds : Visible(k)' = Visible(k)
  BY DEF Visible, Published, Known, View, IsHighQuality
<1> QED BY <1>1 DEF Seen, Life

LEMMA CreateImplements ==
    ASSUME LedgerInv, QueueInv', NEW j \in JobIds, NEW r \in Requests,
           NEW enqueue \in BOOLEAN, NEW publish \in BOOLEAN,
           CreateJob(j, r, enqueue, publish)
    PROVE  LedgerInv' /\ Seen
<1>0. /\ TypeOK /\ up /\ up' /\ jobs \in [JobIds -> JobRecord] /\ Bound
      /\ index \in [Keys -> JobIds \cup {None}] /\ r.key \in Keys /\ UnpublishedAreNew
  BY DEF LedgerInv, QueueInv, TypeOK, CreateJob, CanCreate, Keys
<1>1. /\ jobs' = [jobs EXCEPT ![j] = NewJob(r)] /\ index' = [index EXCEPT ![r.key] = j]
      /\ jobs[j].status = "absent"
  BY DEF CreateJob, Known
<1>2. index[r.key] = None
  BY DEF CreateJob, CanCreate, Lookup
<1>3. /\ NewJob(r).req = r /\ NewJob(r).status = "queued" /\ NewJob(r).attempts = 0
      /\ NewJob(r).retryable = TRUE
  BY DEF NewJob, NoJob
<1>4. j \notin unpublished
  BY <1>0, <1>1 DEF LedgerInv, QueueInv, UnpublishedAreQueued
<1>5. unpublished' = IF publish THEN unpublished ELSE unpublished \cup {j}
  BY DEF CreateJob
<1>6. \A k \in JobIds : jobs'[k] = IF k = j THEN NewJob(r) ELSE jobs[k]
  BY <1>0, <1>1
<1>7. \A k \in Keys : index'[k] = IF k = r.key THEN j ELSE index[k]
  BY <1>0, <1>1
<1>8. \A k \in JobIds : Known(k) => jobs[k].req \in Requests /\ jobs[k].req.key \in Keys
                                    /\ jobs[k].req.key # r.key /\ k # j
  BY <1>0, <1>1, <1>2, ConstantsAssumption DEF Bound, Known, Keys
<1>9. Bound'
  <2>1. ASSUME NEW k \in JobIds, Known(k)'
        PROVE  jobs'[k].req \in Requests /\ index'[jobs'[k].req.key] = k
    <3>1. CASE k = j
      BY <1>0, <1>3, <1>6, <1>7, <3>1
    <3>2. CASE k # j
      BY <1>0, <1>6, <1>7, <1>8, <2>1, <3>2 DEF Bound, Known
    <3> QED BY <3>1, <3>2
  <2>2. ASSUME NEW k \in Keys, index'[k] # None
        PROVE  (Known(index[k]) /\ jobs[index[k]].req.key = k)'
    <3>1. CASE k = r.key
      BY <1>3, <1>6, <1>7, <3>1 DEF Known
    <3>2. CASE k # r.key
      <4>1. index'[k] = index[k] /\ index[k] \in JobIds /\ Known(index[k])
            /\ jobs[index[k]].req.key = k
        BY <1>0, <1>7, <2>2, <3>2 DEF Bound
      <4> QED BY <1>6, <1>8, <4>1 DEF Known
    <3> QED BY <3>1, <3>2
  <2> QED BY <2>1, <2>2 DEF Bound
<1>10. UnpublishedAreNew'
  BY <1>0, <1>3, <1>4, <1>5, <1>6 DEF UnpublishedAreNew
<1>11. LedgerInv'
  BY <1>0, <1>9, <1>10, TableFollows
<1>12. CASE publish
  <2>1. ~Published(j) /\ j \notin unpublished'
    BY <1>1, <1>4, <1>5, <1>12 DEF Published, Known
  <2>2. \A k \in JobIds : k # j => /\ jobs'[k] = jobs[k]
                                   /\ k \in unpublished' <=> k \in unpublished
    BY <1>5, <1>6, <1>12
  <2>3. \A k \in JobIds : Published(k) => jobs[k].req.key # r.key
    BY <1>8 DEF Published
  <2>4. r.mode = "high_quality" =>
          \A k \in JobIds : ActiveHighQuality(jobs[k]) => ~Published(k)
    BY DEF CreateJob, CanCreate, HasActiveHighQualityJob
  <2>5. /\ jobs'[j].req = r /\ jobs'[j].status = "queued" /\ jobs'[j].attempts = 0
        /\ jobs'[j].retryable = TRUE
    BY <1>3, <1>6
  <2>6. Ledger!LedgerNext
    BY <1>0, <2>1, <2>2, <2>3, <2>4, <2>5, SubmitSeen
  <2> QED BY <1>11, <2>6 DEF Seen
<1>13. CASE ~publish
  <2>1. \A k \in JobIds : Visible(k)' = Visible(k)
    <3>1. Visible(j) = View(NoJob) /\ Visible(j)' = View(NoJob)
      BY <1>0, <1>1, <1>5, <1>13 DEF Visible, Published, Known, View, NoJob, IsHighQuality
    <3>2. \A k \in JobIds \ {j} : Visible(k)' = Visible(k)
      BY <1>0, <1>5, <1>6 DEF Visible, Published, Known, View, IsHighQuality
    <3> QED BY <3>1, <3>2
  <2> QED BY <1>11, <2>1 DEF Seen, Life
<1> QED BY <1>12, <1>13

LEMMA PublishImplements ==
    ASSUME LedgerInv, QueueInv', NEW j \in JobIds, NEW enqueue \in BOOLEAN,
           PublishJob(j, enqueue)
    PROVE  LedgerInv' /\ Seen
<1>0. /\ up /\ up' /\ Known(j) /\ jobs' = jobs /\ index' = index
      /\ unpublished' = unpublished \ {j} /\ Bound /\ UnpublishedAreNew
  BY DEF LedgerInv, PublishJob, CanPublish
<1>1. LedgerInv'
  <2>1. \A k \in JobIds : /\ jobs'[k].req = jobs[k].req
                          /\ Known(k)' <=> Known(k)
                          /\ k \in unpublished' => k \in unpublished /\ jobs'[k] = jobs[k]
    BY <1>0 DEF Known
  <2> QED BY <1>0, <2>1, KeysKept
<1>2. CASE j \notin unpublished
  BY <1>0, <1>1, <1>2, Unseen
<1>3. CASE j \in unpublished
  <2>1. PICK r \in Requests : r = jobs[j].req /\ index[r.key] = j
    BY <1>0 DEF Bound
  <2>2. ~Published(j) /\ j \notin unpublished'
    BY <1>0, <1>3 DEF Published
  <2>3. /\ jobs[j].status = "queued" /\ jobs[j].attempts = 0 /\ jobs[j].retryable = TRUE
    BY <1>0, <1>3 DEF UnpublishedAreNew, LedgerInv, QueueInv, UnpublishedAreQueued
  <2>4. \A k \in JobIds : Published(k) => jobs[k].req.key # r.key
    BY <1>0, <2>1, <2>2 DEF Bound, Published
  <2>5. ASSUME r.mode = "high_quality"
        PROVE  \A k \in JobIds : ActiveHighQuality(jobs[k]) => ~Published(k)
    <3>1. ActiveHighQuality(jobs[j])
      BY <2>1, <2>3, <2>5, ConstantsAssumption
         DEF ActiveHighQuality, IsHighQuality, TerminalStatuses
    <3> QED BY <2>2, <3>1 DEF LedgerInv, QueueInv, AtMostOneActiveHighQuality
  <2>6. \A k \in JobIds : k # j => /\ jobs'[k] = jobs[k]
                                   /\ k \in unpublished' <=> k \in unpublished
    BY <1>0
  <2>7. /\ jobs'[j].req = r /\ jobs'[j].status = "queued" /\ jobs'[j].attempts = 0
        /\ jobs'[j].retryable = TRUE
    BY <1>0, <2>1, <2>3
  <2>8. r.mode = "high_quality" =>
          \A k \in JobIds : ActiveHighQuality(jobs[k]) => ~Published(k)
    BY <2>5
  <2>9. Ledger!LedgerNext
    BY <1>0, <2>2, <2>4, <2>6, <2>7, <2>8, SubmitSeen
  <2> QED BY <1>1, <2>9 DEF Seen
<1> QED BY <1>2, <1>3

LEMMA DiscardImplements ==
    ASSUME LedgerInv, QueueInv', NEW j \in JobIds, DiscardQueuedJob(j)
    PROVE  LedgerInv' /\ Seen
<1>0. /\ up /\ up' /\ jobs[j].status = "queued" /\ jobs \in [JobIds -> JobRecord]
      /\ index \in [Keys -> JobIds \cup {None}] /\ Bound /\ UnpublishedAreNew
      /\ jobs' = [jobs EXCEPT ![j] = NoJob] /\ unpublished' = unpublished \ {j}
      /\ index' = [index EXCEPT ![jobs[j].req.key] = None]
  BY DEF LedgerInv, QueueInv, TypeOK, DiscardQueuedJob, CanDiscard
<1>1. \A k \in JobIds : jobs'[k] = IF k = j THEN NoJob ELSE jobs[k]
  BY <1>0
<1>2. jobs[j].req \in Requests /\ index[jobs[j].req.key] = j
  BY <1>0 DEF Bound, Known
<1>3. NoJob.status = "absent"
  BY DEF NoJob
<1>4. \A k \in Keys : index'[k] = IF k = jobs[j].req.key THEN None ELSE index[k]
  BY <1>0
<1>5. Bound'
  <2>1. ASSUME NEW k \in JobIds, Known(k)'
        PROVE  jobs'[k].req \in Requests /\ index'[jobs'[k].req.key] = k
    <3>1. k # j /\ jobs'[k] = jobs[k] /\ Known(k)
      BY <1>1, <1>3, <2>1 DEF Known
    <3>2. jobs[k].req \in Requests /\ index[jobs[k].req.key] = k
      BY <1>0, <3>1 DEF Bound
    <3> QED BY <1>2, <1>4, <3>1, <3>2 DEF Keys
  <2>2. ASSUME NEW k \in Keys, index'[k] # None
        PROVE  (Known(index[k]) /\ jobs[index[k]].req.key = k)'
    <3>1. k # jobs[j].req.key /\ index'[k] = index[k] /\ index[k] \in JobIds
      BY <1>0, <1>4, <2>2
    <3>2. Known(index[k]) /\ jobs[index[k]].req.key = k
      BY <1>0, <2>2, <3>1 DEF Bound
    <3> QED BY <1>1, <3>1, <3>2 DEF Known
  <2> QED BY <2>1, <2>2 DEF Bound
<1>6. UnpublishedAreNew'
  BY <1>0, <1>1 DEF UnpublishedAreNew
<1>7. LedgerInv'
  BY <1>0, <1>5, <1>6, TableFollows
<1>8. \A k \in JobIds \ {j} : Visible(k)' = Visible(k)
  BY <1>0, <1>1 DEF Visible, Published, Known, View, IsHighQuality
<1>9. Visible(j)' = View(NoJob)
  BY <1>0, <1>1, <1>3 DEF Visible, Published, Known
<1>10. CASE Published(j)
  <2>1. Visible(j).status = "queued"
    BY <1>0, <1>10, ViewFields DEF Visible
  <2> DEFINE S == {j}
  <2>2. /\ S \in SUBSET JobIds
        /\ \A k \in S : Visible(k).status = "queued" /\ Visible(k)' = View(NoJob)
        /\ \A k \in JobIds \ S : Visible(k)' = Visible(k)
    BY <1>8, <1>9, <2>1
  <2> HIDE DEF S
  <2>3. Ledger!LedgerNext
    BY <2>2, WithdrawSeen
  <2> QED BY <1>7, <2>3 DEF Seen
<1>11. CASE ~Published(j)
  <2>1. Visible(j) = View(NoJob)
    BY <1>0, <1>11 DEF Visible
  <2> QED BY <1>7, <1>8, <1>9, <2>1 DEF Seen, Life
<1> QED BY <1>10, <1>11

(* Deletions that fail halfway and lost sequence numbers are not seen.     *)
LEMMA MemoryKept ==
    ASSUME LedgerInv, QueueInv', up, UNCHANGED <<up, jobs, index, unpublished>>
    PROVE  LedgerInv' /\ Seen
<1>1. \A k \in JobIds : /\ jobs'[k].req = jobs[k].req
                        /\ Known(k)' <=> Known(k)
                        /\ k \in unpublished' => k \in unpublished /\ jobs'[k] = jobs[k]
  BY DEF Known
<1> QED BY <1>1, KeysKept, Unseen

LEMMA StartImplements ==
    ASSUME LedgerInv, QueueInv', NEW j \in JobIds, StartJob(j)
    PROVE  LedgerInv' /\ Seen
<1>0. TypeOK /\ jobs[j] \in JobRecord /\ jobs[j].status = "queued"
  BY DEF LedgerInv, QueueInv, TypeOK, StartJob
<1>1. Replaced(j, [jobs[j] EXCEPT !.status = "running"])
  BY <1>0 DEF StartJob, Replace, Replaced, JobRecord
<1> QED BY <1>0, <1>1, ReplacedKeys, ClaimSeen DEF Seen

LEMMA StartNextImplements ==
    ASSUME LedgerInv, QueueInv', StartNextJob
    PROVE  LedgerInv' /\ Seen
<1> DEFINE j == pending[NextClaimable]
<1>0. TypeOK /\ up /\ NextClaimable # 0 /\ pending \in Seq(JobIds)
  BY DEF LedgerInv, QueueInv, TypeOK, StartNextJob
<1>1. j \in JobIds /\ jobs[j].status = "queued" /\ NextClaimable \in 1..Len(pending)
  BY <1>0, NextClaimableProperties
<1>2. IsPending(j)
  BY <1>0, <1>1 DEF IsPending, ToSet
<1>3. Published(j) /\ jobs[j] \in JobRecord
  BY <1>0, <1>1, <1>2 DEF LedgerInv, QueueInv, PendingExact, TypeOK
<1>4. Replaced(j, [jobs[j] EXCEPT !.status = "running"])
  BY <1>0, <1>3 DEF StartNextJob, Replace, Replaced, JobRecord
<1> HIDE DEF j
<1> QED BY <1>0, <1>1, <1>4, ReplacedKeys, ClaimSeen DEF Seen

LEMMA SucceedImplements ==
    ASSUME LedgerInv, QueueInv', NEW j \in JobIds, NEW result, MarkSucceeded(j, result)
    PROVE  LedgerInv' /\ Seen
<1>0. TypeOK /\ up /\ jobs[j] \in JobRecord /\ jobs[j].status = "running"
  BY DEF LedgerInv, QueueInv, TypeOK, MarkSucceeded, RequireRunning
<1>1. Published(j)
  BY <1>0 DEF Published, Known, LedgerInv, QueueInv, UnpublishedAreQueued
<1>2. Replaced(j, [jobs[j] EXCEPT !.status = "succeeded", !.result = result,
                                  !.error = FALSE])
  BY <1>0, <1>1 DEF MarkSucceeded, Replace, Replaced, JobRecord
<1> QED BY <1>0, <1>2, ReplacedKeys, SuccessSeen DEF Seen

LEMMA FailImplements ==
    ASSUME LedgerInv, QueueInv', NEW j \in JobIds, NEW retryable \in BOOLEAN,
           MarkFailed(j, retryable)
    PROVE  LedgerInv' /\ Seen
<1>0. TypeOK /\ up /\ jobs[j] \in JobRecord /\ jobs[j].status = "running"
  BY DEF LedgerInv, QueueInv, TypeOK, MarkFailed, RequireRunning
<1>1. Published(j)
  BY <1>0 DEF Published, Known, LedgerInv, QueueInv, UnpublishedAreQueued
<1>2. CASE WillRequeue(j, retryable)
  <2>1. Replaced(j, [jobs[j] EXCEPT !.attempts = @ + 1, !.error = TRUE,
                                    !.status = "queued"])
    BY <1>0, <1>1, <1>2 DEF MarkFailed, Replace, Replaced, JobRecord
  <2>2. jobs[j].attempts + 1 < MaxAttempts
    BY <1>2 DEF WillRequeue
  <2> QED BY <1>0, <2>1, <2>2, ReplacedKeys, RequeueSeen DEF Seen
<1>3. CASE ~WillRequeue(j, retryable)
  <2>1. Replaced(j, [jobs[j] EXCEPT !.attempts = @ + 1, !.error = TRUE,
                                    !.status = "failed", !.retryable = retryable])
    BY <1>0, <1>1, <1>3 DEF MarkFailed, Replace, Replaced, JobRecord
  <2>2. jobs[j].attempts \in Nat /\ MaxAttempts \in Nat
    BY <1>0, ConstantsAssumption DEF JobRecord
  <2>3. retryable => jobs[j].attempts + 1 >= MaxAttempts
    BY <1>3, <2>2 DEF WillRequeue
  <2> QED BY <1>0, <2>1, <2>3, ReplacedKeys, FailureSeen DEF Seen
<1> QED BY <1>2, <1>3

LEMMA RetryImplements ==
    ASSUME LedgerInv, QueueInv', NEW j \in JobIds, RetryFailedJob(j)
    PROVE  LedgerInv' /\ Seen
<1>0. /\ TypeOK /\ up /\ jobs[j] \in JobRecord /\ jobs[j].status = "failed"
      /\ CanRetry(j)
  BY DEF LedgerInv, QueueInv, TypeOK, RetryFailedJob, CanRetry
<1>1. Published(j)
  BY <1>0 DEF Published, Known, LedgerInv, QueueInv, UnpublishedAreQueued
<1>2. Replaced(j, [jobs[j] EXCEPT !.status = "queued", !.error = FALSE])
  BY <1>0, <1>1 DEF RetryFailedJob, Replace, Replaced, JobRecord
<1> QED BY <1>0, <1>2, ReplacedKeys, RetrySeen DEF Seen

LEMMA CrashImplements ==
    ASSUME LedgerInv, QueueInv', Crash
    PROVE  LedgerInv' /\ Seen
<1>0. /\ up /\ ~up' /\ jobs' = jobs /\ db \in [JobIds -> Row] /\ RowsBound
      /\ \A k \in JobIds : RowMeaningful(k)
  BY DEF LedgerInv, QueueInv, TypeOK, Crash, memory
<1>1. \A k \in JobIds : \/ db'[k] = db[k]
                        \/ db'[k] = NoRow /\ jobs[k].status = "queued"
  BY <1>0 DEF Crash, DeleteRow, CanDiscard
<1>2. NoRow.rowid = 0 /\ NoRow.job = NoJob
  BY DEF NoRow
<1>3. RowsBound'
  <2>1. \A k \in JobIds : Stored(k)' => Stored(k) /\ db'[k] = db[k]
    BY <1>1, <1>2 DEF Stored
  <2> QED BY <1>0, <2>1 DEF RowsBound
<1>4. LedgerInv'
  BY <1>0, <1>3 DEF LedgerInv, Bound, UnpublishedAreNew
<1> DEFINE S == {k \in JobIds : Published(k) /\ ~Stored(k)'}
<1>5. ASSUME NEW k \in JobIds
      PROVE  /\ Stored(k) => Published(k) /\ db[k].job = jobs[k]
             /\ Published(k) /\ ~Stored(k) => jobs[k].status = "queued"
             /\ ~Stored(k) => db[k] = NoRow
             /\ ~Stored(k)' => db'[k] = NoRow
  BY <1>0, <1>1, <1>2 DEF LedgerInv, QueueInv, DurableMirror, RowMeaningful, Stored
<1>6. \A k \in S : Visible(k).status = "queued" /\ Visible(k)' = View(NoJob)
  <2> TAKE k \in S
  <2>1. k \in JobIds /\ Published(k) /\ db'[k] = NoRow /\ jobs[k].status = "queued"
    BY <1>1, <1>2, <1>5 DEF Stored
  <2> QED BY <1>0, <1>2, <2>1, ViewFields DEF Visible
<1>7. \A k \in JobIds \ S : Visible(k)' = Visible(k)
  <2> TAKE k \in JobIds \ S
  <2>1. CASE Published(k)
    <3>1. db'[k] = db[k] /\ db[k].job = jobs[k]
      BY <1>1, <1>2, <1>5, <2>1 DEF Stored
    <3> QED BY <1>0, <2>1, <3>1 DEF Visible
  <2>2. CASE ~Published(k)
    <3>1. db'[k].job = NoJob
      BY <1>1, <1>2, <1>5, <2>2
    <3> QED BY <1>0, <2>2, <3>1 DEF Visible
  <2> QED BY <2>1, <2>2
<1>8. S \in SUBSET JobIds
  OBVIOUS
<1> HIDE DEF S
<1>9. Ledger!LedgerNext
  BY <1>6, <1>7, <1>8, WithdrawSeen
<1> QED BY <1>4, <1>9 DEF Seen

(* Recovery requeues some rows and moves no request.                       *)
LEMMA RecoveryKeepsRows ==
    ASSUME LedgerInv, NEW first, NEW done \in SUBSET RunningRows,
           db' = RecoveredTable(done, first)
    PROVE  /\ RowsBound'
           /\ \A k \in JobIds : db'[k].job.req = db[k].job.req
<1>0. QueueInv /\ RowsBound /\ db \in [JobIds -> Row] /\ done \in SUBSET JobIds
  BY DEF LedgerInv, QueueInv, TypeOK, RunningRows
<1>1. ASSUME NEW k \in JobIds
      PROVE  db'[k].job.req = db[k].job.req /\ (Stored(k)' <=> Stored(k))
  <2>1. Stored(k)' <=> Stored(k)
    BY <1>0, RecoveryEffect
  <2>2. CASE k \in done
    <3>1. db'[k].job = Requeued(db[k].job) /\ db[k].job \in JobRecord
      BY <1>0, <2>2, RecoveryEffect DEF Row
    <3> QED BY <2>1, <3>1 DEF Requeued, JobRecord
  <2>3. CASE k \notin done
    BY <1>0, <2>1, <2>3, RecoveryEffect
  <2> QED BY <2>2, <2>3
<1> QED BY <1>0, <1>1 DEF RowsBound

LEMMA RestartInterruptedImplements ==
    ASSUME LedgerInv, QueueInv', RestartInterrupted
    PROVE  LedgerInv' /\ Seen
<1>1. PICK last \in RunningRows, first \in FirstPendingSeq :
        db' = RecoveredTable({j \in RunningRows : db[j].rowid <= db[last].rowid}, first)
  BY DEF RestartInterrupted
<1>2. PICK done \in SUBSET RunningRows : db' = RecoveredTable(done, first)
  BY <1>1
<1>3. ~up /\ ~up' /\ QueueInv
  BY DEF LedgerInv, RestartInterrupted
<1>4. LedgerInv'
  BY <1>2, <1>3, RecoveryKeepsRows DEF LedgerInv, Bound, UnpublishedAreNew
<1>5. \A k \in JobIds : Visible(k)' = View(db'[k].job)
  BY <1>3 DEF Visible
<1>6. Ledger!LedgerNext
  BY <1>2, <1>3, <1>5, RecoverySeen
<1> QED BY <1>4, <1>6 DEF Seen

LEMMA RestartImplements ==
    ASSUME LedgerInv, QueueInv', Restart
    PROVE  LedgerInv' /\ Seen
<1>0. ~up /\ up' /\ QueueInv /\ RowsBound /\ unpublished' = {}
      /\ jobs' = [j \in JobIds |-> db'[j].job]
  BY DEF LedgerInv, Restart
<1>1. PICK first \in FirstPendingSeq : db' = RecoveredTable(RunningRows, first)
  BY DEF Restart
<1>2. RowsBound' /\ \A k \in JobIds : db'[k].job.req = db[k].job.req
  BY <1>1, RecoveryKeepsRows
<1>3. \A k \in JobIds : (Stored(k)' <=> Stored(k)) /\ RowMeaningful(k)'
  BY <1>0, <1>1, RecoveryEffect
<1>4. \A k \in JobIds : /\ jobs'[k] = db'[k].job
                        /\ Known(k)' <=> Stored(k)
                        /\ ~Stored(k) => db'[k].job = NoJob
  <2> TAKE k \in JobIds
  <2>1. jobs'[k] = db'[k].job
    BY <1>0
  <2>2. ~Stored(k) => db'[k] = NoRow
    BY <1>3 DEF RowMeaningful, Stored
  <2>3. Stored(k) => db'[k].job.status # "absent"
    BY <1>3 DEF RowMeaningful, Stored
  <2>4. NoRow.job = NoJob /\ NoJob.status = "absent"
    BY DEF NoRow, NoJob
  <2> QED BY <2>1, <2>2, <2>3, <2>4 DEF Known
<1>5. PICK ix \in [Keys -> JobIds \cup {None}] :
        /\ \A k \in Keys : IF ix[k] = None
                           THEN \A j \in JobIds : Stored(j) => db[j].job.req.key # k
                           ELSE Stored(ix[k]) /\ db[ix[k]].job.req.key = k
        /\ index' = ix
  BY DEF Restart
<1>6. ASSUME NEW k \in Keys, ix[k] # None
      PROVE  (Known(index[k]) /\ jobs[index[k]].req.key = k)'
  <2>1. ix[k] \in JobIds /\ Stored(ix[k]) /\ db[ix[k]].job.req.key = k
    BY <1>5, <1>6
  <2> QED BY <1>2, <1>4, <1>5, <2>1 DEF Known
<1>7. ASSUME NEW j \in JobIds, Stored(j)
      PROVE  jobs'[j].req \in Requests /\ index'[jobs'[j].req.key] = j
  <2>1. PICK r \in Requests : r = db[j].job.req /\ r = jobs'[j].req /\ r.key \in Keys
    BY <1>0, <1>2, <1>4, <1>7 DEF RowsBound, Keys
  <2>2. ix[r.key] # None
    BY <1>5, <1>7, <2>1
  <2>3. ix[r.key] \in JobIds /\ Stored(ix[r.key]) /\ db[ix[r.key]].job.req.key = r.key
    BY <1>5, <2>1, <2>2
  <2>4. ix[r.key] = j
    BY <1>0, <1>7, <2>1, <2>3 DEF RowsBound
  <2> QED BY <1>5, <2>1, <2>4
<1>8. Bound' /\ UnpublishedAreNew'
  BY <1>0, <1>4, <1>5, <1>6, <1>7 DEF Bound, UnpublishedAreNew
<1>9. LedgerInv'
  BY <1>0, <1>8, TableFollows
<1>10. ASSUME NEW k \in JobIds
       PROVE  Visible(k)' = View(db'[k].job)
  <2>1. CASE Stored(k)
    BY <1>0, <1>4, <2>1 DEF Visible, Published, View, IsHighQuality
  <2>2. CASE ~Stored(k)
    BY <1>0, <1>4, <2>2 DEF Visible, Published
  <2> QED BY <2>1, <2>2
<1>11. RunningRows \in SUBSET RunningRows
  OBVIOUS
<1>12. Ledger!LedgerNext
  BY <1>0, <1>1, <1>10, <1>11, RecoverySeen
<1> QED BY <1>9, <1>12 DEF Seen

-----------------------------------------------------------------------------

LEMMA LedgerStep ==
    ASSUME LedgerInv, [Next]_vars
    PROVE  LedgerInv' /\ Seen
<1>0. QueueInv /\ QueueInv'
  BY QueueStep DEF LedgerInv
<1>1. CASE UNCHANGED vars
  <2>1. UNCHANGED <<up, jobs, index, unpublished, db>>
    BY <1>1 DEF vars, memory, disk
  <2>2. LedgerInv'
    BY <1>0, <2>1 DEF LedgerInv, Bound, UnpublishedAreNew, RowsBound, Known, Stored
  <2>3. \A k \in JobIds : Visible(k)' = Visible(k)
    BY <2>1 DEF Visible, Published, Known, View, IsHighQuality
  <2> QED BY <2>2, <2>3 DEF Seen, Life
<1>2. CASE PersistFails
  <2>1. up /\ UNCHANGED <<up, jobs, index, unpublished>>
    BY <1>2 DEF PersistFails, CanCreate, CanPublish, RequireRunning, CanRetry
  <2> QED BY <1>0, <2>1, MemoryKept
<1>3. ASSUME NEW j \in JobIds, DiscardUnlinkFails(j)
      PROVE  LedgerInv' /\ Seen
  <2>1. up /\ UNCHANGED <<up, jobs, index, unpublished>>
    BY <1>3 DEF DiscardUnlinkFails, CanDiscard, memory
  <2> QED BY <1>0, <2>1, MemoryKept
<1> QED BY <1>0, <1>1, <1>2, <1>3, CreateImplements, PublishImplements,
           DiscardImplements, StartNextImplements, StartImplements, SucceedImplements,
           FailImplements, RetryImplements, CrashImplements, RestartImplements,
           RestartInterruptedImplements
        DEF Next, EnqueueJob

(***************************************************************************)
(* Ownership of keys holds in every reachable state of the queue.          *)
(***************************************************************************)
THEOREM LedgerInvariant == Spec => []LedgerInv
<1>1. Init => LedgerInv
  <2> SUFFICES ASSUME Init PROVE LedgerInv
    OBVIOUS
  <2>1. QueueInv
    BY QueueInit
  <2>2. Bound /\ UnpublishedAreNew
    BY DEF Init, Bound, UnpublishedAreNew, Known, NoJob
  <2>3. RowsBound
    BY DEF Init, RowsBound, Stored, NoRow
  <2> QED BY <2>1, <2>2, <2>3 DEF LedgerInv
<1>2. LedgerInv /\ [Next]_vars => LedgerInv'
  BY LedgerStep
<1> QED BY <1>1, <1>2, PTL DEF Spec

(***************************************************************************)
(* Idempotency: _idempotency_index binds a key to the one known job that   *)
(* carries it, and no two rows share a key, so the UNIQUE constraint never *)
(* fires and a repeated request never gets a second job.                   *)
(***************************************************************************)
THEOREM KeysAreExact == Spec => []IndexExact
<1>1. LedgerInv => IndexExact
  BY DEF LedgerInv, Bound, RowsBound, IndexExact
<1> QED BY <1>1, LedgerInvariant, PTL

(***************************************************************************)
(* The queue implements the ledger, whatever creations, publications and   *)
(* claims race and wherever storage fails or the process dies.             *)
(***************************************************************************)
THEOREM QueueImplementsLedger == Spec => ImplementsLedger
<1>1. Init => Ledger!LedgerInit
  <2> SUFFICES ASSUME Init PROVE Ledger!LedgerInit
    OBVIOUS
  <2>1. \A k \in JobIds : Visible(k) = Ledger!NotThere
    BY NoJobView DEF Init, Visible, Published, Known, NoJob
  <2> QED BY <2>1 DEF Ledger!LedgerInit
<1>2. LedgerInv /\ [Next]_vars => [Ledger!LedgerNext]_([j \in JobIds |-> Visible(j)])
  BY LedgerStep DEF Seen, Life
<1> QED BY <1>1, <1>2, LedgerInvariant, PTL DEF Spec, ImplementsLedger, Ledger!LedgerSpec

-----------------------------------------------------------------------------
(***************************************************************************)
(* What a crash and the restarts after it do to the jobs callers had seen. *)
(***************************************************************************)

(* While the server is down: the row of a job is the record in memory when *)
(* the process died, or that of a running job which an interrupted         *)
(* recovery has requeued already.                                          *)
RowFromBefore(j) ==
    /\ Stored(j) =>
        /\ Published(j)
        /\ \/ db[j].job = jobs[j]
           \/ /\ jobs[j].status = "running"
              /\ db[j].job = Requeued(jobs[j]) /\ db[j].seq # None
        /\ jobs[j].status = "queued" => (db[j].seq # None <=> IsPending(j))
    /\ Published(j) /\ ~Stored(j) => jobs[j].status = "queued"
RowsFromBefore == ~up => \A j \in JobIds : RowFromBefore(j)

(* Every other step is one of a running server that keeps running.         *)
LEMMA OnlyCrashAndRestart ==
    ASSUME Next
    PROVE  Crash \/ Restart \/ RestartInterrupted \/ (up /\ up')
<1> DEFINE Runs == up /\ up'
<1>1. \A j \in JobIds, r \in Requests, enqueue \in BOOLEAN, publish \in BOOLEAN :
        CreateJob(j, r, enqueue, publish) => Runs
  BY DEF CreateJob, CanCreate
<1>2. \A j \in JobIds, enqueue \in BOOLEAN : PublishJob(j, enqueue) => Runs
  BY DEF PublishJob, CanPublish
<1>3. \A j \in JobIds : EnqueueJob(j) => Runs
  BY <1>2 DEF EnqueueJob
<1>4. \A j \in JobIds : DiscardQueuedJob(j) \/ DiscardUnlinkFails(j) => Runs
  BY DEF DiscardQueuedJob, DiscardUnlinkFails, CanDiscard
<1>5. StartNextJob => Runs
  BY DEF StartNextJob
<1>6. \A j \in JobIds : StartJob(j) => Runs
  BY DEF StartJob
<1>7. \A j \in JobIds, result \in SUBSET Contents : MarkSucceeded(j, result) => Runs
  BY DEF MarkSucceeded, RequireRunning
<1>8. \A j \in JobIds, retryable \in BOOLEAN : MarkFailed(j, retryable) => Runs
  BY DEF MarkFailed, RequireRunning
<1>9. \A j \in JobIds : RetryFailedJob(j) => Runs
  BY DEF RetryFailedJob, CanRetry
<1>10. ASSUME PersistFails PROVE Runs
  <2>1. up
    BY <1>10 DEF PersistFails, CanCreate, CanPublish, RequireRunning, CanRetry
  <2>2. up' = up
    BY <1>10 DEF PersistFails
  <2> QED BY <2>1, <2>2
<1>11. Crash \/ Restart \/ RestartInterrupted \/ Runs
  <2> HIDE DEF Runs
  <2> QED BY <1>1, <1>2, <1>3, <1>4, <1>5, <1>6, <1>7, <1>8, <1>9, <1>10 DEF Next
<1> QED BY <1>11

LEMMA CrashLeavesRows ==
    ASSUME QueueInv, Crash
    PROVE  \A k \in JobIds : RowFromBefore(k)'
<1>0. /\ up /\ jobs' = jobs /\ unpublished' = unpublished /\ pending' = pending
      /\ db \in [JobIds -> Row]
  BY DEF QueueInv, Crash, TypeOK, memory
<1> TAKE k \in JobIds
<1>1. JobConsistent(k)
  BY <1>0, ConsistentWhileUp
<1>2. \/ db'[k] = db[k]
      \/ db'[k] = NoRow /\ jobs[k].status = "queued"
  BY <1>0 DEF Crash, DeleteRow, CanDiscard
<1>3. Published(k)' <=> Published(k)
  BY <1>0 DEF Published, Known
<1>4. IsPending(k)' <=> IsPending(k)
  BY <1>0 DEF IsPending
<1>5. CASE db'[k] = NoRow /\ jobs[k].status = "queued"
  <2>1. ~Stored(k)'
    BY <1>5 DEF Stored, NoRow
  <2> QED BY <1>0, <1>5, <2>1 DEF RowFromBefore
<1>6. CASE db'[k] = db[k]
  <2>1. Stored(k)' <=> Stored(k)
    BY <1>6 DEF Stored
  <2> QED BY <1>0, <1>1, <1>3, <1>4, <1>6, <2>1 DEF RowFromBefore, JobConsistent
<1> QED BY <1>2, <1>5, <1>6

LEMMA RecoveryLeavesRows ==
    ASSUME QueueInv, RowsFromBefore, RestartInterrupted
    PROVE  \A k \in JobIds : RowFromBefore(k)'
<1>0. /\ ~up /\ jobs' = jobs /\ unpublished' = unpublished /\ pending' = pending /\ TypeOK
  BY DEF QueueInv, RestartInterrupted, memory
<1>1. PICK last \in RunningRows, first \in FirstPendingSeq :
        db' = RecoveredTable({j \in RunningRows : db[j].rowid <= db[last].rowid}, first)
  BY DEF RestartInterrupted
<1>2. PICK done \in SUBSET RunningRows : db' = RecoveredTable(done, first)
  BY <1>1
<1> TAKE k \in JobIds
<1>3. /\ Stored(k)' <=> Stored(k)
      /\ k \in done => db'[k].job = Requeued(db[k].job)
      /\ k \notin done => db'[k] = db[k]
  BY <1>2, RecoveryEffect
<1>4. Published(k)' <=> Published(k)
  BY <1>0 DEF Published, Known
<1>5. IsPending(k)' <=> IsPending(k)
  BY <1>0 DEF IsPending
<1>6. RowFromBefore(k)
  BY <1>0 DEF RowsFromBefore
<1>7. CASE k \in done
  <2>1. Stored(k) /\ db[k].job.status = "running"
    BY <1>7 DEF RunningRows
  <2>2. jobs[k] \in JobRecord
    BY <1>0 DEF TypeOK
  <2>3. Requeued(jobs[k]).status = "queued"
    BY <2>2 DEF Requeued, JobRecord
  <2>4. db[k].job = jobs[k]
    BY <1>6, <2>1, <2>3 DEF RowFromBefore
  <2>5. db'[k].seq \in Int
    BY <1>0, <1>2, <1>7, RecoveryType
  <2>6. db'[k].seq # None
    BY <2>5, ConstantsAssumption
  <2> QED BY <1>0, <1>3, <1>4, <1>6, <1>7, <2>1, <2>4, <2>6 DEF RowFromBefore
<1>8. CASE k \notin done
  BY <1>0, <1>3, <1>4, <1>5, <1>6, <1>8 DEF RowFromBefore
<1> QED BY <1>7, <1>8

LEMMA RowsFromBeforeStep ==
    ASSUME QueueInv, RowsFromBefore, [Next]_vars
    PROVE  RowsFromBefore'
<1>1. CASE UNCHANGED vars
  <2>1. UNCHANGED <<up, jobs, unpublished, pending, db>>
    BY <1>1 DEF vars, memory, disk
  <2> QED BY <2>1 DEF RowsFromBefore, RowFromBefore, Stored, Published, Known, IsPending
<1>2. CASE Crash
  BY <1>2, CrashLeavesRows DEF RowsFromBefore
<1>3. CASE RestartInterrupted
  BY <1>3, RecoveryLeavesRows DEF RowsFromBefore
<1>4. CASE Next /\ ~Crash /\ ~RestartInterrupted
  <2>1. up'
    BY <1>4, OnlyCrashAndRestart DEF Restart
  <2> QED BY <2>1 DEF RowsFromBefore
<1> QED BY <1>1, <1>2, <1>3, <1>4

LEMMA RestartKeepsJobs ==
    ASSUME QueueInv, RowsFromBefore, Restart, NEW j \in JobIds
    PROVE  /\ ~Published(j) => jobs'[j] = NoJob
           /\ Published(j) /\ jobs[j].status \in TerminalStatuses => jobs'[j] = jobs[j]
           /\ Published(j) /\ jobs[j].status = "running" =>
                jobs'[j] = Requeued(jobs[j]) /\ j \in ToSet(pending')
           /\ Published(j) /\ jobs[j].status = "queued" =>
                \/ jobs'[j] = jobs[j] /\ (j \in ToSet(pending') <=> IsPending(j))
                \/ jobs'[j] = NoJob
<1> DEFINE queue == RunningRows \cup PendingRows
<1>0. /\ db \in [JobIds -> Row] /\ TypeOK /\ jobs[j] \in JobRecord
      /\ RowMeaningful(j) /\ RowFromBefore(j)
  BY DEF QueueInv, TypeOK, RowsFromBefore, Restart
<1>1. PICK first \in FirstPendingSeq : db' = RecoveredTable(RunningRows, first)
  BY DEF Restart
<1>2. jobs'[j] = db'[j].job /\ pending' \in SortedBySequence(queue, db')
  BY DEF Restart
<1>3. \A k \in JobIds :
        /\ k \in RunningRows => db'[k].job = Requeued(db[k].job)
        /\ k \notin RunningRows => db'[k] = db[k]
  BY <1>1, RecoveryEffect
<1>4. ToSet(pending') = queue
  <2>1. \A k \in RunningRows : db'[k].seq \in Int
    BY <1>0, <1>1, RecoveryType
  <2>2. \A k \in PendingRows \ RunningRows : db'[k].seq \in Int
    BY <1>0, <1>3 DEF PendingRows, Row
  <2>3. \A k \in queue : k \in JobIds /\ db'[k].seq \in Int
    BY <2>1, <2>2 DEF RunningRows, PendingRows
  <2>4. db' \in [JobIds -> Row]
    BY <1>0, <1>1, RecoveryType
  <2> HIDE DEF queue
  <2> QED BY <1>2, <2>3, <2>4, SortedEffect
<1>5. j \in queue <=> Stored(j) /\ \/ db[j].job.status = "running"
                                   \/ db[j].job.status = "queued" /\ db[j].seq # None
  BY DEF RunningRows, PendingRows
<1>6. ~Stored(j) => jobs'[j] = NoJob
  BY <1>0, <1>2, <1>3 DEF RowMeaningful, RunningRows, NoRow
<1>7. Requeued(jobs[j]).status = "queued"
  BY <1>0 DEF Requeued, JobRecord
<1>8. ASSUME Stored(j), jobs[j].status = "running"
      PROVE  jobs'[j] = Requeued(jobs[j]) /\ j \in ToSet(pending')
  <2>1. CASE db[j].job = jobs[j]
    BY <1>2, <1>3, <1>4, <1>5, <1>8, <2>1 DEF RunningRows
  <2>2. CASE db[j].job = Requeued(jobs[j]) /\ db[j].seq # None
    BY <1>2, <1>3, <1>4, <1>5, <1>7, <1>8, <2>2 DEF RunningRows
  <2> QED BY <1>0, <1>8, <2>1, <2>2 DEF RowFromBefore
<1>9. ASSUME Stored(j), jobs[j].status # "running"
      PROVE  db[j].job = jobs[j] /\ jobs'[j] = jobs[j]
  BY <1>0, <1>2, <1>3, <1>9 DEF RowFromBefore, RunningRows
<1>10. ASSUME Stored(j), jobs[j].status = "queued"
       PROVE  j \in ToSet(pending') <=> IsPending(j)
  BY <1>0, <1>4, <1>5, <1>9, <1>10 DEF RowFromBefore
<1>11. Stored(j) => Published(j)
  BY <1>0 DEF RowFromBefore
<1>12. Published(j) /\ ~Stored(j) => jobs[j].status = "queued"
  BY <1>0 DEF RowFromBefore
<1> QED BY <1>6, <1>8, <1>9, <1>10, <1>11, <1>12 DEF TerminalStatuses

(***************************************************************************)
(* A crash and any number of interrupted restarts bring a settled job back *)
(* unchanged and a running one back claimable with its attempts, and keep  *)
(* or drop a queued one whole; a job nobody saw is gone.                   *)
(***************************************************************************)
THEOREM CrashesKeepPublishedJobs == Spec => CrashKeepsPublishedJobs
<1> DEFINE Kept(j) ==
            CASE ~Published(j) -> jobs'[j] = NoJob
              [] Published(j) /\ jobs[j].status \in TerminalStatuses ->
                    jobs'[j] = jobs[j]
              [] Published(j) /\ jobs[j].status = "running" ->
                    jobs'[j] = Requeued(jobs[j]) /\ j \in ToSet(pending')
              [] Published(j) /\ jobs[j].status = "queued" ->
                    \/ jobs'[j] = jobs[j] /\ (j \in ToSet(pending') <=> IsPending(j))
                    \/ jobs'[j] = NoJob
           Across == ~up /\ up' => \A j \in JobIds : Kept(j)
<1>1. Init => RowsFromBefore
  BY DEF Init, RowsFromBefore
<1>2. QueueInv /\ RowsFromBefore /\ [Next]_vars => RowsFromBefore'
  BY RowsFromBeforeStep
<1>3. QueueInv /\ RowsFromBefore /\ [Next]_vars => [Across]_vars
  <2> SUFFICES ASSUME QueueInv, RowsFromBefore, Next, ~up, up', NEW j \in JobIds
               PROVE  Kept(j)
    OBVIOUS
  <2>1. Restart
    BY OnlyCrashAndRestart DEF Crash, RestartInterrupted
  <2>2. jobs[j].status \in {"queued", "running", "absent"} \cup TerminalStatuses
    BY DEF QueueInv, TypeOK, JobRecord, Statuses
  <2>3. Published(j) => jobs[j].status # "absent"
    BY DEF Published, Known
  <2> QED BY <2>1, <2>2, <2>3, RestartKeepsJobs DEF TerminalStatuses
<1> QED BY <1>1, <1>2, <1>3, QueueInvariant, PTL DEF Spec, CrashKeepsPublishedJobs

-----------------------------------------------------------------------------
(***************************************************************************)
(* The order of the queue: that of the sequences in the table, ties broken *)
(* by rowid.                                                               *)
(***************************************************************************)
InOrder ==
    \A j, k \in JobIds :
        Ahead(pending, j, k) /\ Stored(j) /\ Stored(k) => Before(db, j, k)

PendingAreQueued == \A j \in JobIds : IsPending(j) => jobs[j].status = "queued"

NextIsLast == up => \A j \in JobIds : IsPending(j) => pendingSeq[j] < nextSeq

(* A discard that loses its row leaves a deque the table knows nothing of. *)
OrderInv == ~UnlinkMayFail => InOrder /\ PendingAreQueued /\ NextIsLast

LEMMA AheadArePending ==
    ASSUME NEW j, NEW k, Ahead(pending, j, k)
    PROVE  IsPending(j) /\ IsPending(k)
  BY DEF Ahead, IsPending, ToSet

(* Leaving the deque does not change the order of the others.              *)
LEMMA AheadAfterRemoval ==
    ASSUME NEW S, NEW s \in Seq(S), NEW e, NEW j, NEW k, Ahead(RemoveFirst(s, e), j, k)
    PROVE  Ahead(s, j, k)
<1>1. CASE \E i \in 1..Len(s) : s[i] = e
  <2> DEFINE I == {n \in 1..Len(s) : s[n] = e}
             i == Min(I)
             t == RemoveAt(s, i)
  <2>1. I \in SUBSET Nat /\ I # {}
    BY <1>1
  <2>2. i \in I
    BY <2>1, MinOfNaturals
  <2>3. RemoveFirst(s, e) = t
    BY <1>1, <2>1 DEF RemoveFirst, SelectInSeq
  <2> HIDE DEF i
  <2>4. i \in 1..Len(s)
    BY <2>2
  <2>5. /\ t \in Seq(S)
        /\ Len(t) = Len(s) - 1
        /\ \A n \in 1..(Len(s) - 1) : t[n] = IF n < i THEN s[n] ELSE s[n + 1]
    BY <2>4, RemoveAtProperties
  <2> HIDE DEF t
  <2>6. DOMAIN s = 1..Len(s) /\ DOMAIN t = 1..(Len(s) - 1) /\ Len(s) \in Nat
    BY <2>5
  <2>7. PICK m, n \in 1..(Len(s) - 1) : m < n /\ t[m] = j /\ t[n] = k
    BY <2>3, <2>6 DEF Ahead
  <2> DEFINE old(x) == IF x < i THEN x ELSE x + 1
  <2>8. old(m) \in 1..Len(s) /\ old(n) \in 1..Len(s) /\ old(m) < old(n)
    BY <2>4, <2>6, <2>7
  <2>9. s[old(m)] = j /\ s[old(n)] = k
    BY <2>4, <2>5, <2>7
  <2> HIDE DEF old
  <2> QED BY <2>6, <2>8, <2>9 DEF Ahead
<1>2. CASE ~ \E i \in 1..Len(s) : s[i] = e
  BY <1>2 DEF RemoveFirst
<1> QED BY <1>1, <1>2

(* A step after which the deque is a part of what it was, in the same      *)
(* order, and its rows have kept their place.                              *)
LEMMA OrderKept ==
    ASSUME OrderInv, QueueInv, QueueInv', up, up',
           \A j, k \in JobIds : Ahead(pending', j, k) => Ahead(pending, j, k),
           \A j \in JobIds : IsPending(j)' /\ Stored(j) => db'[j].rowid = db[j].rowid,
           \A j \in JobIds : IsPending(j)' =>
               IsPending(j) /\ pendingSeq'[j] = pendingSeq[j],
           nextSeq' \in {nextSeq, nextSeq + 1}
    PROVE  OrderInv'
<1> SUFFICES ASSUME ~UnlinkMayFail
             PROVE  InOrder' /\ PendingAreQueued' /\ NextIsLast'
  BY DEF OrderInv
<1>1. /\ InOrder /\ NextIsLast /\ TypeOK /\ TypeOK'
  BY DEF OrderInv, QueueInv
<1>2. ASSUME NEW j \in JobIds, IsPending(j)'
      PROVE  /\ jobs'[j].status = "queued"
             /\ pendingSeq[j] \in Int
             /\ Stored(j) /\ db'[j].rowid = db[j].rowid
             /\ db'[j].seq = pendingSeq[j] /\ db[j].seq = pendingSeq[j]
  <2>1. IsPending(j) /\ pendingSeq'[j] = pendingSeq[j]
    BY <1>2
  <2>2. JobConsistent(j)
    BY ConsistentWhileUp
  <2>3. jobs'[j].status = "queued" /\ Stored(j)' /\ db'[j].seq = pendingSeq'[j]
    BY <1>2 DEF QueueInv, PendingExact, DurableMirror, Published
  <2>4. Stored(j) /\ db[j].seq = pendingSeq[j] /\ pendingSeq[j] # None
    BY <2>1, <2>2 DEF JobConsistent
  <2>5. pendingSeq[j] \in Int
    BY <1>1, <2>4 DEF TypeOK
  <2> QED BY <1>2, <2>1, <2>3, <2>4, <2>5
<1>3. InOrder'
  <2> SUFFICES ASSUME NEW j \in JobIds, NEW k \in JobIds, Ahead(pending', j, k)
               PROVE  Before(db', j, k)
    BY DEF InOrder, Ahead, Before
  <2>1. IsPending(j)' /\ IsPending(k)'
    BY DEF Ahead, IsPending, ToSet
  <2>2. Before(db, j, k)
    BY <1>1, <1>2, <2>1 DEF InOrder
  <2> QED BY <1>2, <2>1, <2>2 DEF Before
<1>4. PendingAreQueued'
  BY <1>2 DEF PendingAreQueued
<1>5. NextIsLast'
  <2> SUFFICES ASSUME NEW j \in JobIds, IsPending(j)'
               PROVE  pendingSeq'[j] < nextSeq'
    BY DEF NextIsLast
  <2>1. pendingSeq'[j] = pendingSeq[j] /\ pendingSeq[j] < nextSeq /\ pendingSeq[j] \in Int
    BY <1>1, <1>2 DEF NextIsLast
  <2>2. nextSeq \in Int
    BY <1>1 DEF TypeOK
  <2> QED BY <2>1, <2>2
<1> QED BY <1>3, <1>4, <1>5

(* A step that puts one job at the end.                                    *)
LEMMA OrderAppended ==
    ASSUME OrderInv, QueueInv, QueueInv', up, up', NEW j \in JobIds,
           AppendPending(j), ~IsPending(j),
           \A k \in JobIds \ {j} : db'[k] = db[k]
    PROVE  OrderInv'
<1> SUFFICES ASSUME ~UnlinkMayFail
             PROVE  InOrder' /\ PendingAreQueued' /\ NextIsLast'
  BY DEF OrderInv
<1>1. InOrder /\ NextIsLast /\ TypeOK /\ TypeOK' /\ pending \in Seq(JobIds) /\ nextSeq \in Int
  BY DEF OrderInv, QueueInv, TypeOK
<1>2. /\ IsPending(j)' /\ pendingSeq'[j] = nextSeq
      /\ \A k \in JobIds \ {j} : /\ IsPending(k)' <=> IsPending(k)
                                 /\ pendingSeq'[k] = pendingSeq[k]
  BY <1>1, ConsistentWhileUp, PendingEffect
<1>3. ASSUME NEW k \in JobIds, IsPending(k)'
      PROVE  jobs'[k].status = "queued" /\ db'[k].seq = pendingSeq'[k]
  BY <1>3 DEF QueueInv, PendingExact, DurableMirror, Published
<1>4. ASSUME NEW k \in JobIds, IsPending(k)
      PROVE  pendingSeq[k] \in Int /\ Stored(k) /\ pendingSeq[k] < nextSeq
  <2>1. JobConsistent(k)
    BY ConsistentWhileUp
  <2>2. Stored(k) /\ pendingSeq[k] # None
    BY <1>4, <2>1 DEF JobConsistent
  <2>3. pendingSeq[k] \in Int
    BY <1>1, <2>2 DEF TypeOK
  <2> QED BY <1>1, <1>4, <2>2, <2>3 DEF NextIsLast
<1>5. ASSUME NEW a \in JobIds, NEW b \in JobIds, Ahead(pending', a, b)
      PROVE  a # j /\ IsPending(a) /\ (b = j \/ Ahead(pending, a, b))
  <2>1. /\ pending' = Append(pending, j) /\ DOMAIN pending = 1..Len(pending)
        /\ Len(pending) \in Nat
        /\ DOMAIN pending' = 1..(Len(pending) + 1)
        /\ \A n \in 1..Len(pending) : pending'[n] = pending[n]
        /\ pending'[Len(pending) + 1] = j
    BY <1>1 DEF AppendPending
  <2>2. PICK m, n \in DOMAIN pending' : m < n /\ pending'[m] = a /\ pending'[n] = b
    BY <1>5 DEF Ahead
  <2>3. m \in 1..Len(pending) /\ pending[m] = a
    BY <2>1, <2>2
  <2>4. IsPending(a)
    BY <2>1, <2>3 DEF IsPending, ToSet
  <2>5. CASE n = Len(pending) + 1
    BY <2>1, <2>2, <2>4, <2>5
  <2>6. CASE n # Len(pending) + 1
    <3>1. n \in 1..Len(pending) /\ pending[n] = b
      BY <2>1, <2>2, <2>6
    <3> QED BY <2>1, <2>2, <2>3, <2>4, <3>1 DEF Ahead
  <2> QED BY <2>5, <2>6
<1>6. InOrder'
  <2> SUFFICES ASSUME NEW a \in JobIds, NEW b \in JobIds, Ahead(pending', a, b)
               PROVE  Before(db', a, b)
    BY DEF InOrder, Ahead, Before
  <2>1. a # j /\ IsPending(a) /\ (b = j \/ Ahead(pending, a, b))
    BY <1>5
  <2>2. IsPending(a)' /\ IsPending(b)'
    BY DEF Ahead, IsPending, ToSet
  <2>3. CASE b = j
    <3>1. db'[b].seq = nextSeq /\ db'[a].seq = pendingSeq[a]
      BY <1>2, <1>3, <2>1, <2>2, <2>3
    <3> QED BY <1>4, <2>1, <3>1 DEF Before
  <2>4. CASE b # j
    <3>1. IsPending(b) /\ db'[a] = db[a] /\ db'[b] = db[b]
      BY <1>2, <2>1, <2>2, <2>4
    <3>2. Before(db, a, b)
      BY <1>1, <1>4, <2>1, <2>4, <3>1 DEF InOrder
    <3> QED BY <3>1, <3>2 DEF Before
  <2> QED BY <2>3, <2>4
<1>7. PendingAreQueued'
  BY <1>3 DEF PendingAreQueued
<1>8. NextIsLast'
  <2> SUFFICES ASSUME NEW k \in JobIds, IsPending(k)'
               PROVE  pendingSeq'[k] < nextSeq'
    BY DEF NextIsLast
  <2>1. nextSeq' = nextSeq + 1
    BY DEF AppendPending
  <2>2. CASE k = j
    BY <1>1, <1>2, <2>1, <2>2
  <2>3. CASE k # j
    <3>1. IsPending(k) /\ pendingSeq'[k] = pendingSeq[k]
      BY <1>2, <2>3
    <3> QED BY <1>1, <1>4, <2>1, <3>1
  <2> QED BY <2>2, <2>3
<1> QED BY <1>6, <1>7, <1>8

LEMMA RowKept ==
    ASSUME TypeOK, NEW j \in JobIds, NEW rec, NEW seq, Persist(j, rec, seq)
    PROVE  \A k \in JobIds : Stored(k) => db'[k].rowid = db[k].rowid
<1>1. PICK top : db' = [db EXCEPT ![j] =
                 [job |-> rec, seq |-> seq,
                  rowid |-> IF Stored(j) THEN db[j].rowid ELSE top + 1]]
  BY DEF Persist
<1>2. db \in [JobIds -> Row]
  BY DEF TypeOK
<1> QED BY <1>1, <1>2

(* The deque and the sequences stay as they are.                           *)
LEMMA DequeSame ==
    ASSUME UNCHANGED <<pending, pendingSeq>>
    PROVE  /\ \A j, k \in JobIds : Ahead(pending', j, k) => Ahead(pending, j, k)
           /\ \A j \in JobIds : IsPending(j)' => IsPending(j) /\ pendingSeq'[j] = pendingSeq[j]
  BY DEF Ahead, IsPending, ToSet

LEMMA OrderWhilePersisting ==
    ASSUME OrderInv, QueueInv, QueueInv', up, up', NEW j \in JobIds, NEW rec, NEW seq,
           Persist(j, rec, seq), UNCHANGED <<pending, pendingSeq, nextSeq>>
    PROVE  OrderInv'
<1>1. TypeOK
  BY DEF QueueInv
<1> QED BY <1>1, RowKept, DequeSame, OrderKept

LEMMA OrderWhenLeaving ==
    ASSUME OrderInv, QueueInv, QueueInv', up, up', NEW j \in JobIds,
           LeavePending(j), \A k \in JobIds \ {j} : db'[k] = db[k], nextSeq' = nextSeq
    PROVE  OrderInv'
<1>1. TypeOK /\ IsInjective(pending) /\ pending \in Seq(JobIds)
  BY ConsistentWhileUp DEF QueueInv, TypeOK
<1>2. /\ ~IsPending(j)'
      /\ \A k \in JobIds \ {j} : /\ IsPending(k)' <=> IsPending(k)
                                 /\ pendingSeq'[k] = pendingSeq[k]
  BY <1>1, PendingEffect
<1>3. \A a, b \in JobIds : Ahead(pending', a, b) => Ahead(pending, a, b)
  BY <1>1, AheadAfterRemoval DEF LeavePending
<1> QED BY <1>2, <1>3, OrderKept

(* start_next_job takes the head: the deque holds queued jobs only.        *)
LEMMA OrderWhenClaiming ==
    ASSUME OrderInv, QueueInv, QueueInv', StartNextJob
    PROVE  OrderInv'
<1>0. /\ TypeOK /\ up /\ up' /\ pending \in Seq(JobIds) /\ nextSeq' = nextSeq
      /\ pendingSeq \in [JobIds -> Int \cup {None}]
  BY DEF QueueInv, StartNextJob, TypeOK
<1>1. NextClaimable \in 1..Len(pending)
  BY <1>0, NextClaimableProperties DEF StartNextJob
<1> DEFINE i == NextClaimable
           j == pending[i]
<1>2. /\ j \in JobIds /\ pending' = SubSeq(pending, i + 1, Len(pending))
      /\ Persist(j, [jobs[j] EXCEPT !.status = "running"], pendingSeq[j])
      /\ pendingSeq' = [k \in JobIds |->
                          IF \E n \in 1..i : pending[n] = k THEN None ELSE pendingSeq[k]]
  BY <1>0, <1>1 DEF StartNextJob, Replace
<1> HIDE DEF i, j
<1>3. /\ Len(pending) \in Nat /\ DOMAIN pending = 1..Len(pending) /\ i \in 1..Len(pending)
      /\ DOMAIN pending' = 1..(Len(pending) - i)
      /\ \A n \in 1..(Len(pending) - i) : pending'[n] = pending[n + i]
  <2>1. i \in 1..Len(pending) /\ Len(pending) \in Nat
    BY <1>0, <1>1 DEF i
  <2>2. \A n \in (i + 1)..Len(pending) : pending[n] \in JobIds
    BY <1>0, <2>1
  <2>3. /\ SubSeq(pending, i + 1, Len(pending)) \in Seq(JobIds)
        /\ Len(SubSeq(pending, i + 1, Len(pending))) =
             IF i + 1 <= Len(pending) THEN Len(pending) - (i + 1) + 1 ELSE 0
        /\ \A n \in 1..(Len(pending) - (i + 1) + 1) :
             SubSeq(pending, i + 1, Len(pending))[n] = pending[(i + 1) + n - 1]
    BY <2>1, <2>2, SubSeqProperties
  <2>4. PICK len \in Nat, at \in Nat : at \in 1..len /\ len = Len(pending) /\ at = i
    BY <2>1
  <2>5. /\ len - (at + 1) + 1 = len - at
        /\ (IF at + 1 <= len THEN len - (at + 1) + 1 ELSE 0) = len - at
        /\ \A n \in 1..(len - at) : (at + 1) + n - 1 = n + at
    BY <2>4
  <2> QED BY <1>0, <1>2, <2>1, <2>3, <2>4, <2>5
<1>4. ASSUME NEW a \in JobIds, NEW b \in JobIds, Ahead(pending', a, b)
      PROVE  Ahead(pending, a, b)
  <2>1. PICK m, n \in 1..(Len(pending) - i) : m < n /\ pending'[m] = a /\ pending'[n] = b
    BY <1>3, <1>4 DEF Ahead
  <2>2. m + i \in 1..Len(pending) /\ n + i \in 1..Len(pending) /\ m + i < n + i
    BY <1>3, <2>1
  <2> QED BY <1>3, <2>1, <2>2 DEF Ahead
<1>5. ASSUME NEW k \in JobIds, IsPending(k)'
      PROVE  IsPending(k) /\ pendingSeq'[k] = pendingSeq[k]
  <2>1. PICK n \in 1..(Len(pending) - i) : pending'[n] = k
    BY <1>3, <1>5 DEF IsPending, ToSet
  <2>2. n + i \in 1..Len(pending) /\ pending[n + i] = k
    BY <1>3, <2>1
  <2>3. pendingSeq'[k] # None
    BY <1>0, <1>5 DEF QueueInv, PendingExact
  <2>4. pendingSeq'[k] = pendingSeq[k]
    BY <1>2, <2>3
  <2> QED BY <1>3, <2>2, <2>4 DEF IsPending, ToSet
<1>6. \A k \in JobIds : Stored(k) => db'[k].rowid = db[k].rowid
  BY <1>0, <1>2, RowKept
<1> QED BY <1>0, <1>4, <1>5, <1>6, OrderKept

LEMMA OrderWhileUp ==
    ASSUME OrderInv, QueueInv, QueueInv', Next, up, up'
    PROVE  OrderInv'
<1>0. TypeOK /\ nextSeq \in Int /\ db \in [JobIds -> Row]
  BY DEF QueueInv, TypeOK
<1>c. \A k \in JobIds : JobConsistent(k)
  BY ConsistentWhileUp
<1>1. ASSUME NEW j \in JobIds, NEW rec, NEW seq, Persist(j, rec, seq)
      PROVE  \A k \in JobIds \ {j} : db'[k] = db[k]
  BY <1>0, <1>1, PersistEffect
<1>2. ASSUME NEW j \in JobIds, NEW rec, NEW seq, Persist(j, rec, seq),
             AppendPending(j), jobs[j].status # "queued" \/ ~IsPending(j)
      PROVE  OrderInv'
  <2>1. ~IsPending(j)
    BY <1>2, <1>c DEF JobConsistent
  <2> QED BY <1>1, <1>2, <2>1, OrderAppended
<1>3. ASSUME db' = db, UNCHANGED <<pending, pendingSeq>>, nextSeq' \in {nextSeq, nextSeq + 1}
      PROVE  OrderInv'
  BY <1>3, DequeSame, OrderKept
<1>4. CASE \E j \in JobIds, r \in Requests, enqueue \in BOOLEAN, publish \in BOOLEAN :
             CreateJob(j, r, enqueue, publish)
  <2>1. PICK j \in JobIds, r \in Requests, enqueue \in BOOLEAN, publish \in BOOLEAN :
          CreateJob(j, r, enqueue, publish)
    BY <1>4
  <2>2. jobs[j].status # "queued"
    BY <2>1 DEF CreateJob, Known
  <2>3. CASE enqueue /\ publish
    BY <1>2, <2>1, <2>2, <2>3 DEF CreateJob
  <2>4. CASE publish /\ ~enqueue
    BY <2>1, <2>4, OrderWhilePersisting DEF CreateJob
  <2>5. CASE ~publish
    BY <1>3, <2>1, <2>5 DEF CreateJob, disk
  <2> QED BY <2>3, <2>4, <2>5
<1>5. ASSUME NEW j \in JobIds, NEW enqueue \in BOOLEAN, PublishJob(j, enqueue)
      PROVE  OrderInv'
  <2>1. CASE enqueue /\ ~IsPending(j)
    BY <1>2, <1>5, <2>1 DEF PublishJob
  <2>2. CASE ~(enqueue /\ ~IsPending(j))
    BY <1>5, <2>2, OrderWhilePersisting DEF PublishJob
  <2> QED BY <2>1, <2>2
<1>6. ASSUME NEW j \in JobIds, EnqueueJob(j)
      PROVE  OrderInv'
  BY <1>5, <1>6 DEF EnqueueJob
<1>7. ASSUME NEW j \in JobIds, DiscardQueuedJob(j)
      PROVE  OrderInv'
  <2>1. /\ LeavePending(j) /\ nextSeq' = nextSeq
        /\ \A k \in JobIds \ {j} : db'[k] = db[k]
    BY <1>0, <1>7 DEF DiscardQueuedJob, DeleteRow
  <2> QED BY <2>1, OrderWhenLeaving
<1>8. ASSUME NEW j \in JobIds, DiscardUnlinkFails(j)
      PROVE  OrderInv'
  BY <1>8 DEF DiscardUnlinkFails, OrderInv
<1>9. ASSUME NEW j \in JobIds, StartJob(j)
      PROVE  OrderInv'
  <2>1. /\ LeavePending(j) /\ nextSeq' = nextSeq
        /\ Persist(j, [jobs[j] EXCEPT !.status = "running"], pendingSeq[j])
    BY <1>9 DEF StartJob, Replace
  <2> QED BY <1>1, <2>1, OrderWhenLeaving
<1>10. ASSUME NEW j \in JobIds, NEW result \in SUBSET Contents, MarkSucceeded(j, result)
       PROVE  OrderInv'
  BY <1>10, OrderWhilePersisting DEF MarkSucceeded, Replace
<1>11. ASSUME NEW j \in JobIds, NEW retryable \in BOOLEAN, MarkFailed(j, retryable)
       PROVE  OrderInv'
  <2> DEFINE failed == [jobs[j] EXCEPT !.attempts = @ + 1, !.error = TRUE]
  <2>1. jobs[j].status = "running"
    BY <1>11 DEF MarkFailed, RequireRunning
  <2>2. CASE WillRequeue(j, retryable)
    <3>1. Persist(j, [failed EXCEPT !.status = "queued"], nextSeq) /\ AppendPending(j)
      BY <1>11, <2>2 DEF MarkFailed, Replace
    <3> HIDE DEF failed
    <3> QED BY <1>2, <2>1, <3>1
  <2>3. CASE ~WillRequeue(j, retryable)
    <3>1. /\ Persist(j, [failed EXCEPT !.status = "failed", !.retryable = retryable], None)
          /\ UNCHANGED <<pending, pendingSeq, nextSeq>>
      BY <1>11, <2>3 DEF MarkFailed, Replace
    <3> HIDE DEF failed
    <3> QED BY <3>1, OrderWhilePersisting
  <2> QED BY <2>2, <2>3
<1>12. ASSUME NEW j \in JobIds, RetryFailedJob(j)
       PROVE  OrderInv'
  <2>1. /\ Persist(j, [jobs[j] EXCEPT !.status = "queued", !.error = FALSE], nextSeq)
        /\ AppendPending(j) /\ jobs[j].status = "failed"
    BY <1>12 DEF RetryFailedJob, Replace, CanRetry
  <2> QED BY <1>2, <2>1
<1>13. ASSUME PersistFails PROVE OrderInv'
  BY <1>3, <1>13 DEF PersistFails, disk
<1> QED BY <1>4, <1>5, <1>6, <1>7, <1>8, <1>9, <1>10, <1>11, <1>12, <1>13, OrderWhenClaiming
        DEF Next, Crash, Restart, RestartInterrupted

(* While the server is down rows of pending jobs stay or are gone.         *)
LEMMA OrderInCrash ==
    ASSUME OrderInv, QueueInv, Crash
    PROVE  OrderInv'
<1> SUFFICES ASSUME ~UnlinkMayFail
             PROVE  InOrder' /\ PendingAreQueued' /\ NextIsLast'
  BY DEF OrderInv
<1>1. /\ InOrder /\ PendingAreQueued /\ ~up' /\ jobs' = jobs /\ pending' = pending
      /\ db \in [JobIds -> Row]
  BY DEF OrderInv, QueueInv, TypeOK, Crash, memory
<1>2. \A k \in JobIds : db'[k] = db[k] \/ ~Stored(k)'
  BY <1>1 DEF Crash, DeleteRow, Stored, NoRow
<1>3. InOrder'
  <2> SUFFICES ASSUME NEW j \in JobIds, NEW k \in JobIds,
                      Ahead(pending, j, k), Stored(j)', Stored(k)'
               PROVE  Before(db', j, k)
    BY <1>1 DEF InOrder, Ahead, Before
  <2>1. db'[j] = db[j] /\ db'[k] = db[k]
    BY <1>2
  <2>2. Before(db, j, k)
    BY <1>1, <2>1 DEF InOrder, Stored
  <2> QED BY <2>1, <2>2 DEF Before
<1> QED BY <1>1, <1>3 DEF PendingAreQueued, NextIsLast, IsPending

(* Recovery leaves the rows of jobs that were pending alone.               *)
LEMMA PendingRowsStay ==
    ASSUME QueueInv, RowsFromBefore, PendingAreQueued, ~up, NEW done \in SUBSET RunningRows,
           NEW first, db' = RecoveredTable(done, first), NEW j \in JobIds, IsPending(j)
    PROVE  db'[j] = db[j]
<1>1. RowFromBefore(j) /\ jobs[j].status = "queued"
  BY DEF RowsFromBefore, PendingAreQueued
<1>2. Stored(j) => db[j].job.status = "queued"
  BY <1>1 DEF RowFromBefore
<1>3. j \notin done
  BY <1>2 DEF RunningRows
<1> QED BY <1>3, RecoveryEffect

LEMMA OrderInInterruptedRestart ==
    ASSUME OrderInv, QueueInv, RowsFromBefore, RestartInterrupted
    PROVE  OrderInv'
<1> SUFFICES ASSUME ~UnlinkMayFail
             PROVE  InOrder' /\ PendingAreQueued' /\ NextIsLast'
  BY DEF OrderInv
<1>1. /\ InOrder /\ PendingAreQueued /\ ~up /\ ~up' /\ jobs' = jobs /\ pending' = pending
  BY DEF OrderInv, QueueInv, RestartInterrupted, memory
<1>2. PICK done \in SUBSET RunningRows : \E first : db' = RecoveredTable(done, first)
  BY DEF RestartInterrupted
<1>3. \A j \in JobIds : IsPending(j) => db'[j] = db[j]
  BY <1>1, <1>2, PendingRowsStay
<1>4. InOrder'
  <2> SUFFICES ASSUME NEW j \in JobIds, NEW k \in JobIds,
                      Ahead(pending, j, k), Stored(j)', Stored(k)'
               PROVE  Before(db', j, k)
    BY <1>1 DEF InOrder, Ahead, Before
  <2>1. db'[j] = db[j] /\ db'[k] = db[k]
    BY <1>3, AheadArePending
  <2>2. Before(db, j, k)
    BY <1>1, <2>1 DEF InOrder, Stored
  <2> QED BY <2>1, <2>2 DEF Before
<1> QED BY <1>1, <1>4 DEF PendingAreQueued, NextIsLast, IsPending

(* The restarted server's deque is sorted by what the table says.          *)
LEMMA RestartSorts ==
    ASSUME QueueInv, QueueInv', Restart
    PROVE  /\ \A j, k \in JobIds : Ahead(pending', j, k) => Before(db', j, k)
           /\ \A j \in JobIds : IsPending(j)' => /\ Stored(j)'
                                                 /\ db'[j].seq = pendingSeq'[j]
                                                 /\ pendingSeq'[j] \in Int
                                                 /\ pendingSeq'[j] < nextSeq'
                                                 /\ jobs'[j].status = "queued"
<1> DEFINE queue == RunningRows \cup PendingRows
<1>1. /\ up' /\ pending' \in SortedBySequence(queue, db')
      /\ pendingSeq' = [j \in JobIds |-> IF j \in queue THEN db'[j].seq ELSE None]
      /\ \E top \in IF queue = {} THEN {0 - 1} ELSE Maximal({db'[j].seq : j \in queue}) :
            nextSeq' = top + 1
  BY DEF Restart
<1>2. queue \subseteq JobIds
  BY DEF RunningRows, PendingRows
<1> HIDE DEF queue
<1>3. /\ DOMAIN pending' = 1..Cardinality(queue)
      /\ \A m, n \in 1..Cardinality(queue) : m < n => Before(db', pending'[m], pending'[n])
      /\ \A m \in DOMAIN pending' : pending'[m] \in queue
  BY <1>1 DEF SortedBySequence
<1>4. \A j, k \in JobIds : Ahead(pending', j, k) => Before(db', j, k)
  BY <1>3 DEF Ahead
<1>5. ASSUME NEW j \in JobIds, IsPending(j)'
      PROVE  /\ Stored(j)' /\ db'[j].seq = pendingSeq'[j] /\ pendingSeq'[j] \in Int
             /\ pendingSeq'[j] < nextSeq' /\ jobs'[j].status = "queued"
  <2>1. j \in queue
    BY <1>3, <1>5 DEF IsPending, ToSet
  <2>2. db'[j].seq = pendingSeq'[j]
    BY <1>1, <2>1
  <2>3. JobConsistent(j)' /\ pendingSeq' \in [JobIds -> Int \cup {None}] /\ nextSeq' \in Int
    BY <1>1 DEF QueueInv, JobConsistent, UnpublishedAreQueued, DurableMirror, PendingExact, TypeOK
  <2>4. pendingSeq'[j] \in Int /\ jobs'[j].status = "queued" /\ Published(j)'
    BY <1>5, <2>3 DEF JobConsistent
  <2>5. Stored(j)'
    <3>1. Stored(j)
      BY <2>1 DEF queue, RunningRows, PendingRows
    <3>2. PICK first : db' = RecoveredTable(RunningRows, first)
      BY DEF Restart
    <3> QED BY <3>1, <3>2, RecoveryEffect
  <2>6. PICK top \in Maximal({db'[k].seq : k \in queue}) : nextSeq' = top + 1
    BY <1>1, <2>1
  <2>7. /\ db'[j].seq <= top /\ \E k \in queue : top = db'[k].seq
    BY <2>1, <2>6 DEF Maximal
  <2>8. top \in Int
    <3>1. PICK k \in queue : top = db'[k].seq
      BY <2>7
    <3>2. k \in JobIds /\ top = pendingSeq'[k]
      BY <1>1, <1>2, <3>1
    <3>3. pendingSeq'[k] \in Int \cup {None}
      BY <2>3, <3>2
    <3>4. top # None
      <4>1. TypeOK /\ db \in [JobIds -> Row]
        BY DEF QueueInv, TypeOK
      <4>2. PICK first \in FirstPendingSeq : db' = RecoveredTable(RunningRows, first)
        BY DEF Restart
      <4>3. CASE k \in RunningRows
        BY <3>1, <4>1, <4>2, <4>3, RecoveryType, ConstantsAssumption
      <4>4. CASE k \notin RunningRows
        BY <1>2, <3>1, <3>2, <4>2, <4>4, RecoveryEffect DEF PendingRows, queue
      <4> QED BY <4>3, <4>4
    <3> QED BY <3>2, <3>3, <3>4
  <2> QED BY <2>2, <2>4, <2>5, <2>6, <2>7, <2>8
<1> QED BY <1>4, <1>5

LEMMA OrderInRestart ==
    ASSUME QueueInv, QueueInv', Restart
    PROVE  OrderInv'
  BY RestartSorts DEF OrderInv, InOrder, PendingAreQueued, NextIsLast, Ahead, Before

LEMMA OrderStep ==
    ASSUME OrderInv, QueueInv, QueueInv', RowsFromBefore, [Next]_vars
    PROVE  OrderInv'
<1>1. CASE UNCHANGED vars
  <2>1. UNCHANGED <<up, jobs, pending, pendingSeq, nextSeq, db>>
    BY <1>1 DEF vars, memory, disk
  <2> QED BY <2>1 DEF OrderInv, InOrder, PendingAreQueued, NextIsLast, Ahead, Before,
                      Stored, IsPending
<1>2. CASE Next
  BY <1>2, OnlyCrashAndRestart, OrderInCrash, OrderInInterruptedRestart, OrderInRestart,
     OrderWhileUp
<1> QED BY <1>1, <1>2

(* Two jobs that were pending before a crash are claimed in the same order *)
(* after the restart.                                                      *)
LEMMA RestartKeepsOrder ==
    ASSUME OrderInv, QueueInv, QueueInv', RowsFromBefore, Restart, ~UnlinkMayFail,
           NEW j \in JobIds, NEW k \in JobIds, IsPending(j), IsPending(k), Ahead(pending', j, k)
    PROVE  Ahead(pending, j, k)
<1>0. InOrder /\ PendingAreQueued /\ ~up /\ up' /\ db \in [JobIds -> Row] /\ pending \in Seq(JobIds)
  BY DEF OrderInv, Restart, QueueInv, TypeOK
<1>1. db'[j] = db[j] /\ db'[k] = db[k]
  BY <1>0, PendingRowsStay DEF Restart
<1>2. Before(db', j, k) /\ IsPending(j)' /\ IsPending(k)'
  BY RestartSorts DEF Ahead, IsPending, ToSet
<1>3. /\ Stored(j) /\ Stored(k) /\ db[j].seq \in Int /\ db[k].seq \in Int
      /\ db[j].rowid \in Nat /\ db[k].rowid \in Nat
  BY <1>0, <1>1, <1>2, RestartSorts DEF Stored, Row
<1>4. ~Before(db, k, j) /\ j # k
  BY <1>1, <1>2, <1>3 DEF Before
<1>5. ~Ahead(pending, k, j)
  BY <1>0, <1>3, <1>4 DEF InOrder
<1>6. PICK m, n \in DOMAIN pending : pending[m] = j /\ pending[n] = k
  BY DEF IsPending, ToSet
<1>7. m \in Nat /\ n \in Nat /\ m # n /\ ~(n < m)
  BY <1>0, <1>4, <1>5, <1>6 DEF Ahead
<1>8. m < n
  BY <1>7
<1> QED BY <1>6, <1>8 DEF Ahead

(***************************************************************************)
(* Whatever the crashes, and however often a restart is interrupted, the   *)
(* jobs that were pending are claimed in the order they had, as long as no *)
(* discard fails to unlink a file.                                         *)
(***************************************************************************)
THEOREM CrashesKeepQueueOrder == Spec => CrashKeepsQueueOrder
<1> DEFINE Across == ~up /\ up' /\ ~UnlinkMayFail =>
                \A j, k \in JobIds :
                    IsPending(j) /\ IsPending(k) /\ Ahead(pending', j, k)
                        => Ahead(pending, j, k)
<1>1. Init => RowsFromBefore /\ OrderInv
  BY DEF Init, RowsFromBefore, OrderInv, InOrder, PendingAreQueued, NextIsLast, Ahead,
         IsPending, ToSet
<1>2. QueueInv /\ RowsFromBefore /\ [Next]_vars => RowsFromBefore'
  BY RowsFromBeforeStep
<1>3. QueueInv /\ QueueInv' /\ RowsFromBefore /\ OrderInv /\ [Next]_vars => OrderInv'
  BY OrderStep
<1>4. QueueInv /\ QueueInv' /\ RowsFromBefore /\ OrderInv /\ [Next]_vars => [Across]_vars
  <2> SUFFICES ASSUME QueueInv, QueueInv', RowsFromBefore, OrderInv, Next, ~up, up'
               PROVE  Across
    OBVIOUS
  <2>1. Restart
    BY OnlyCrashAndRestart DEF Crash, RestartInterrupted
  <2> QED BY <2>1, RestartKeepsOrder
<1> QED BY <1>1, <1>2, <1>3, <1>4, QueueInvariant, PTL DEF Spec, CrashKeepsQueueOrder

-----------------------------------------------------------------------------
(***************************************************************************)
(* The service: request threads and workers over the queue, and the audit  *)
(* log.                                                                    *)
(***************************************************************************)

-----------------------------------------------------------------------------
(* The inductive invariant.                                                *)

Quiet == Finished \cup {"idle"}

(* The table of events is the log of memory, which keeps its last value    *)
(* while the process is down.                                              *)
RowsNumbered == eventRows = {<<n, events[n]>> : n \in 1..Len(events)}

(* No discard of a published job reaches the queue, so the table lacks no  *)
(* published job.                                                          *)
PublishedStored == up => \A j \in JobIds : Published(j) => Stored(j)

(* What a handler holds in its local variables.                            *)
ThreadOK(t) ==
    /\ threads[t].pc = "create" => threads[t].req \in Requests /\ threads[t].actor \in Actors
    /\ threads[t].pc \notin Quiet \cup {"create"} =>
            threads[t].job \in JobIds /\ threads[t].actor \in Actors
    /\ threads[t].pc \in {"audit", "discard"} => threads[t].job \in unpublished
    /\ threads[t].pc = "found" => threads[t].job \notin unpublished
    /\ threads[t].pc = "getJob" => threads[t].kind \in {"open", "retry"}

AllQuiet == ~up => \A t \in Threads : threads[t].pc \in Quiet

ServiceInv ==
    /\ LedgerInv
    /\ ServiceTypeOK
    /\ RowsNumbered
    /\ PublishedStored
    /\ \A t \in Threads : ThreadOK(t)
    /\ AllQuiet
    /\ UploadAudited
    /\ RetryAudited
    /\ SingleOwner

-----------------------------------------------------------------------------
(* The audit table.                                                        *)

(* As many rows as events, numbered without a gap.                         *)
LEMMA RowsCounted ==
    ASSUME events \in Seq(Event), RowsNumbered
    PROVE  /\ IsFiniteSet(eventRows)
           /\ Cardinality(eventRows) = Len(events)
           /\ {row[1] : row \in eventRows} = 1..Len(events)
<1> DEFINE f == [n \in 1..Len(events) |-> <<n, events[n]>>]
<1>0. Len(events) \in Nat
  BY LenProperties
<1>1. f \in Bijection(1..Len(events), eventRows)
  <2>1. f \in [1..Len(events) -> eventRows]
    BY DEF RowsNumbered
  <2>2. \A m, n \in 1..Len(events) : f[m] = f[n] => m = n
    OBVIOUS
  <2>3. \A row \in eventRows : \E n \in 1..Len(events) : f[n] = row
    BY DEF RowsNumbered
  <2> HIDE DEF f
  <2> QED BY <2>1, <2>2, <2>3 DEF Bijection, Injection, Surjection, IsInjective
<1>2. ExistsBijection(1..Len(events), eventRows)
  BY <1>1 DEF ExistsBijection
<1>3. IsFiniteSet(1..Len(events)) /\ Cardinality(1..Len(events)) = Len(events)
  BY <1>0, FS_Interval
<1>4. IsFiniteSet(eventRows) /\ Cardinality(eventRows) = Len(events)
  BY <1>2, <1>3, FS_Bijection
<1>5. \A row \in eventRows : row[1] \in 1..Len(events)
  BY DEF RowsNumbered
<1>6. \A n \in 1..Len(events) : \E row \in eventRows : row[1] = n
  <2> TAKE n \in 1..Len(events)
  <2>1. <<n, events[n]>> \in eventRows
    BY DEF RowsNumbered
  <2>2. <<n, events[n]>>[1] = n
    OBVIOUS
  <2> QED BY <2>1, <2>2
<1> QED BY <1>4, <1>5, <1>6

(* An event is logged if and only if a row holds it.                       *)
LEMMA LoggedIsStored ==
    ASSUME events \in Seq(Event), RowsNumbered
    PROVE  \A e : e \in Logged <=> \E row \in eventRows : row[2] = e
<1>1. Logged = {events[n] : n \in DOMAIN events}
  BY DEF Logged, ToSet
<1>2. DOMAIN events = 1..Len(events)
  BY LenProperties
<1>3. \A row \in eventRows : \E n \in 1..Len(events) : row[2] = events[n]
  BY DEF RowsNumbered
<1>4. ASSUME NEW n \in 1..Len(events)
      PROVE  \E row \in eventRows : row[2] = events[n]
  <2>1. <<n, events[n]>> \in eventRows
    BY DEF RowsNumbered
  <2>2. <<n, events[n]>>[2] = events[n]
    OBVIOUS
  <2> QED BY <2>1, <2>2
<1>5. ASSUME NEW e, e \in Logged
      PROVE  \E row \in eventRows : row[2] = e
  <2>1. PICK n \in 1..Len(events) : e = events[n]
    BY <1>1, <1>2, <1>5, Zenon
  <2> QED BY <1>4, <2>1, Zenon
<1>6. ASSUME NEW e, NEW row \in eventRows, row[2] = e
      PROVE  e \in Logged
  <2>1. PICK n \in 1..Len(events) : row[2] = events[n]
    BY <1>3
  <2> QED BY <1>1, <1>2, <1>6, <2>1, Zenon
<1> QED BY <1>5, <1>6, Zenon

(* The constructor of JobAuditEventStore reads the log back as it was.     *)
LEMMA LogRestored ==
    ASSUME events \in Seq(Event), RowsNumbered
    PROVE  [n \in 1..Cardinality(eventRows) |->
                (CHOOSE row \in eventRows : row[1] = n)[2]] = events
<1>1. Cardinality(eventRows) = Len(events) /\ events = [n \in 1..Len(events) |-> events[n]]
  BY RowsCounted, LenProperties
<1>2. ASSUME NEW n \in 1..Len(events)
      PROVE  (CHOOSE row \in eventRows : row[1] = n)[2] = events[n]
  <2>1. <<n, events[n]>> \in eventRows
    BY DEF RowsNumbered
  <2>2. \A row \in eventRows : row[1] = n => row = <<n, events[n]>>
    BY DEF RowsNumbered
  <2>3. (CHOOSE row \in eventRows : row[1] = n) = <<n, events[n]>>
    <3>1. \E row \in eventRows : row[1] = n
      BY <2>1
    <3> QED BY <3>1, <2>2
  <2>4. <<n, events[n]>>[2] = events[n]
    OBVIOUS
  <2> QED BY <2>3, <2>4
<1> QED BY <1>1, <1>2

(* What one INSERT does to the rows of each kind.                          *)
LEMMA RecordEffect ==
    ASSUME events \in Seq(Event), RowsNumbered, NEW e \in Event, Record(e)
    PROVE  /\ events' \in Seq(Event)
           /\ RowsNumbered'
           /\ <<Len(events) + 1, e>> \notin eventRows
           /\ \A j : UploadRows(j)' = IF e.action \in UploadActions /\ e.job = j
                         THEN UploadRows(j) \cup {<<Len(events) + 1, e>>}
                         ELSE UploadRows(j)
           /\ \A j : RetryRows(j)' = IF e.action = "retry_conversion" /\ e.job = j
                         THEN RetryRows(j) \cup {<<Len(events) + 1, e>>}
                         ELSE RetryRows(j)
<1> DEFINE new == <<Len(events) + 1, e>>
<1>0. Len(events) \in Nat
  BY LenProperties
<1>1. events' = Append(events, e) /\ eventRows' = eventRows \cup {new}
  BY DEF Record
<1>2. /\ events' \in Seq(Event) /\ Len(events') = Len(events) + 1
      /\ events'[Len(events) + 1] = e
      /\ \A n \in 1..Len(events) : events'[n] = events[n]
  BY <1>1, AppendProperties
<1>3. RowsNumbered'
  <2>1. 1..Len(events') = (1..Len(events)) \cup {Len(events) + 1}
    BY <1>0, <1>2
  <2>2. {<<n, events'[n]>> : n \in 1..Len(events')}
            = {<<n, events[n]>> : n \in 1..Len(events)} \cup {new}
    BY <2>1, <1>2
  <2> QED BY <1>1, <2>2 DEF RowsNumbered
<1>4. new \notin eventRows
  BY <1>0 DEF RowsNumbered
<1>5. new[2] = e
  OBVIOUS
<1> HIDE DEF new
<1>6. \A j : UploadRows(j)' = IF e.action \in UploadActions /\ e.job = j
                             THEN UploadRows(j) \cup {new} ELSE UploadRows(j)
  BY <1>1, <1>5 DEF UploadRows
<1>7. \A j : RetryRows(j)' = IF e.action = "retry_conversion" /\ e.job = j
                            THEN RetryRows(j) \cup {new} ELSE RetryRows(j)
  BY <1>1, <1>5 DEF RetryRows
<1> QED BY <1>2, <1>3, <1>4, <1>6, <1>7 DEF new

(* While the server runs, a job is in the table if it is published.        *)
LEMMA TableIsPublished ==
    ASSUME ServiceInv, up, NEW j \in JobIds
    PROVE  /\ Published(j) => Stored(j)
           /\ Stored(j) => Published(j) /\ db[j].job = jobs[j]
           /\ ~Stored(j) => db[j].job = NoJob
<1>1. RowMeaningful(j)
  BY DEF ServiceInv, LedgerInv, QueueInv
<1>2. DurableMirror /\ PublishedStored
  BY DEF ServiceInv, LedgerInv, QueueInv
<1> QED BY <1>1, <1>2 DEF RowMeaningful, DurableMirror, PublishedStored, NoRow

(* A job that is not in the table was neither uploaded nor retried.        *)
LEMMA NoRowsWithoutJob ==
    ASSUME ServiceInv, NEW j \in JobIds, ~Stored(j)
    PROVE  /\ UploadRows(j) = {}
           /\ MaxAttempts = 1 => Cardinality(RetryRows(j)) = 0
<1>1. db[j].job = NoJob
  BY DEF ServiceInv, LedgerInv, QueueInv, RowMeaningful, NoRow
<1>2. UploadRows(j) = {}
  BY DEF ServiceInv, UploadAudited
<1>3. IsFiniteSet(RetryRows(j))
  <2>1. RetryRows(j) \in SUBSET eventRows
    BY DEF RetryRows
  <2>2. IsFiniteSet(eventRows)
    BY RowsCounted DEF ServiceInv, ServiceTypeOK
  <2> QED BY <2>1, <2>2, FS_Subset
<1>4. Cardinality(RetryRows(j)) \in Nat
  BY <1>3, FS_CardinalityType
<1>5. MaxAttempts = 1 => 0 = Cardinality(RetryRows(j)) + 0
  BY <1>1 DEF ServiceInv, RetryAudited, NoJob
<1> QED BY <1>2, <1>4, <1>5

-----------------------------------------------------------------------------
(* The handlers.                                                           *)

Owning == {"audit", "discard", "start", "convert", "register"}
Settling == {"audit", "discard"}

(* One thread moves, the others keep their local variables.                *)
Moved(t) ==
    /\ threads' \in [Threads -> Thread]
    /\ \A u \in Threads \ {t} : threads'[u] = threads[u]

LEMMA GotoEffect ==
    ASSUME threads \in [Threads -> Thread], NEW t \in Threads, NEW pc \in Pcs,
           Goto(t, pc)
    PROVE  /\ Moved(t)
           /\ threads'[t].pc = pc /\ threads'[t].job = threads[t].job
           /\ threads'[t].actor = threads[t].actor /\ threads'[t].req = threads[t].req
  BY DEF Goto, Moved, Thread

LEMMA GotoWithEffect ==
    ASSUME threads \in [Threads -> Thread], NEW t \in Threads, NEW pc \in Pcs,
           NEW j \in JobIds, GotoWith(t, pc, j)
    PROVE  /\ Moved(t)
           /\ threads'[t].pc = pc /\ threads'[t].job = j
           /\ threads'[t].actor = threads[t].actor /\ threads'[t].req = threads[t].req
  BY DEF GotoWith, Moved, Thread

(***************************************************************************)
(* A thread moves and, with it, jobs may be created, published, discarded, *)
(* claimed and settled: what makes every handler keep its own job.         *)
(***************************************************************************)
LEMMA HandlersKept ==
    ASSUME ServiceInv, NEW t \in Threads, Moved(t), ThreadOK(t)',
           \A k \in unpublished \ unpublished' :
                \A u \in Threads \ {t} : threads[u].pc \in Settling => threads[u].job # k,
           \A k \in unpublished' \ unpublished :
                \A u \in Threads \ {t} : threads[u].job # k
    PROVE  \A u \in Threads : ThreadOK(u)'
<1>1. ASSUME NEW u \in Threads \ {t} PROVE ThreadOK(u)'
  <2>1. threads'[u] = threads[u] /\ ThreadOK(u)
    BY DEF Moved, ServiceInv
  <2>2. threads[u].pc \in {"audit", "discard"} => threads[u].job \in unpublished'
    BY <2>1 DEF ThreadOK, Settling
  <2>3. threads[u].pc = "found" => threads[u].job \notin unpublished'
    BY <2>1 DEF ThreadOK
  <2> QED BY <2>1, <2>2, <2>3 DEF ThreadOK
<1> QED BY <1>1

LEMMA OwnersKept ==
    ASSUME ServiceInv, up, NEW t \in Threads, Moved(t), threads[t].pc # "dead",
           working' = working,
           threads'[t].pc \in Owning =>
                \/ threads[t].pc \in Owning /\ threads'[t].job = threads[t].job
                \/ \A u \in Threads \ {t} : threads[u].job # threads'[t].job,
           \A k \in JobIds : jobs'[k].status = "running" =>
                \/ threads'[t].pc = "convert" /\ threads'[t].job = k
                \/ /\ jobs[k].status = "running"
                   /\ threads[t].pc = "convert" /\ threads[t].job = k =>
                            threads'[t].pc = "dead" /\ threads'[t].job = k,
           \A k \in unpublished' :
                \/ threads'[t].pc \in Settling /\ threads'[t].job = k
                \/ /\ k \in unpublished
                   /\ threads[t].pc \in Settling /\ threads[t].job = k =>
                            threads'[t].pc = "dead" /\ threads'[t].job = k
    PROVE  SingleOwner'
<1> SUFFICES ASSUME NEW j \in JobIds
             PROVE  /\ \A u, v \in Threads : Owns(u, j)' /\ Owns(v, j)' => u = v
                    /\ jobs'[j].status = "running" =>
                            \/ \E u \in Threads :
                                    DiedOwning(u, j)' \/ (Owns(u, j)' /\ threads'[u].pc = "convert")
                            \/ \E w \in Workers : working'[w] = j
                    /\ j \in unpublished' => \E u \in Threads :
                            DiedOwning(u, j)' \/ (Owns(u, j)' /\ threads'[u].pc \in Settling)
  BY DEF SingleOwner, Settling
<1>1. /\ \A u, v \in Threads : Owns(u, j) /\ Owns(v, j) => u = v
      /\ jobs[j].status = "running" =>
              \/ \E u \in Threads :
                      DiedOwning(u, j) \/ (Owns(u, j) /\ threads[u].pc = "convert")
              \/ \E w \in Workers : working[w] = j
      /\ j \in unpublished => \E u \in Threads :
              DiedOwning(u, j) \/ (Owns(u, j) /\ threads[u].pc \in Settling)
  BY DEF ServiceInv, SingleOwner, Settling
<1>2. \A u \in Threads \ {t} : threads'[u] = threads[u]
  BY DEF Moved
<1>3. \A u \in Threads : Owns(u, j)' <=> threads'[u].job = j /\ threads'[u].pc \in Owning
  BY DEF Owns, Owning
<1>4. \A u \in Threads : Owns(u, j) <=> threads[u].job = j /\ threads[u].pc \in Owning
  BY DEF Owns, Owning
<1>5. ASSUME NEW u \in Threads, NEW v \in Threads, Owns(u, j)', Owns(v, j)'
      PROVE  u = v
  BY <1>5, <1>1, <1>2, <1>3, <1>4
<1>6. ASSUME jobs'[j].status = "running"
      PROVE  \/ \E u \in Threads :
                    DiedOwning(u, j)' \/ (Owns(u, j)' /\ threads'[u].pc = "convert")
             \/ \E w \in Workers : working'[w] = j
  <2>1. CASE threads'[t].pc = "convert" /\ threads'[t].job = j
    BY <2>1 DEF Owns
  <2>2. CASE /\ jobs[j].status = "running"
             /\ threads[t].pc = "convert" /\ threads[t].job = j =>
                      threads'[t].pc = "dead" /\ threads'[t].job = j
    <3>1. CASE \E w \in Workers : working[w] = j
      BY <3>1
    <3>2. CASE \E u \in Threads :
                    DiedOwning(u, j) \/ (Owns(u, j) /\ threads[u].pc = "convert")
      <4>1. PICK u \in Threads :
                    DiedOwning(u, j) \/ (Owns(u, j) /\ threads[u].pc = "convert")
        BY <3>2
      <4>2. CASE u = t
        <5>1. DiedOwning(t, j)'
          BY <4>1, <4>2, <2>2 DEF DiedOwning, Owns
        <5> QED BY <5>1
      <4>3. CASE u # t
        <5>1. threads'[u] = threads[u]
          BY <4>3, <1>2
        <5> QED BY <5>1, <4>1 DEF DiedOwning, Owns
      <4> QED BY <4>2, <4>3
    <3> QED BY <2>2, <3>1, <3>2, <1>1
  <2> QED BY <1>6, <2>1, <2>2
<1>7. ASSUME j \in unpublished'
      PROVE  \E u \in Threads :
                 DiedOwning(u, j)' \/ (Owns(u, j)' /\ threads'[u].pc \in Settling)
  <2>1. CASE threads'[t].pc \in Settling /\ threads'[t].job = j
    BY <2>1 DEF Owns, Settling
  <2>2. CASE /\ j \in unpublished
             /\ threads[t].pc \in Settling /\ threads[t].job = j =>
                      threads'[t].pc = "dead" /\ threads'[t].job = j
    <3>1. PICK u \in Threads :
                  DiedOwning(u, j) \/ (Owns(u, j) /\ threads[u].pc \in Settling)
      BY <2>2, <1>1
    <3>2. CASE u = t
      <4>1. DiedOwning(t, j)'
        BY <3>1, <3>2, <2>2 DEF DiedOwning, Owns
      <4> QED BY <4>1
    <3>3. CASE u # t
      <4>1. threads'[u] = threads[u]
        BY <3>3, <1>2
      <4> QED BY <4>1, <3>1 DEF DiedOwning, Owns
    <3> QED BY <3>2, <3>3
  <2> QED BY <1>7, <2>1, <2>2
<1> QED BY <1>5, <1>6, <1>7

-----------------------------------------------------------------------------
(* The log against the table.                                              *)

(* Nothing of the table and the log that the audit is about changes.       *)
LEMMA AuditUntouched ==
    ASSUME ServiceInv, eventRows' = eventRows,
           \A k \in JobIds : /\ Stored(k)' <=> Stored(k)
                             /\ db'[k].job.req = db[k].job.req
                             /\ db'[k].job.attempts = db[k].job.attempts
                             /\ db'[k].job.status = "failed" <=> db[k].job.status = "failed"
    PROVE  UploadAudited' /\ RetryAudited'
<1>1. \A k : UploadRows(k)' = UploadRows(k) /\ RetryRows(k)' = RetryRows(k)
  BY DEF UploadRows, RetryRows
<1>2. UploadAudited /\ RetryAudited
  BY DEF ServiceInv
<1>3. UploadAudited'
  BY <1>1, <1>2 DEF UploadAudited
<1>4. RetryAudited'
  <2> SUFFICES ASSUME MaxAttempts = 1, NEW k \in JobIds
               PROVE  db'[k].job.attempts = Cardinality(RetryRows(k)')
                          + (IF db'[k].job.status = "failed" THEN 1 ELSE 0)
    BY DEF RetryAudited
  <2>1. db[k].job.attempts = Cardinality(RetryRows(k))
                          + (IF db[k].job.status = "failed" THEN 1 ELSE 0)
    BY <1>2 DEF RetryAudited
  <2> QED BY <2>1, <1>1
<1> QED BY <1>3, <1>4

(* A published job is claimed or settled.                                  *)
LEMMA ReplaceAudited ==
    ASSUME ServiceInv, up, NEW j \in JobIds, NEW rec, NEW seq, Published(j),
           Replace(j, rec, seq), unpublished' = unpublished, eventRows' = eventRows,
           rec.req = jobs[j].req, jobs[j].status # "failed",
           MaxAttempts = 1 =>
               rec.attempts = jobs[j].attempts + (IF rec.status = "failed" THEN 1 ELSE 0)
    PROVE  UploadAudited' /\ RetryAudited' /\ PublishedStored'
<1>0. TypeOK /\ jobs \in [JobIds -> JobRecord]
  BY DEF ServiceInv, LedgerInv, QueueInv, TypeOK
<1>1. /\ Stored(j)' /\ db'[j].job = rec
      /\ \A k \in JobIds \ {j} : db'[k] = db[k]
  BY <1>0, PersistEffect DEF Replace
<1>2. Stored(j) /\ db[j].job = jobs[j]
  BY TableIsPublished
<1>3. \A k \in JobIds : jobs'[k] = IF k = j THEN rec ELSE jobs[k]
  BY <1>0 DEF Replace
<1>4. \A k : UploadRows(k)' = UploadRows(k) /\ RetryRows(k)' = RetryRows(k)
  BY DEF UploadRows, RetryRows
<1>5. \A k \in JobIds : /\ Stored(k)' <=> Stored(k)
                        /\ db'[k].job.req = db[k].job.req
  BY <1>1, <1>2 DEF Stored
<1>6. UploadAudited'
  BY <1>4, <1>5 DEF ServiceInv, UploadAudited
<1>7. RetryAudited'
  <2> SUFFICES ASSUME MaxAttempts = 1, NEW k \in JobIds
               PROVE  db'[k].job.attempts = Cardinality(RetryRows(k)')
                          + (IF db'[k].job.status = "failed" THEN 1 ELSE 0)
    BY DEF RetryAudited
  <2>1. db[k].job.attempts = Cardinality(RetryRows(k))
                          + (IF db[k].job.status = "failed" THEN 1 ELSE 0)
    BY DEF ServiceInv, RetryAudited
  <2>2. CASE k # j
    BY <2>1, <2>2, <1>1, <1>4
  <2>3. CASE k = j
    <3>1. jobs[j].attempts = Cardinality(RetryRows(j)) + 0
      BY <2>1, <2>3, <1>2
    <3>2. jobs[j].attempts \in Nat
      BY <1>0 DEF JobRecord
    <3>3. IsFiniteSet(RetryRows(j))
      <4>1. RetryRows(j) \in SUBSET eventRows
        BY DEF RetryRows
      <4> QED BY <4>1, RowsCounted, FS_Subset DEF ServiceInv, ServiceTypeOK
    <3>4. Cardinality(RetryRows(j)) \in Nat
      BY <3>3, FS_CardinalityType
    <3> QED BY <2>3, <3>1, <3>2, <3>4, <1>1, <1>4
  <2> QED BY <2>2, <2>3
<1>8. PublishedStored'
  <2>1. \A k \in JobIds : Published(k)' => Published(k)
    BY <1>3 DEF Published, Known
  <2>2. \A k \in JobIds : Published(k) => Stored(k)
    BY TableIsPublished
  <2> QED BY <2>1, <2>2, <1>5 DEF PublishedStored
<1> QED BY <1>6, <1>7, <1>8

-----------------------------------------------------------------------------
(* Steps that leave the queue and the log alone.                           *)

SameTable == up' = up /\ jobs' = jobs /\ unpublished' = unpublished /\ db' = db
SameLog == events' = events /\ eventRows' = eventRows

LEMMA TableSame ==
    ASSUME ServiceInv, SameTable, SameLog
    PROVE  UploadAudited' /\ RetryAudited' /\ PublishedStored' /\ RowsNumbered'
<1>1. \A k \in JobIds : /\ Stored(k)' <=> Stored(k)
                        /\ Published(k)' <=> Published(k)
                        /\ db'[k].job = db[k].job
  BY DEF SameTable, Stored, Published, Known
<1>2. UploadAudited' /\ RetryAudited'
  BY <1>1, AuditUntouched DEF SameLog
<1>3. PublishedStored'
  BY <1>1 DEF PublishedStored, ServiceInv, SameTable
<1>4. RowsNumbered'
  BY DEF RowsNumbered, ServiceInv, SameLog
<1> QED BY <1>2, <1>3, <1>4

(* A handler takes a step of its own and keeps what it owns.               *)
LEMMA ThreadMoves ==
    ASSUME ServiceInv, LedgerInv', up, SameTable, SameLog, working' = working,
           registered' \in SUBSET JobIds,
           NEW t \in Threads, Moved(t), ThreadOK(t)', threads[t].pc # "dead",
           threads'[t].pc \in Owning =>
                threads[t].pc \in Owning /\ threads'[t].job = threads[t].job,
           threads[t].pc \in Settling =>
                /\ threads'[t].pc \in Settling \cup {"dead"}
                /\ threads'[t].job = threads[t].job,
           threads[t].pc = "convert" =>
                threads'[t].pc = "dead" /\ threads'[t].job = threads[t].job
    PROVE  ServiceInv'
<1>1. /\ UploadAudited' /\ RetryAudited' /\ PublishedStored' /\ RowsNumbered'
  BY TableSame
<1>2. /\ up' = up /\ jobs' = jobs /\ unpublished' = unpublished
      /\ events' = events /\ eventRows' = eventRows
  BY DEF SameTable, SameLog
<1>3. \A u \in Threads : ThreadOK(u)'
  BY <1>2, HandlersKept
<1>4. SingleOwner'
  BY <1>2, OwnersKept
<1>5. ServiceTypeOK'
  BY <1>2 DEF ServiceInv, ServiceTypeOK, Moved, LedgerInv, QueueInv
<1>6. AllQuiet'
  BY <1>2 DEF AllQuiet
<1> QED BY <1>1, <1>3, <1>4, <1>5, <1>6 DEF ServiceInv

(* A handler that holds no job of its own moves on.                        *)
LEMMA Passing ==
    ASSUME ServiceInv, LedgerInv', up, SameTable, SameLog, working' = working,
           registered' \in SUBSET JobIds,
           NEW t \in Threads, NEW pc \in Pcs \ (Owning \cup {"create", "getJob"}), Goto(t, pc),
           threads[t].pc \notin Quiet \cup Settling \cup {"create", "convert"},
           pc = "found" => threads[t].job \notin unpublished
    PROVE  ServiceInv'
<1>1. threads \in [Threads -> Thread] /\ ThreadOK(t)
  BY DEF ServiceInv, ServiceTypeOK
<1>2. /\ Moved(t) /\ threads'[t].pc = pc /\ threads'[t].job = threads[t].job
      /\ threads'[t].actor = threads[t].actor /\ threads'[t].req = threads[t].req
  BY <1>1, GotoEffect
<1>3. ThreadOK(t)'
  <2>1. unpublished' = unpublished
    BY DEF SameTable
  <2> QED BY <1>1, <1>2, <2>1 DEF ThreadOK, Owning
<1> QED BY <1>2, <1>3, ThreadMoves DEF Quiet, Finished, Owning, Settling

(* The actions that read and move on.                                      *)
LEMMA ReadingSteps ==
    ASSUME ServiceInv, LedgerInv', NEW t \in Threads,
           \/ RegisterResult(t) \/ Find(t) \/ FindAny(t) \/ CheckUnpublished(t)
           \/ Wait(t) \/ WaitTimesOut(t) \/ Refind(t) \/ Found(t) \/ GetJob(t)
           \/ RetryRefused(t)
           \/ StartRefused(t) /\ UNCHANGED vars
    PROVE  ServiceInv'
<1> DEFINE thr == threads[t]
<1>0. ThreadOK(t) /\ threads \in [Threads -> Thread] /\ registered \in SUBSET JobIds
  BY DEF ServiceInv, ServiceTypeOK
<1>00. ASSUME UNCHANGED <<vars, log, working>>
       PROVE  SameTable /\ SameLog /\ working' = working
  BY <1>00 DEF vars, memory, disk, log, SameTable, SameLog
<1>01. OwnUploadLogged(t) /\ up => thr.job \notin unpublished
  <2> SUFFICES ASSUME OwnUploadLogged(t), up PROVE thr.job \notin unpublished
    OBVIOUS
  <2> DEFINE e == EventOf(t, "desktop_upload")
  <2>1. events \in Seq(Event) /\ RowsNumbered
    BY DEF ServiceInv, ServiceTypeOK
  <2>2. PICK row \in eventRows : row[2] = e
    BY <2>1, LoggedIsStored DEF OwnUploadLogged
  <2>3. e.action = "desktop_upload" /\ e.job = thr.job
    BY DEF EventOf
  <2>4. e \in Event
    BY <2>2 DEF ServiceInv, ServiceTypeOK
  <2>5. thr.job \in JobIds
    BY <2>3, <2>4 DEF Event
  <2>6. row \in UploadRows(thr.job)
    BY <2>2, <2>3 DEF UploadRows, UploadActions
  <2>7. Stored(thr.job)
    BY <2>5, <2>6 DEF ServiceInv, UploadAudited
  <2>8. Published(thr.job)
    BY <2>5, <2>7, TableIsPublished
  <2> QED BY <2>8 DEF Published
<1>1. CASE RegisterResult(t)
  <2>1. /\ up /\ thr.pc = "register" /\ Goto(t, "accepted")
        /\ UNCHANGED <<vars, log, working>> /\ registered' = registered \cup {thr.job}
    BY <1>1 DEF RegisterResult, At
  <2>2. registered' \in SUBSET JobIds
    BY <2>1, <1>0 DEF ThreadOK, Quiet, Finished
  <2>3. SameTable /\ SameLog /\ working' = working
    BY <2>1, <1>00
  <2> QED BY <2>1, <2>2, <2>3, Passing DEF Quiet, Finished, Settling, Owning, Pcs
<1>2. ASSUME NEW pc \in {"found", "findAny", "rejected", "checkUnpublished", "wait",
                         "refind", "accepted", "record", "retry"},
             Goto(t, pc), up, UNCHANGED <<vars, log, registered, working>>,
             thr.pc \notin Quiet \cup Settling \cup {"create", "convert"},
             pc = "found" => OwnUploadLogged(t)
      PROVE  ServiceInv'
  <2>1. SameTable /\ SameLog /\ working' = working
    BY <1>2, <1>00
  <2>2. pc \in Pcs \ (Owning \cup {"create", "getJob"})
    BY <1>2 DEF Pcs, Owning, Finished
  <2>3. pc = "found" => thr.job \notin unpublished
    BY <1>2, <1>01
  <2> QED BY <1>0, <1>2, <2>1, <2>2, <2>3, Passing
<1>3. CASE Find(t)
  BY <1>2, <1>3 DEF Find, At, Quiet, Finished, Settling
<1>4. CASE FindAny(t)
  BY <1>2, <1>4 DEF FindAny, At, Quiet, Finished, Settling
<1>5. CASE CheckUnpublished(t)
  BY <1>2, <1>5 DEF CheckUnpublished, At, Quiet, Finished, Settling
<1>6. CASE Wait(t)
  BY <1>2, <1>6 DEF Wait, At, Quiet, Finished, Settling
<1>7. CASE WaitTimesOut(t)
  BY <1>2, <1>7 DEF WaitTimesOut, At, Quiet, Finished, Settling
<1>8. CASE Refind(t)
  BY <1>2, <1>8 DEF Refind, At, Quiet, Finished, Settling
<1>9. CASE Found(t)
  <2>1. thr.pc = "found" /\ up
    BY <1>9 DEF Found, At
  <2>2. thr.job \notin unpublished
    BY <2>1, <1>0 DEF ThreadOK
  <2>3. UNCHANGED vars
    BY <1>9, <2>2 DEF Found
  <2> QED BY <1>2, <1>9, <2>1, <2>3 DEF Found, Quiet, Finished, Settling
<1>10. CASE GetJob(t)
  <2>1. /\ up /\ thr.pc = "getJob" /\ UNCHANGED <<vars, log, registered, working>>
    BY <1>10 DEF GetJob, At
  <2>2. thr.kind \in {"open", "retry"}
    BY <1>0, <2>1 DEF ThreadOK
  <2> QED BY <1>2, <1>10, <2>1, <2>2 DEF GetJob, Quiet, Finished, Settling
<1>11. CASE RetryRefused(t)
  BY <1>2, <1>11 DEF RetryRefused, At, Quiet, Finished, Settling
<1>12. CASE StartRefused(t) /\ UNCHANGED vars
  BY <1>2, <1>12 DEF StartRefused, At, Quiet, Finished, Settling
<1> QED BY <1>1, <1>3, <1>4, <1>5, <1>6, <1>7, <1>8, <1>9, <1>10, <1>11, <1>12

(* A request arrives.                                                      *)
LEMMA SubmitSteps ==
    ASSUME ServiceInv, LedgerInv', NEW t \in Threads, NEW a \in Actors,
           \/ \E kind \in {"web", "desktop"}, r \in Requests : Submit(t, kind, r, a)
           \/ \E kind \in {"retry", "open"}, j \in JobIds : SubmitEvent(t, kind, j, a)
    PROVE  ServiceInv'
<1>0. threads \in [Threads -> Thread] /\ registered \in SUBSET JobIds
  BY DEF ServiceInv, ServiceTypeOK
<1>1. /\ up /\ threads[t].pc = "idle" /\ UNCHANGED <<vars, log, registered, working>>
  BY DEF Submit, SubmitEvent, At
<1>2. SameTable /\ SameLog /\ working' = working /\ registered' = registered
  BY <1>1 DEF vars, memory, disk, log, SameTable, SameLog
<1>3. /\ Moved(t)
      /\ \/ threads'[t].pc = "create" /\ threads'[t].req \in Requests
         \/ /\ threads'[t].pc = "getJob" /\ threads'[t].job \in JobIds
            /\ threads'[t].kind \in {"open", "retry"}
      /\ threads'[t].actor \in Actors
  <2>1. ASSUME NEW kind \in {"web", "desktop"}, NEW r \in Requests, Submit(t, kind, r, a)
        PROVE  /\ Moved(t) /\ threads'[t].pc = "create" /\ threads'[t].req \in Requests
               /\ threads'[t].actor \in Actors
    BY <1>0, <2>1 DEF Submit, Moved, Thread, Pcs
  <2>2. ASSUME NEW kind \in {"retry", "open"}, NEW j \in JobIds, SubmitEvent(t, kind, j, a)
        PROVE  /\ Moved(t) /\ threads'[t].pc = "getJob" /\ threads'[t].job \in JobIds
               /\ threads'[t].kind \in {"open", "retry"} /\ threads'[t].actor \in Actors
    BY <1>0, <2>2 DEF SubmitEvent, Moved, Thread, Pcs
  <2> QED BY <2>1, <2>2
<1>4. ThreadOK(t)'
  BY <1>3 DEF ThreadOK
<1> QED BY <1>0, <1>1, <1>2, <1>3, <1>4, ThreadMoves DEF Settling, Owning

(* get_or_create_job finds a job, or refuses; a request fails for good.    *)
LEMMA AnswerSteps ==
    ASSUME ServiceInv, LedgerInv', NEW t \in Threads,
           \/ CreateExisting(t) \/ CreateRefused(t) \/ PublishFails(t) \/ ThreadDies(t)
    PROVE  ServiceInv'
<1> DEFINE thr == threads[t]
<1>0. /\ threads \in [Threads -> Thread] /\ registered \in SUBSET JobIds /\ ThreadOK(t)
      /\ index \in [Keys -> JobIds \cup {None}]
  BY DEF ServiceInv, ServiceTypeOK, TypeOK
<1>1. /\ UNCHANGED <<log, registered, working>>
      /\ UNCHANGED vars \/ LoseSequence
  BY DEF CreateExisting, CreateRefused, PublishFails, ThreadDies
<1>2. SameTable /\ SameLog /\ working' = working /\ registered' = registered
  <2>1. CASE UNCHANGED vars
    BY <1>1, <2>1 DEF vars, memory, disk, log, SameTable, SameLog
  <2>2. CASE LoseSequence
    BY <1>1, <2>2 DEF LoseSequence, disk, log, SameTable, SameLog
  <2> QED BY <1>1, <2>1, <2>2
<1>3. CASE CreateExisting(t)
  <2> DEFINE j == index[thr.req.key]
  <2>1. up /\ thr.pc = "create" /\ LookupFor(t) = "existing" /\ thr.req \in Requests
    BY <1>0, <1>3 DEF CreateExisting, At, ThreadOK
  <2>2. thr.req.key \in Keys
    BY <2>1 DEF Keys
  <2>3. j # None
    BY <2>1 DEF LookupFor, Lookup
  <2>4. j \in JobIds
    BY <2>2, <2>3, <1>0
  <2>5. PICK pc \in {"accepted", "rejected", "find"} : GotoWith(t, pc, j)
    <3>1. GotoWith(t, CASE ~IsDesktop(t) -> "accepted"
                        [] IsDesktop(t) /\ thr.req.src = None -> "rejected"
                        [] IsDesktop(t) /\ thr.req.src # None -> "find", j)
      BY <1>3 DEF CreateExisting
    <3> QED BY <3>1
  <2> HIDE DEF j
  <2>6. pc \in Pcs
    BY DEF Pcs, Finished
  <2>7. /\ Moved(t) /\ threads'[t].pc = pc /\ threads'[t].job = j
        /\ threads'[t].actor = thr.actor /\ threads'[t].req = thr.req
    BY <1>0, <2>4, <2>5, <2>6, GotoWithEffect
  <2>8. ThreadOK(t)'
    BY <1>0, <2>1, <2>4, <2>7 DEF ThreadOK, Quiet, Finished
  <2> QED BY <1>0, <1>2, <2>1, <2>7, <2>8, ThreadMoves DEF Settling, Owning
<1>4. CASE CreateRefused(t)
  <2>1. up /\ thr.pc = "create" /\ Goto(t, "rejected")
    BY <1>4 DEF CreateRefused, At
  <2>2. Moved(t) /\ threads'[t].pc = "rejected"
    BY <1>0, <2>1, GotoEffect DEF Pcs, Finished
  <2>3. ThreadOK(t)'
    BY <2>2 DEF ThreadOK, Quiet, Finished
  <2> QED BY <1>0, <1>2, <2>1, <2>2, <2>3, ThreadMoves DEF Settling, Owning
<1>5. CASE PublishFails(t)
  <2>1. up /\ thr.pc = "audit" /\ Goto(t, "discard")
    BY <1>5 DEF PublishFails, At
  <2>2. /\ Moved(t) /\ threads'[t].pc = "discard" /\ threads'[t].job = thr.job
        /\ threads'[t].actor = thr.actor
    BY <1>0, <2>1, GotoEffect DEF Pcs, Finished
  <2>3. ThreadOK(t)'
    BY <1>0, <1>2, <2>1, <2>2 DEF ThreadOK, Quiet, Finished, SameTable
  <2> QED BY <1>0, <1>2, <2>1, <2>2, <2>3, ThreadMoves DEF Settling, Owning
<1>6. CASE ThreadDies(t)
  <2>1. /\ up /\ thr.pc \in {"create", "retry", "discard", "start", "convert", "record"}
        /\ Goto(t, "dead")
    BY <1>6 DEF ThreadDies, At
  <2>2. Moved(t) /\ threads'[t].pc = "dead" /\ threads'[t].job = thr.job
    BY <1>0, <2>1, GotoEffect DEF Pcs, Finished
  <2>3. ThreadOK(t)'
    BY <2>2 DEF ThreadOK, Quiet, Finished
  <2> QED BY <1>0, <1>2, <2>1, <2>2, <2>3, ThreadMoves DEF Settling, Owning
<1> QED BY <1>3, <1>4, <1>5, <1>6

-----------------------------------------------------------------------------
(* A handler claims its job or settles it.                                 *)

LEMMA RunningIsPublished ==
    ASSUME ServiceInv, up, NEW j \in JobIds, jobs[j].status = "running"
    PROVE  Published(j)
  BY DEF ServiceInv, LedgerInv, QueueInv, UnpublishedAreQueued, Published, Known

LEMMA ThreadReplaces ==
    ASSUME ServiceInv, LedgerInv', up, up', NEW t \in Threads, NEW rec, NEW seq,
           threads[t].pc \in {"start", "convert"},
           NEW pc \in {"convert", "register", "accepted"}, Goto(t, pc),
           Published(threads[t].job), jobs[threads[t].job].status # "failed",
           Replace(threads[t].job, rec, seq), unpublished' = unpublished,
           UNCHANGED <<log, registered, working>>,
           rec.req = jobs[threads[t].job].req,
           pc = "convert" \/ rec.status # "running",
           MaxAttempts = 1 => rec.attempts = jobs[threads[t].job].attempts
                                  + (IF rec.status = "failed" THEN 1 ELSE 0)
    PROVE  ServiceInv'
<1> DEFINE j == threads[t].job
<1>0. /\ threads \in [Threads -> Thread] /\ ThreadOK(t) /\ jobs \in [JobIds -> JobRecord]
  BY DEF ServiceInv, ServiceTypeOK, TypeOK
<1>1. j \in JobIds
  BY <1>0 DEF ThreadOK, Quiet, Finished
<1>2. /\ Moved(t) /\ threads'[t].pc = pc /\ threads'[t].job = j
      /\ threads'[t].actor = threads[t].actor
  BY <1>0, GotoEffect DEF Pcs, Finished
<1>3. SameLog /\ registered' = registered /\ working' = working
  BY DEF log, SameLog
<1>4. UploadAudited' /\ RetryAudited' /\ PublishedStored'
  BY <1>1, <1>3, ReplaceAudited DEF SameLog
<1>5. RowsNumbered'
  BY <1>3 DEF RowsNumbered, ServiceInv, SameLog
<1>6. ThreadOK(t)'
  BY <1>0, <1>1, <1>2 DEF ThreadOK, Quiet, Finished
<1>7. \A u \in Threads : ThreadOK(u)'
  BY <1>2, <1>6, HandlersKept
<1>8. \A k \in JobIds : jobs'[k] = IF k = j THEN rec ELSE jobs[k]
  BY <1>0 DEF Replace
<1>9. SingleOwner'
  BY <1>2, <1>3, <1>8, OwnersKept DEF Owning, Settling
<1>10. ServiceTypeOK'
  BY <1>2, <1>3 DEF ServiceInv, ServiceTypeOK, Moved, LedgerInv, QueueInv, SameLog
<1>11. AllQuiet'
  BY DEF AllQuiet
<1> QED BY <1>4, <1>5, <1>7, <1>9, <1>10, <1>11 DEF ServiceInv

LEMMA ConvertingSteps ==
    ASSUME ServiceInv, LedgerInv', NEW t \in Threads,
           \/ Start(t)
           \/ StartRefused(t) /\ jobs[threads[t].job].status = "running"
           \/ \E result \in SUBSET Contents : ConvertSucceeds(t, result)
           \/ \E retryable \in BOOLEAN : ConvertFails(t, retryable)
    PROVE  ServiceInv'
<1> DEFINE j == threads[t].job
<1>0. /\ threads \in [Threads -> Thread] /\ ThreadOK(t) /\ jobs \in [JobIds -> JobRecord]
      /\ threads[t].pc \in {"start", "convert"} /\ up
  BY DEF ServiceInv, ServiceTypeOK, TypeOK, Start, StartRefused, ConvertSucceeds,
         ConvertFails, At
<1>1. j \in JobIds /\ jobs[j] \in JobRecord
  BY <1>0 DEF ThreadOK, Quiet, Finished
<1>2. CASE Start(t)
  <2> DEFINE rec == [jobs[j] EXCEPT !.status = "running"]
  <2>1. /\ StartJob(j) /\ Goto(t, "convert") /\ UNCHANGED <<log, registered, working>>
    BY <1>2 DEF Start
  <2>2. /\ Published(j) /\ jobs[j].status = "queued" /\ Replace(j, rec, pendingSeq[j])
        /\ unpublished' = unpublished /\ up'
    BY <2>1 DEF StartJob
  <2>3. rec.req = jobs[j].req /\ rec.attempts = jobs[j].attempts /\ rec.status = "running"
        /\ jobs[j].attempts \in Nat
    BY <1>1 DEF JobRecord
  <2> HIDE DEF rec
  <2> QED BY <1>0, <2>1, <2>2, <2>3, ThreadReplaces
<1>3. CASE \E result \in SUBSET Contents : ConvertSucceeds(t, result)
  <2>0. PICK result \in SUBSET Contents : ConvertSucceeds(t, result)
    BY <1>3
  <2> DEFINE rec == [jobs[j] EXCEPT !.status = "succeeded", !.result = result,
                                    !.error = FALSE]
  <2>1. /\ MarkSucceeded(j, result) /\ Goto(t, "register")
        /\ UNCHANGED <<log, registered, working>>
    BY <2>0 DEF ConvertSucceeds
  <2>2. /\ jobs[j].status = "running" /\ Replace(j, rec, None)
        /\ unpublished' = unpublished /\ up'
    BY <2>1 DEF MarkSucceeded, RequireRunning
  <2>3. rec.req = jobs[j].req /\ rec.attempts = jobs[j].attempts /\ rec.status = "succeeded"
        /\ jobs[j].attempts \in Nat
    BY <1>1 DEF JobRecord
  <2>4. Published(j)
    BY <1>0, <1>1, <2>2, RunningIsPublished
  <2> HIDE DEF rec
  <2> QED BY <1>0, <2>1, <2>2, <2>3, <2>4, ThreadReplaces
<1>4. ASSUME NEW retryable \in BOOLEAN, MarkFailed(j, retryable), Goto(t, "accepted"),
             UNCHANGED <<log, registered, working>>
      PROVE  ServiceInv'
  <2> DEFINE failed == [jobs[j] EXCEPT !.attempts = @ + 1, !.error = TRUE]
             again == [failed EXCEPT !.status = "queued"]
             final == [failed EXCEPT !.status = "failed", !.retryable = retryable]
  <2>1. jobs[j].status = "running" /\ unpublished' = unpublished /\ up'
    BY <1>4 DEF MarkFailed, RequireRunning
  <2>2. Published(j)
    BY <1>0, <1>1, <2>1, RunningIsPublished
  <2>3. CASE WillRequeue(j, retryable)
    <3>1. Replace(j, again, nextSeq)
      BY <1>4, <2>3 DEF MarkFailed
    <3>2. again.req = jobs[j].req /\ again.status = "queued" /\ jobs[j].attempts \in Nat
      BY <1>1 DEF JobRecord
    <3>3. MaxAttempts # 1
      BY <2>3, <3>2 DEF WillRequeue
    <3> HIDE DEF again
    <3> QED BY <1>0, <1>4, <2>1, <2>2, <3>1, <3>2, <3>3, ThreadReplaces
  <2>4. CASE ~WillRequeue(j, retryable)
    <3>1. Replace(j, final, None)
      BY <1>4, <2>4 DEF MarkFailed
    <3>2. /\ final.req = jobs[j].req /\ final.status = "failed"
          /\ final.attempts = jobs[j].attempts + 1
      BY <1>1 DEF JobRecord
    <3> HIDE DEF final
    <3> QED BY <1>0, <1>4, <2>1, <2>2, <3>1, <3>2, ThreadReplaces
  <2> QED BY <2>3, <2>4
<1>5. CASE StartRefused(t) /\ jobs[j].status = "running"
  BY <1>4, <1>5 DEF StartRefused
<1>6. CASE \E retryable \in BOOLEAN : ConvertFails(t, retryable)
  BY <1>4, <1>6 DEF ConvertFails
<1> QED BY <1>2, <1>3, <1>5, <1>6

-----------------------------------------------------------------------------
(* A handler creates, publishes or discards its job.                       *)

LEMMA CreateFreshStep ==
    ASSUME ServiceInv, LedgerInv', NEW t \in Threads, NEW j \in JobIds, CreateFresh(t, j)
    PROVE  ServiceInv'
<1> DEFINE r == threads[t].req
           direct == ~IsDesktop(t) /\ r.src = None
<1>0. /\ threads \in [Threads -> Thread] /\ ThreadOK(t) /\ TypeOK
      /\ jobs \in [JobIds -> JobRecord] /\ unpublished \in SUBSET JobIds
  BY DEF ServiceInv, ServiceTypeOK, TypeOK
<1>1. /\ up /\ threads[t].pc = "create" /\ FreshId(j) /\ CreateJob(j, r, direct, direct)
      /\ UNCHANGED <<log, registered, working>>
  BY DEF CreateFresh, At
<1>2. r \in Requests /\ threads[t].actor \in Actors
  BY <1>0, <1>1 DEF ThreadOK
<1>3. /\ up' /\ ~Known(j) /\ ~Stored(j) /\ jobs' = [jobs EXCEPT ![j] = NewJob(r)]
  BY <1>1 DEF CreateJob, CanCreate
<1>4. /\ \A k \in JobIds \ {j} : jobs'[k] = jobs[k]
      /\ jobs'[j] = NewJob(r)
  BY <1>0, <1>3
<1>5. NewJob(r).status = "queued" /\ NewJob(r).attempts = 0 /\ NewJob(r).req = r
  BY DEF NewJob, NoJob
<1>6. SameLog /\ registered' = registered /\ working' = working
  BY <1>1 DEF log, SameLog
<1>7. RowsNumbered'
  BY <1>6 DEF RowsNumbered, ServiceInv, SameLog
<1>8. \A u \in Threads : threads[u].job # j
  BY <1>1 DEF FreshId
<1>9. UploadRows(j) = {} /\ (MaxAttempts = 1 => Cardinality(RetryRows(j)) = 0)
  BY <1>3, NoRowsWithoutJob
<1>10. CASE direct
  <2>1. Persist(j, NewJob(r), nextSeq) /\ unpublished' = unpublished
    BY <1>1, <1>10 DEF CreateJob
  <2>2. /\ Stored(j)' /\ db'[j].job = NewJob(r)
        /\ \A k \in JobIds \ {j} : db'[k] = db[k]
    BY <1>0, <2>1, PersistEffect
  <2>4. GotoWith(t, "accepted", j)
    BY <1>10 DEF CreateFresh
  <2>5. Moved(t) /\ threads'[t].pc = "accepted" /\ threads'[t].job = j
    BY <1>0, <2>4, GotoWithEffect DEF Pcs, Finished
  <2>6. UploadAudited'
    <3>1. \A k : UploadRows(k)' = UploadRows(k)
      BY <1>6 DEF UploadRows, SameLog
    <3>2. \A k \in JobIds \ {j} : Stored(k)' <=> Stored(k)
      BY <2>2 DEF Stored
    <3>3. Cardinality(UploadRows(j)) <= 1 /\ db'[j].job.req.src = None
      BY <1>5, <1>9, <1>10, <2>2, FS_EmptySet
    <3>4. \A k \in JobIds \ {j} : db'[k] = db[k]
      BY <2>2
    <3> QED BY <1>9, <3>1, <3>2, <3>3, <3>4 DEF ServiceInv, UploadAudited
  <2>7. RetryAudited'
    <3>1. \A k : RetryRows(k)' = RetryRows(k)
      BY <1>6 DEF RetryRows, SameLog
    <3> SUFFICES ASSUME MaxAttempts = 1, NEW k \in JobIds
                 PROVE  db'[k].job.attempts = Cardinality(RetryRows(k)')
                            + (IF db'[k].job.status = "failed" THEN 1 ELSE 0)
      BY DEF RetryAudited
    <3>2. CASE k = j
      BY <1>5, <1>9, <2>2, <3>1, <3>2
    <3>3. CASE k # j
      BY <2>2, <3>1, <3>3 DEF ServiceInv, RetryAudited
    <3> QED BY <3>2, <3>3
  <2>8. PublishedStored'
    <3>1. \A k \in JobIds \ {j} : Published(k)' => Published(k)
      BY <1>4, <2>1 DEF Published, Known
    <3>2. \A k \in JobIds \ {j} : Stored(k) => Stored(k)'
      BY <2>2 DEF Stored
    <3>3. \A k \in JobIds \ {j} : Published(k) => Stored(k)
      BY <1>1, TableIsPublished
    <3> QED BY <2>2, <3>1, <3>2, <3>3 DEF PublishedStored
  <2>9. ThreadOK(t)'
    BY <2>5 DEF ThreadOK, Quiet, Finished
  <2>10. \A u \in Threads : ThreadOK(u)'
    BY <2>1, <2>5, <2>9, HandlersKept
  <2>11. SingleOwner'
    BY <1>1, <1>4, <1>5, <1>6, <2>1, <2>5, OwnersKept DEF Owning, Settling
  <2>12. ServiceTypeOK'
    BY <2>5, <1>6 DEF ServiceInv, ServiceTypeOK, Moved, LedgerInv, QueueInv, SameLog
  <2>13. AllQuiet'
    BY <1>3 DEF AllQuiet
  <2> QED BY <1>7, <2>6, <2>7, <2>8, <2>10, <2>11, <2>12, <2>13 DEF ServiceInv
<1>11. CASE ~direct
  <2>1. db' = db /\ unpublished' = unpublished \cup {j}
    BY <1>1, <1>11 DEF CreateJob, disk
  <2>2. PICK pc \in {"audit", "discard"} : GotoWith(t, pc, j)
    BY <1>11 DEF CreateFresh
  <2>3. /\ Moved(t) /\ threads'[t].pc = pc /\ threads'[t].job = j
        /\ threads'[t].actor = threads[t].actor
    BY <1>0, <2>2, GotoWithEffect DEF Pcs, Finished
  <2>4. UploadAudited' /\ RetryAudited'
    BY <1>6, <2>1, AuditUntouched DEF SameLog, Stored
  <2>5. PublishedStored'
    <3>1. \A k \in JobIds : Published(k)' => k # j /\ Published(k)
      BY <1>4, <2>1 DEF Published, Known
    <3>2. \A k \in JobIds : Published(k) => Stored(k)
      BY <1>1, TableIsPublished
    <3> QED BY <2>1, <3>1, <3>2 DEF PublishedStored, Stored
  <2>6. ThreadOK(t)'
    BY <1>2, <2>1, <2>3 DEF ThreadOK
  <2>7. \A u \in Threads : ThreadOK(u)'
    BY <1>8, <2>1, <2>3, <2>6, HandlersKept
  <2>8. SingleOwner'
    BY <1>1, <1>4, <1>5, <1>6, <1>8, <2>1, <2>3, OwnersKept DEF Owning, Settling
  <2>9. ServiceTypeOK'
    BY <2>3, <1>6 DEF ServiceInv, ServiceTypeOK, Moved, LedgerInv, QueueInv, SameLog
  <2>10. AllQuiet'
    BY <1>3 DEF AllQuiet
  <2> QED BY <1>7, <2>4, <2>5, <2>7, <2>8, <2>9, <2>10 DEF ServiceInv
<1> QED BY <1>10, <1>11

(* Nobody else publishes or discards the job of a handler.                 *)
LEMMA SettlingAlone ==
    ASSUME ServiceInv, up, NEW t \in Threads, threads[t].pc \in Settling
    PROVE  /\ threads[t].job \in JobIds /\ threads[t].job \in unpublished
           /\ threads[t].actor \in Actors
           /\ \A u \in Threads \ {t} : threads[u].pc \in Owning => threads[u].job # threads[t].job
           /\ ~Stored(threads[t].job)
<1>1. ThreadOK(t)
  BY DEF ServiceInv
<1>2. threads[t].job \in JobIds /\ threads[t].job \in unpublished /\ threads[t].actor \in Actors
  BY <1>1 DEF ThreadOK, Settling, Quiet, Finished
<1>3. ~Published(threads[t].job)
  BY <1>2 DEF Published
<1>4. ~Stored(threads[t].job)
  BY <1>2, <1>3, TableIsPublished
<1>5. \A u \in Threads : Owns(t, threads[t].job) /\ Owns(u, threads[t].job) => t = u
  BY <1>2 DEF ServiceInv, SingleOwner
<1>6. \A u \in Threads \ {t} : threads[u].pc \in Owning => threads[u].job # threads[t].job
  BY <1>5 DEF Owns, Settling, Owning
<1> QED BY <1>2, <1>4, <1>6

LEMMA DiscardCreatedStep ==
    ASSUME ServiceInv, LedgerInv', NEW t \in Threads, DiscardCreated(t)
    PROVE  ServiceInv'
<1> DEFINE j == threads[t].job
<1>0. /\ threads \in [Threads -> Thread] /\ jobs \in [JobIds -> JobRecord]
      /\ db \in [JobIds -> Row]
  BY DEF ServiceInv, ServiceTypeOK, TypeOK
<1>1. /\ up /\ threads[t].pc = "discard" /\ DiscardQueuedJob(j) /\ Goto(t, "rejected")
      /\ UNCHANGED <<log, registered, working>>
  BY DEF DiscardCreated, At
<1>2. /\ j \in JobIds /\ j \in unpublished /\ ~Stored(j)
      /\ \A u \in Threads \ {t} : threads[u].pc \in Owning => threads[u].job # j
  BY <1>1, SettlingAlone DEF Settling
<1>3. /\ up' /\ unpublished' = unpublished \ {j} /\ jobs' = [jobs EXCEPT ![j] = NoJob]
      /\ db' = [db EXCEPT ![j] = NoRow]
  BY <1>1 DEF DiscardQueuedJob, CanDiscard, DeleteRow
<1>4. db[j] = NoRow
  BY <1>2 DEF ServiceInv, LedgerInv, QueueInv, RowMeaningful
<1>5. \A k \in JobIds : db'[k] = db[k] /\ jobs'[k] = IF k = j THEN NoJob ELSE jobs[k]
  BY <1>0, <1>3, <1>4
<1>6. SameLog /\ registered' = registered /\ working' = working
  BY <1>1 DEF log, SameLog
<1>7. RowsNumbered'
  BY <1>6 DEF RowsNumbered, ServiceInv, SameLog
<1>8. Moved(t) /\ threads'[t].pc = "rejected" /\ threads'[t].job = j
  BY <1>0, <1>1, GotoEffect DEF Pcs, Finished
<1>9. UploadAudited' /\ RetryAudited'
  BY <1>5, <1>6, AuditUntouched DEF SameLog, Stored
<1>10. PublishedStored'
  <2>1. \A k \in JobIds : Published(k)' => Published(k)
    BY <1>3, <1>5 DEF Published, Known, NoJob
  <2>2. \A k \in JobIds : Published(k) => Stored(k)
    BY <1>1, TableIsPublished
  <2> QED BY <1>5, <2>1, <2>2 DEF PublishedStored, Stored
<1>11. ThreadOK(t)'
  BY <1>8 DEF ThreadOK, Quiet, Finished
<1>12. \A u \in Threads : ThreadOK(u)'
  BY <1>2, <1>3, <1>8, <1>11, HandlersKept DEF Settling, Owning
<1>13. SingleOwner'
  <2>1. \A k \in JobIds : jobs'[k].status = "running" => jobs[k].status = "running"
    BY <1>5 DEF NoJob
  <2> QED BY <1>1, <1>3, <1>6, <1>8, <2>1, OwnersKept DEF Owning, Settling
<1>14. ServiceTypeOK'
  BY <1>8, <1>6 DEF ServiceInv, ServiceTypeOK, Moved, LedgerInv, QueueInv, SameLog
<1>15. AllQuiet'
  BY <1>3 DEF AllQuiet
<1> QED BY <1>7, <1>9, <1>10, <1>12, <1>13, <1>14, <1>15 DEF ServiceInv

-----------------------------------------------------------------------------
(* A handler writes to the log.                                            *)

LEMMA RecordOnceAndPublishStep ==
    ASSUME ServiceInv, LedgerInv', NEW t \in Threads, RecordOnceAndPublish(t),
           NEW j \in JobIds, j = threads[t].job
    PROVE  ServiceInv'
<1> DEFINE e == EventOf(t, IF IsDesktop(t) THEN "desktop_upload" ELSE "browser_upload")
           new == <<Len(events) + 1, e>>
<1>0. /\ threads \in [Threads -> Thread] /\ jobs \in [JobIds -> JobRecord] /\ TypeOK
      /\ events \in Seq(Event) /\ RowsNumbered
  BY DEF ServiceInv, ServiceTypeOK, TypeOK
<1>1. /\ up /\ threads[t].pc = "audit" /\ PublishJob(j, TRUE) /\ Record(e)
      /\ Goto(t, IF IsDesktop(t) THEN "accepted" ELSE "start")
      /\ registered' = registered /\ working' = working
  BY DEF RecordOnceAndPublish, At
<1>2. /\ j \in JobIds /\ j \in unpublished /\ ~Stored(j) /\ threads[t].actor \in Actors
      /\ \A u \in Threads \ {t} : threads[u].pc \in Owning => threads[u].job # j
  BY <1>1, SettlingAlone DEF Settling
<1>3. e \in Event /\ e.action \in UploadActions /\ e.job = j
  BY <1>2 DEF EventOf, Event, UploadActions
<1> HIDE DEF e
<1>4. /\ events' \in Seq(Event) /\ RowsNumbered'
      /\ UploadRows(j)' = UploadRows(j) \cup {new}
      /\ \A k \in JobIds \ {j} : UploadRows(k)' = UploadRows(k)
      /\ \A k \in JobIds : RetryRows(k)' = RetryRows(k)
  BY <1>0, <1>1, <1>3, RecordEffect DEF UploadActions
<1>5. /\ up' /\ unpublished' = unpublished \ {j} /\ jobs' = jobs
      /\ \E seq : Persist(j, jobs[j], seq)
  BY <1>1 DEF PublishJob, CanPublish
<1>6. /\ Stored(j)' /\ db'[j].job = jobs[j]
      /\ \A k \in JobIds \ {j} : db'[k] = db[k]
  BY <1>0, <1>2, <1>5, PersistEffect
<1>7. UploadRows(j) = {} /\ (MaxAttempts = 1 => Cardinality(RetryRows(j)) = 0)
  BY <1>2, NoRowsWithoutJob
<1>8. jobs[j].attempts = 0 /\ jobs[j].status = "queued"
  BY <1>1, <1>2 DEF ServiceInv, LedgerInv, QueueInv, UnpublishedAreNew, UnpublishedAreQueued
<1>9. UploadAudited'
  <2>1. \A k \in JobIds \ {j} : Stored(k)' <=> Stored(k)
    BY <1>6 DEF Stored
  <2>2. UploadRows(j)' = {new}
    BY <1>4, <1>7
  <2>3. Cardinality(UploadRows(j)') <= 1 /\ UploadRows(j)' # {}
    <3> HIDE DEF new
    <3>1. Cardinality({new}) = 1
      BY FS_Singleton
    <3> QED BY <2>2, <3>1
  <2> QED BY <1>4, <1>6, <2>1, <2>3 DEF ServiceInv, UploadAudited
<1>10. RetryAudited'
  <2> SUFFICES ASSUME MaxAttempts = 1, NEW k \in JobIds
               PROVE  db'[k].job.attempts = Cardinality(RetryRows(k)')
                          + (IF db'[k].job.status = "failed" THEN 1 ELSE 0)
    BY DEF RetryAudited
  <2>1. CASE k = j
    BY <1>4, <1>6, <1>7, <1>8, <2>1
  <2>2. CASE k # j
    BY <1>4, <1>6, <2>2 DEF ServiceInv, RetryAudited
  <2> QED BY <2>1, <2>2
<1>11. PublishedStored'
  <2>1. \A k \in JobIds \ {j} : Published(k)' => Published(k)
    BY <1>5 DEF Published, Known
  <2>2. \A k \in JobIds \ {j} : Published(k) => Stored(k)
    BY <1>1, TableIsPublished
  <2>3. \A k \in JobIds \ {j} : Stored(k) => Stored(k)'
    BY <1>6 DEF Stored
  <2> QED BY <1>6, <2>1, <2>2, <2>3 DEF PublishedStored
<1>12. PICK pc \in {"accepted", "start"} : Goto(t, pc)
  BY <1>1
<1>13. /\ Moved(t) /\ threads'[t].pc = pc /\ threads'[t].job = j
       /\ threads'[t].actor = threads[t].actor
  BY <1>0, <1>12, GotoEffect DEF Pcs, Finished
<1>14. ThreadOK(t)'
  BY <1>2, <1>13 DEF ThreadOK, Quiet, Finished
<1>15. \A u \in Threads : ThreadOK(u)'
  BY <1>2, <1>5, <1>13, <1>14, HandlersKept DEF Settling, Owning
<1>16. SingleOwner'
  BY <1>1, <1>5, <1>13, OwnersKept DEF Owning, Settling
<1>17. \A row \in eventRows' : row[1] \in Nat \ {0} /\ row[2] \in Event
  BY <1>1, <1>3, <1>0, LenProperties DEF Record, ServiceInv, ServiceTypeOK
<1>18. ServiceTypeOK'
  BY <1>1, <1>4, <1>13, <1>17 DEF ServiceInv, ServiceTypeOK, Moved, LedgerInv, QueueInv
<1>19. AllQuiet'
  BY <1>5 DEF AllQuiet
<1> QED BY <1>4, <1>9, <1>10, <1>11, <1>15, <1>16, <1>18, <1>19 DEF ServiceInv

LEMMA RecordEventStep ==
    ASSUME ServiceInv, LedgerInv', NEW t \in Threads, RecordEvent(t)
    PROVE  ServiceInv'
<1> DEFINE e == EventOf(t, "open_detail")
<1>0. /\ threads \in [Threads -> Thread] /\ ThreadOK(t)
      /\ events \in Seq(Event) /\ RowsNumbered
  BY DEF ServiceInv, ServiceTypeOK
<1>1. /\ up /\ threads[t].pc = "record" /\ Record(e) /\ Goto(t, "accepted")
      /\ registered' = registered /\ working' = working
      /\ up' = up /\ jobs' = jobs /\ unpublished' = unpublished /\ db' = db
  BY DEF RecordEvent, At, vars, memory, disk
<1>2. e \in Event /\ e.action = "open_detail"
  BY <1>0, <1>1 DEF EventOf, Event, ThreadOK, Quiet, Finished
<1> HIDE DEF e
<1>3. /\ events' \in Seq(Event) /\ RowsNumbered'
      /\ \A k : UploadRows(k)' = UploadRows(k) /\ RetryRows(k)' = RetryRows(k)
  BY <1>0, <1>1, <1>2, RecordEffect DEF UploadActions
<1>4. UploadAudited' /\ RetryAudited'
  <2>1. UploadAudited /\ RetryAudited
    BY DEF ServiceInv
  <2>2. UploadAudited'
    BY <1>1, <1>3, <2>1 DEF UploadAudited, Stored
  <2>3. RetryAudited'
    BY <1>1, <1>3, <2>1 DEF RetryAudited
  <2> QED BY <2>2, <2>3
<1>5. PublishedStored'
  BY <1>1 DEF ServiceInv, PublishedStored, Published, Known, Stored
<1>6. Moved(t) /\ threads'[t].pc = "accepted" /\ threads'[t].job = threads[t].job
  BY <1>0, <1>1, GotoEffect DEF Pcs, Finished
<1>7. ThreadOK(t)'
  BY <1>6 DEF ThreadOK, Quiet, Finished
<1>8. \A u \in Threads : ThreadOK(u)'
  BY <1>1, <1>6, <1>7, HandlersKept
<1>9. SingleOwner'
  BY <1>1, <1>6, OwnersKept DEF Owning, Settling
<1>10. \A row \in eventRows' : row[1] \in Nat \ {0} /\ row[2] \in Event
  BY <1>0, <1>1, <1>2, LenProperties DEF Record, ServiceInv, ServiceTypeOK
<1>11. ServiceTypeOK'
  BY <1>1, <1>3, <1>6, <1>10 DEF ServiceInv, ServiceTypeOK, Moved, LedgerInv, QueueInv
<1>12. AllQuiet'
  BY <1>1 DEF AllQuiet
<1> QED BY <1>3, <1>4, <1>5, <1>8, <1>9, <1>11, <1>12 DEF ServiceInv

LEMMA RecordAndRetryStep ==
    ASSUME ServiceInv, LedgerInv', NEW t \in Threads, RecordAndRetry(t),
           NEW j \in JobIds, j = threads[t].job
    PROVE  ServiceInv'
<1> DEFINE e == EventOf(t, "retry_conversion")
           new == <<Len(events) + 1, e>>
           rec == [jobs[j] EXCEPT !.status = "queued", !.error = FALSE]
<1>0. /\ threads \in [Threads -> Thread] /\ ThreadOK(t) /\ TypeOK
      /\ events \in Seq(Event) /\ RowsNumbered /\ jobs \in [JobIds -> JobRecord]
  BY DEF ServiceInv, ServiceTypeOK, TypeOK
<1>1. /\ up /\ threads[t].pc = "retry" /\ RetryFailedJob(j) /\ Record(e)
      /\ Goto(t, "accepted") /\ registered' = registered /\ working' = working
  BY DEF RecordAndRetry, At
<1>2. j \in JobIds /\ threads[t].actor \in Actors
  BY <1>0, <1>1 DEF ThreadOK, Quiet, Finished
<1>3. e \in Event /\ e.action = "retry_conversion" /\ e.job = j
  BY <1>2 DEF EventOf, Event
<1> HIDE DEF e
<1>4. /\ events' \in Seq(Event) /\ RowsNumbered' /\ new \notin eventRows
      /\ \A k : UploadRows(k)' = UploadRows(k)
      /\ RetryRows(j)' = RetryRows(j) \cup {new}
      /\ \A k \in JobIds \ {j} : RetryRows(k)' = RetryRows(k)
  BY <1>0, <1>1, <1>3, RecordEffect DEF UploadActions
<1>5. /\ up' /\ unpublished' = unpublished /\ jobs[j].status = "failed"
      /\ Persist(j, rec, nextSeq) /\ jobs' = [jobs EXCEPT ![j] = rec]
  BY <1>1 DEF RetryFailedJob, CanRetry, Replace
<1>6. /\ rec.status = "queued" /\ rec.attempts = jobs[j].attempts /\ rec.req = jobs[j].req
      /\ jobs[j].attempts \in Nat
  BY <1>0, <1>2 DEF JobRecord
<1> HIDE DEF rec, new
<1>7. /\ Stored(j)' /\ db'[j].job = rec /\ \A k \in JobIds \ {j} : db'[k] = db[k]
  BY <1>0, <1>2, <1>5, PersistEffect
<1>8. Published(j)
  BY <1>1, <1>2, <1>5
     DEF ServiceInv, LedgerInv, QueueInv, UnpublishedAreQueued, Published, Known
<1>9. Stored(j) /\ db[j].job = jobs[j]
  BY <1>1, <1>2, <1>8, TableIsPublished
<1>10. \A k \in JobIds : /\ Stored(k)' <=> Stored(k)
                         /\ db'[k].job.req = db[k].job.req
                         /\ jobs'[k] = IF k = j THEN rec ELSE jobs[k]
  BY <1>0, <1>5, <1>6, <1>7, <1>9 DEF Stored
<1>11. UploadAudited'
  BY <1>4, <1>10 DEF ServiceInv, UploadAudited
<1>12. RetryAudited'
  <2> SUFFICES ASSUME MaxAttempts = 1, NEW k \in JobIds
               PROVE  db'[k].job.attempts = Cardinality(RetryRows(k)')
                          + (IF db'[k].job.status = "failed" THEN 1 ELSE 0)
    BY DEF RetryAudited
  <2>1. CASE k = j
    <3>1. jobs[j].attempts = Cardinality(RetryRows(j)) + 1
      BY <1>2, <1>5, <1>9 DEF ServiceInv, RetryAudited
    <3>2. IsFiniteSet(RetryRows(j)) /\ new \notin RetryRows(j)
      <4>1. RetryRows(j) \in SUBSET eventRows
        BY DEF RetryRows
      <4> QED BY <1>0, <1>4, <4>1, RowsCounted, FS_Subset
    <3>3. Cardinality(RetryRows(j)') = Cardinality(RetryRows(j)) + 1
      BY <1>4, <3>2, FS_AddElement
    <3>4. Cardinality(RetryRows(j)') = jobs[j].attempts
      BY <3>1, <3>3
    <3> QED BY <1>6, <1>7, <2>1, <3>4
  <2>2. CASE k # j
    BY <1>4, <1>7, <2>2 DEF ServiceInv, RetryAudited
  <2> QED BY <2>1, <2>2
<1>13. PublishedStored'
  <2>1. \A k \in JobIds \ {j} : Published(k)' => Published(k)
    BY <1>5, <1>10 DEF Published, Known
  <2>2. \A k \in JobIds : Published(k) => Stored(k)
    BY <1>1, TableIsPublished
  <2> QED BY <1>7, <1>10, <2>1, <2>2 DEF PublishedStored
<1>14. Moved(t) /\ threads'[t].pc = "accepted" /\ threads'[t].job = j
  BY <1>0, <1>1, GotoEffect DEF Pcs, Finished
<1>15. ThreadOK(t)'
  BY <1>14 DEF ThreadOK, Quiet, Finished
<1>16. \A u \in Threads : ThreadOK(u)'
  BY <1>5, <1>14, <1>15, HandlersKept
<1>17. SingleOwner'
  BY <1>1, <1>5, <1>6, <1>10, <1>14, OwnersKept DEF Owning, Settling
<1>18. \A row \in eventRows' : row[1] \in Nat \ {0} /\ row[2] \in Event
  BY <1>0, <1>1, <1>3, LenProperties DEF Record, ServiceInv, ServiceTypeOK
<1>19. ServiceTypeOK'
  BY <1>1, <1>4, <1>14, <1>18 DEF ServiceInv, ServiceTypeOK, Moved, LedgerInv, QueueInv
<1>20. AllQuiet'
  BY <1>5 DEF AllQuiet
<1> QED BY <1>4, <1>11, <1>12, <1>13, <1>16, <1>17, <1>19, <1>20 DEF ServiceInv

-----------------------------------------------------------------------------
(* The workers.                                                            *)

LEMMA WorkerOwners ==
    ASSUME ServiceInv, up, threads' = threads, unpublished' = unpublished,
           NEW w \in Workers, NEW j \in JobIds,
           \A v \in Workers \ {w} : working'[v] = working[v],
           \A k \in JobIds \ {j} : /\ jobs'[k].status = jobs[k].status
                                   /\ working[w] = k => jobs[k].status # "running",
           jobs'[j].status = "running" => working'[w] = j
    PROVE  SingleOwner' /\ \A t \in Threads : ThreadOK(t)'
<1>1. \A t \in Threads, k \in JobIds : /\ Owns(t, k)' <=> Owns(t, k)
                                       /\ DiedOwning(t, k)' <=> DiedOwning(t, k)
  BY DEF Owns, DiedOwning
<1>2. \A t \in Threads : ThreadOK(t)'
  BY DEF ServiceInv, ThreadOK
<1>3. ASSUME NEW k \in JobIds
      PROVE  /\ \A t, u \in Threads : Owns(t, k)' /\ Owns(u, k)' => t = u
             /\ k \in unpublished' => \E t \in Threads :
                    DiedOwning(t, k)' \/ (Owns(t, k)' /\ threads'[t].pc \in {"audit", "discard"})
  BY <1>1 DEF ServiceInv, SingleOwner
<1>4. ASSUME NEW k \in JobIds, jobs'[k].status = "running"
      PROVE  \/ \E t \in Threads :
                    DiedOwning(t, k)' \/ (Owns(t, k)' /\ threads'[t].pc = "convert")
             \/ \E v \in Workers : working'[v] = k
  <2>1. CASE k = j
    BY <1>4, <2>1
  <2>2. CASE k # j
    <3>1. jobs[k].status = "running" /\ working[w] # k
      BY <1>4, <2>2
    <3>2. CASE \E v \in Workers : working[v] = k
      BY <3>1, <3>2
    <3>3. CASE \E t \in Threads :
                    DiedOwning(t, k) \/ (Owns(t, k) /\ threads[t].pc = "convert")
      BY <1>1, <3>3
    <3> QED BY <3>1, <3>2, <3>3 DEF ServiceInv, SingleOwner
  <2> QED BY <2>1, <2>2
<1>5. SingleOwner'
  BY <1>3, <1>4 DEF SingleOwner
<1> QED BY <1>2, <1>5

(* A worker replaces the record of the job it claims or settles.           *)
LEMMA WorkerReplaces ==
    ASSUME ServiceInv, LedgerInv', up, up', NEW w \in Workers, NEW j \in JobIds,
           NEW rec, NEW seq, NEW new \in {j, None},
           Published(j), jobs[j].status # "failed", Replace(j, rec, seq),
           unpublished' = unpublished, UNCHANGED <<threads, log, registered>>,
           working' = [working EXCEPT ![w] = new],
           working[w] \in {j, None},
           rec.status = "running" => new = j,
           rec.req = jobs[j].req,
           MaxAttempts = 1 => rec.attempts = jobs[j].attempts
                                  + (IF rec.status = "failed" THEN 1 ELSE 0)
    PROVE  ServiceInv'
<1>0. /\ jobs \in [JobIds -> JobRecord] /\ working \in [Workers -> JobIds \cup {None}]
      /\ None \notin JobIds
  BY ConstantsAssumption DEF ServiceInv, ServiceTypeOK, TypeOK
<1>1. SameLog /\ threads' = threads /\ registered' = registered
  BY DEF log, SameLog
<1>2. UploadAudited' /\ RetryAudited' /\ PublishedStored'
  BY <1>1, ReplaceAudited DEF SameLog
<1>3. RowsNumbered'
  BY <1>1 DEF RowsNumbered, ServiceInv, SameLog
<1>4. \A k \in JobIds : jobs'[k] = IF k = j THEN rec ELSE jobs[k]
  BY <1>0 DEF Replace
<1>5. SingleOwner' /\ \A t \in Threads : ThreadOK(t)'
  BY <1>0, <1>1, <1>4, WorkerOwners
<1>6. working' \in [Workers -> JobIds \cup {None}]
  BY <1>0
<1>7. ServiceTypeOK'
  BY <1>1, <1>6 DEF ServiceInv, ServiceTypeOK, LedgerInv, QueueInv, SameLog
<1>8. AllQuiet'
  BY DEF AllQuiet
<1> QED BY <1>2, <1>3, <1>5, <1>7, <1>8 DEF ServiceInv

LEMMA WorkerSteps ==
    ASSUME ServiceInv, LedgerInv', NEW w \in Workers,
           WorkerClaims(w) \/ WorkerSettles(w) \/ WorkerLosesJob(w)
    PROVE  ServiceInv'
<1>0. /\ jobs \in [JobIds -> JobRecord] /\ working \in [Workers -> JobIds \cup {None}]
      /\ TypeOK /\ up
  BY DEF ServiceInv, ServiceTypeOK, TypeOK, WorkerClaims, WorkerSettles, WorkerLosesJob,
         Idle, Works
<1>1. CASE WorkerClaims(w)
  <2>1. /\ StartNextJob /\ working[w] = None /\ UNCHANGED <<threads, log, registered>>
        /\ working' = [working EXCEPT ![w] = pending[NextClaimable]]
    BY <1>1 DEF WorkerClaims, Idle
  <2>2. NextClaimable # 0
    BY <2>1 DEF StartNextJob
  <2>3. /\ NextClaimable \in 1..Len(pending) /\ pending[NextClaimable] \in JobIds
        /\ jobs[pending[NextClaimable]].status = "queued"
    BY <1>0, <2>2, NextClaimableProperties
  <2>4. PICK j \in JobIds : j = pending[NextClaimable]
    BY <2>3
  <2> DEFINE rec == [jobs[j] EXCEPT !.status = "running"]
  <2>5. /\ Replace(j, rec, pendingSeq[j]) /\ unpublished' = unpublished /\ up'
    BY <1>0, <2>1, <2>4 DEF StartNextJob
  <2>6. IsPending(j)
    BY <1>0, <2>3, <2>4, LenProperties DEF IsPending, ToSet, TypeOK
  <2>7. Published(j)
    BY <1>0, <2>6 DEF ServiceInv, LedgerInv, QueueInv, PendingExact
  <2>8. /\ rec.req = jobs[j].req /\ rec.attempts = jobs[j].attempts
        /\ rec.status = "running" /\ jobs[j].attempts \in Nat
    BY <1>0 DEF JobRecord
  <2> HIDE DEF rec
  <2>9. rec.attempts = jobs[j].attempts + (IF rec.status = "failed" THEN 1 ELSE 0)
    BY <2>8
  <2>10. working[w] \in {j, None} /\ working' = [working EXCEPT ![w] = j]
    BY <2>1, <2>4
  <2>11. jobs[j].status # "failed"
    BY <2>3, <2>4
  <2> QED BY <1>0, <2>1, <2>5, <2>7, <2>8, <2>9, <2>10, <2>11, WorkerReplaces
<1>2. CASE WorkerSettles(w)
  <2>1. /\ working[w] # None /\ UNCHANGED <<threads, log, registered>>
        /\ working' = [working EXCEPT ![w] = None]
    BY <1>2 DEF WorkerSettles, Works
  <2>2. PICK j \in JobIds : j = working[w]
    BY <1>0, <2>1
  <2>3. jobs[j] \in JobRecord /\ jobs[j].attempts \in Nat
    BY <1>0 DEF JobRecord
  <2>4. ASSUME NEW result \in SUBSET Contents, MarkSucceeded(j, result)
        PROVE  ServiceInv'
    <3> DEFINE rec == [jobs[j] EXCEPT !.status = "succeeded", !.result = result,
                                      !.error = FALSE]
    <3>1. /\ jobs[j].status = "running" /\ Replace(j, rec, None)
          /\ unpublished' = unpublished /\ up'
      BY <2>4 DEF MarkSucceeded, RequireRunning
    <3>2. /\ rec.req = jobs[j].req /\ rec.attempts = jobs[j].attempts
          /\ rec.status = "succeeded"
      BY <2>3 DEF JobRecord
    <3>3. Published(j)
      BY <1>0, <3>1, RunningIsPublished
    <3> HIDE DEF rec
    <3>4. rec.attempts = jobs[j].attempts + (IF rec.status = "failed" THEN 1 ELSE 0)
      BY <2>3, <3>2
    <3> QED BY <1>0, <2>1, <2>2, <3>1, <3>2, <3>3, <3>4, WorkerReplaces
  <2>5. ASSUME NEW retryable \in BOOLEAN, MarkFailed(j, retryable)
        PROVE  ServiceInv'
    <3> DEFINE failed == [jobs[j] EXCEPT !.attempts = @ + 1, !.error = TRUE]
               again == [failed EXCEPT !.status = "queued"]
               final == [failed EXCEPT !.status = "failed", !.retryable = retryable]
    <3>1. jobs[j].status = "running" /\ unpublished' = unpublished /\ up'
      BY <2>5 DEF MarkFailed, RequireRunning
    <3>2. Published(j)
      BY <1>0, <3>1, RunningIsPublished
    <3>3. CASE WillRequeue(j, retryable)
      <4>1. Replace(j, again, nextSeq)
        BY <2>5, <3>3 DEF MarkFailed
      <4>2. again.req = jobs[j].req /\ again.status = "queued"
        BY <2>3 DEF JobRecord
      <4>3. MaxAttempts # 1
        BY <2>3, <3>3 DEF WillRequeue
      <4> HIDE DEF again
      <4> QED BY <1>0, <2>1, <2>2, <3>1, <3>2, <4>1, <4>2, <4>3, WorkerReplaces
    <3>4. CASE ~WillRequeue(j, retryable)
      <4>1. Replace(j, final, None)
        BY <2>5, <3>4 DEF MarkFailed
      <4>2. /\ final.req = jobs[j].req /\ final.status = "failed"
            /\ final.attempts = jobs[j].attempts + 1
        BY <2>3 DEF JobRecord
      <4> HIDE DEF final
      <4> QED BY <1>0, <2>1, <2>2, <3>1, <3>2, <4>1, <4>2, WorkerReplaces
    <3> QED BY <3>3, <3>4
  <2> QED BY <1>2, <2>2, <2>4, <2>5 DEF WorkerSettles
<1>3. CASE WorkerLosesJob(w)
  <2>1. /\ working[w] # None /\ jobs[working[w]].status # "running"
        /\ working' = [working EXCEPT ![w] = None] /\ UNCHANGED <<vars, threads, log, registered>>
    BY <1>3 DEF WorkerLosesJob, Works
  <2>2. PICK j \in JobIds : j = working[w]
    BY <1>0, <2>1
  <2>3. SameTable /\ SameLog /\ threads' = threads /\ registered' = registered
    BY <2>1 DEF vars, memory, disk, log, SameTable, SameLog
  <2>4. UploadAudited' /\ RetryAudited' /\ PublishedStored' /\ RowsNumbered'
    BY <2>3, TableSame
  <2>5. SingleOwner' /\ \A t \in Threads : ThreadOK(t)'
    BY <1>0, <2>1, <2>2, <2>3, WorkerOwners DEF SameTable
  <2>6. working' \in [Workers -> JobIds \cup {None}]
    BY <1>0, <2>1
  <2>7. ServiceTypeOK'
    BY <2>3, <2>6 DEF ServiceInv, ServiceTypeOK, LedgerInv, QueueInv, SameLog
  <2>8. AllQuiet'
    BY <1>0, <2>3 DEF AllQuiet, SameTable
  <2> QED BY <2>4, <2>5, <2>7, <2>8 DEF ServiceInv
<1> QED BY <1>1, <1>2, <1>3

-----------------------------------------------------------------------------
(* The process.                                                            *)

LEMMA ServiceCrashStep ==
    ASSUME ServiceInv, LedgerInv', ServiceCrash
    PROVE  ServiceInv'
<1>0. threads \in [Threads -> Thread]
  BY DEF ServiceInv, ServiceTypeOK
<1>1. /\ ~up' /\ db' = db /\ SameLog /\ registered' = registered
      /\ working' = [w \in Workers |-> None]
      /\ threads' = [t \in Threads |-> IF threads[t].pc \in Quiet
                                       THEN threads[t] ELSE [threads[t] EXCEPT !.pc = "dead"]]
  BY DEF ServiceCrash, Crash, log, SameLog, Quiet
<1>2. /\ threads' \in [Threads -> Thread]
      /\ \A t \in Threads : threads'[t].pc \in Quiet
  <2>1. ASSUME NEW t \in Threads
        PROVE  threads'[t] \in Thread /\ threads'[t].pc \in Quiet
    BY <1>0, <1>1 DEF Thread, Quiet, Finished, Pcs
  <2> QED BY <1>1, <2>1
<1>3. UploadAudited' /\ RetryAudited'
  BY <1>1, AuditUntouched DEF SameLog, Stored
<1>4. RowsNumbered'
  BY <1>1 DEF RowsNumbered, ServiceInv, SameLog
<1>5. \A t \in Threads : ThreadOK(t)'
  BY <1>2 DEF ThreadOK, Quiet, Finished
<1>6. PublishedStored' /\ SingleOwner' /\ AllQuiet'
  BY <1>1, <1>2 DEF PublishedStored, SingleOwner, AllQuiet
<1>7. ServiceTypeOK'
  BY <1>1, <1>2 DEF ServiceInv, ServiceTypeOK, LedgerInv, QueueInv, SameLog
<1> QED BY <1>3, <1>4, <1>5, <1>6, <1>7 DEF ServiceInv

(* What recovery leaves of the rows: the audit cannot tell the difference. *)
LEMMA RecoveryAudited ==
    ASSUME ServiceInv, NEW first, NEW done \in SUBSET RunningRows,
           db' = RecoveredTable(done, first), eventRows' = eventRows
    PROVE  UploadAudited' /\ RetryAudited'
<1>0. QueueInv /\ db \in [JobIds -> Row]
  BY DEF ServiceInv, LedgerInv, QueueInv, TypeOK
<1>1. ASSUME NEW k \in JobIds
      PROVE  /\ Stored(k)' <=> Stored(k)
             /\ db'[k].job.req = db[k].job.req
             /\ db'[k].job.attempts = db[k].job.attempts
             /\ db'[k].job.status = "failed" <=> db[k].job.status = "failed"
  <2>1. CASE k \in done
    <3>1. /\ Stored(k)' <=> Stored(k)
          /\ db'[k].job = Requeued(db[k].job) /\ db'[k].job.status = "queued"
      BY <1>0, <2>1, RecoveryEffect
    <3>2. db[k].job \in JobRecord /\ db[k].job.status = "running"
      BY <1>0, <2>1 DEF Row, RunningRows
    <3> QED BY <3>1, <3>2 DEF Requeued, JobRecord
  <2>2. CASE k \notin done
    BY <1>0, <2>2, RecoveryEffect DEF Stored
  <2> QED BY <2>1, <2>2
<1> QED BY <1>1, AuditUntouched

LEMMA ServiceRestartInterruptedStep ==
    ASSUME ServiceInv, LedgerInv', ServiceRestartInterrupted
    PROVE  ServiceInv'
<1>1. /\ ~up /\ ~up' /\ SameLog /\ threads' = threads /\ registered' = registered
      /\ working' = working /\ unpublished' = unpublished
  BY DEF ServiceRestartInterrupted, RestartInterrupted, serviceVars, log, SameLog, memory
<1>2. PICK last \in RunningRows, first \in FirstPendingSeq :
         db' = RecoveredTable({j \in RunningRows : db[j].rowid <= db[last].rowid}, first)
  BY DEF ServiceRestartInterrupted, RestartInterrupted
<1>3. UploadAudited' /\ RetryAudited'
  BY <1>1, <1>2, RecoveryAudited DEF SameLog
<1>4. RowsNumbered'
  BY <1>1 DEF RowsNumbered, ServiceInv, SameLog
<1>5. \A t \in Threads : ThreadOK(t)'
  BY <1>1 DEF ServiceInv, ThreadOK
<1>6. PublishedStored' /\ SingleOwner' /\ AllQuiet'
  BY <1>1 DEF PublishedStored, SingleOwner, AllQuiet, ServiceInv
<1>7. ServiceTypeOK'
  BY <1>1 DEF ServiceInv, ServiceTypeOK, LedgerInv, QueueInv, SameLog
<1> QED BY <1>3, <1>4, <1>5, <1>6, <1>7 DEF ServiceInv

LEMMA ServiceRestartStep ==
    ASSUME ServiceInv, LedgerInv', ServiceRestart
    PROVE  ServiceInv'
<1>0. /\ QueueInv /\ QueueInv' /\ events \in Seq(Event) /\ RowsNumbered
      /\ db' \in [JobIds -> Row]
  BY DEF ServiceInv, ServiceTypeOK, LedgerInv, QueueInv, TypeOK
<1>1. /\ ~up /\ up' /\ unpublished' = {} /\ jobs' = [j \in JobIds |-> db'[j].job]
      /\ eventRows' = eventRows /\ threads' = threads /\ working' = working
      /\ registered' \in SUBSET JobIds
  BY DEF ServiceRestart, Restart
<1>2. PICK first \in FirstPendingSeq : db' = RecoveredTable(RunningRows, first)
  BY DEF ServiceRestart, Restart
<1>3. UploadAudited' /\ RetryAudited'
  BY <1>1, <1>2, RecoveryAudited
<1>4. events' = events
  BY <1>0, LogRestored DEF ServiceRestart
<1>5. RowsNumbered'
  BY <1>0, <1>1, <1>4 DEF RowsNumbered
<1>6. PublishedStored'
  <2>1. ASSUME NEW k \in JobIds, Published(k)' PROVE Stored(k)'
    <3>1. db'[k].job.status # "absent"
      BY <1>1, <2>1 DEF Published, Known
    <3>2. RowMeaningful(k)'
      BY <1>0 DEF QueueInv
    <3> QED BY <3>1, <3>2 DEF RowMeaningful, NoRow, NoJob
  <2> QED BY <2>1 DEF PublishedStored
<1>7. \A t \in Threads : threads'[t].pc \in Quiet
  BY <1>1 DEF ServiceInv, AllQuiet
<1>8. \A t \in Threads : ThreadOK(t)'
  BY <1>7 DEF ThreadOK, Quiet, Finished
<1>9. AllQuiet'
  BY <1>1 DEF AllQuiet
<1>10. SingleOwner'
  <2>1. \A k \in JobIds : jobs'[k].status # "running"
    <3> TAKE k \in JobIds
    <3>1. CASE k \in RunningRows
      BY <1>0, <1>1, <1>2, <3>1, RecoveryEffect
    <3>2. CASE k \notin RunningRows
      <4>1. db'[k] = db[k]
        BY <1>0, <1>2, <3>2, RecoveryEffect
      <4>2. RowMeaningful(k)
        BY <1>0 DEF QueueInv
      <4>3. db[k].job.status # "running"
        BY <3>2, <4>2 DEF RunningRows, RowMeaningful, NoRow, NoJob
      <4> QED BY <1>1, <4>1, <4>3
    <3> QED BY <3>1, <3>2
  <2>2. \A k \in JobIds, t \in Threads : ~Owns(t, k)'
    BY <1>7 DEF Owns, Quiet, Finished
  <2> QED BY <1>1, <2>1, <2>2 DEF SingleOwner
<1>11. ServiceTypeOK'
  BY <1>0, <1>1, <1>4 DEF ServiceInv, ServiceTypeOK, LedgerInv, QueueInv
<1> QED BY <1>3, <1>5, <1>6, <1>8, <1>9, <1>10, <1>11 DEF ServiceInv

-----------------------------------------------------------------------------
(* Every step of the service is a step of the queue, or leaves it alone.   *)

LEMMA ThreadStepIsQueueStep ==
    ASSUME ServiceInv, NEW t \in Threads, ThreadStep(t)
    PROVE  [Next]_vars
<1> DEFINE j == threads[t].job
<1>0. ThreadOK(t)
  BY DEF ServiceInv
<1>1. CASE UNCHANGED vars
  BY <1>1
<1>2. ASSUME NEW k \in JobIds, CreateFresh(t, k) PROVE Next
  <2>1. threads[t].req \in Requests
    BY <1>0, <1>2 DEF CreateFresh, At, ThreadOK
  <2>2. \E direct \in BOOLEAN : CreateJob(k, threads[t].req, direct, direct)
    BY <1>2 DEF CreateFresh
  <2> QED BY <2>1, <2>2 DEF Next
<1>3. ASSUME threads[t].pc \notin Quiet \cup {"create"} PROVE j \in JobIds
  BY <1>0, <1>3 DEF ThreadOK
<1>4. CASE RecordOnceAndPublish(t)
  <2>1. j \in JobIds /\ PublishJob(j, TRUE)
    BY <1>3, <1>4 DEF RecordOnceAndPublish, At, Quiet, Finished
  <2> QED BY <2>1 DEF Next
<1>5. CASE PublishFails(t)
  <2>1. up /\ threads[t].pc = "audit" /\ LoseSequence
    BY <1>5 DEF PublishFails, At
  <2>2. j \in JobIds /\ j \in unpublished
    BY <2>1, SettlingAlone DEF Settling
  <2>3. jobs[j].status = "queued"
    BY <2>1, <2>2 DEF ServiceInv, LedgerInv, QueueInv, UnpublishedAreQueued
  <2>4. ~IsPending(j)
    BY <2>1, <2>2 DEF ServiceInv, LedgerInv, QueueInv, PendingExact, Published
  <2>5. CanPublish(j, TRUE)
    BY <2>1, <2>3 DEF CanPublish, Known
  <2>6. PersistFails
    BY <2>1, <2>2, <2>4, <2>5 DEF PersistFails, LoseSequence
  <2> QED BY <2>6 DEF Next
<1>6. CASE DiscardCreated(t)
  <2>1. j \in JobIds /\ DiscardQueuedJob(j)
    BY <1>3, <1>6 DEF DiscardCreated, At, Quiet, Finished
  <2> QED BY <2>1 DEF Next
<1>7. CASE ThreadDies(t)
  <2>1. CASE UNCHANGED vars
    BY <2>1
  <2>2. CASE At(t, "create") /\ CanCreate(threads[t].req) /\ LoseSequence
    <3>1. threads[t].req \in Requests
      BY <1>0, <2>2 DEF At, ThreadOK
    <3>2. PersistFails
      BY <2>2, <3>1 DEF PersistFails, LoseSequence
    <3> QED BY <3>2 DEF Next
  <2>3. CASE At(t, "retry") /\ CanRetry(j) /\ LoseSequence
    <3>1. j \in JobIds
      BY <1>3, <2>3 DEF At, Quiet, Finished
    <3>2. PersistFails
      BY <2>3, <3>1 DEF PersistFails, LoseSequence
    <3> QED BY <3>2 DEF Next
  <2> QED BY <1>7, <2>1, <2>2, <2>3 DEF ThreadDies
<1>8. CASE Start(t)
  <2>1. j \in JobIds /\ StartJob(j)
    BY <1>3, <1>8 DEF Start, At, Quiet, Finished
  <2> QED BY <2>1 DEF Next
<1>9. CASE StartRefused(t)
  <2>1. j \in JobIds /\ (MarkFailed(j, TRUE) \/ UNCHANGED vars)
    BY <1>3, <1>9 DEF StartRefused, At, Quiet, Finished
  <2> QED BY <2>1 DEF Next
<1>10. ASSUME NEW result \in SUBSET Contents, ConvertSucceeds(t, result) PROVE Next
  <2>1. j \in JobIds /\ MarkSucceeded(j, result)
    BY <1>3, <1>10 DEF ConvertSucceeds, At, Quiet, Finished
  <2> QED BY <2>1 DEF Next
<1>11. ASSUME NEW retryable \in BOOLEAN, ConvertFails(t, retryable) PROVE Next
  <2>1. j \in JobIds /\ MarkFailed(j, retryable)
    BY <1>3, <1>11 DEF ConvertFails, At, Quiet, Finished
  <2> QED BY <2>1 DEF Next
<1>12. CASE RecordAndRetry(t)
  <2>1. j \in JobIds /\ RetryFailedJob(j)
    BY <1>3, <1>12 DEF RecordAndRetry, At, Quiet, Finished
  <2> QED BY <2>1 DEF Next
<1>13. CASE Found(t)
  <2>1. j \in JobIds /\ (PublishJob(j, TRUE) \/ UNCHANGED vars)
    BY <1>3, <1>13 DEF Found, At, Quiet, Finished
  <2> QED BY <2>1 DEF Next
<1>14. CASE \/ CreateExisting(t) \/ CreateRefused(t) \/ RegisterResult(t) \/ Find(t)
            \/ FindAny(t) \/ CheckUnpublished(t) \/ Wait(t) \/ WaitTimesOut(t)
            \/ Refind(t) \/ GetJob(t) \/ RecordEvent(t) \/ RetryRefused(t)
  <2>1. UNCHANGED vars
    BY <1>14 DEF CreateExisting, CreateRefused, RegisterResult, Find, FindAny,
         CheckUnpublished, Wait, WaitTimesOut, Refind, GetJob, RecordEvent, RetryRefused
  <2> QED BY <2>1
<1> QED BY <1>2, <1>4, <1>5, <1>6, <1>7, <1>8, <1>9, <1>10, <1>11, <1>12, <1>13, <1>14
     DEF ThreadStep

LEMMA ServiceStepIsQueueStep ==
    ASSUME ServiceInv, [ServiceNext]_allVars
    PROVE  [Next]_vars
<1>1. CASE UNCHANGED allVars
  BY <1>1 DEF allVars
<1>2. ASSUME NEW t \in Threads, ThreadStep(t) PROVE [Next]_vars
  BY <1>2, ThreadStepIsQueueStep
<1>3. ASSUME NEW w \in Workers, WorkerClaims(w) \/ WorkerSettles(w) \/ WorkerLosesJob(w)
      PROVE  [Next]_vars
  <2>1. CASE WorkerClaims(w)
    BY <2>1 DEF WorkerClaims, Next
  <2>2. CASE WorkerSettles(w)
    <3>1. working[w] \in JobIds
      BY <2>2 DEF WorkerSettles, Works, ServiceInv, ServiceTypeOK
    <3> QED BY <2>2, <3>1 DEF WorkerSettles, Next
  <2>3. CASE WorkerLosesJob(w)
    BY <2>3 DEF WorkerLosesJob
  <2> QED BY <1>3, <2>1, <2>2, <2>3
<1>4. ASSUME NEW t \in Threads, NEW a \in Actors,
             \/ \E kind \in {"web", "desktop"}, r \in Requests : Submit(t, kind, r, a)
             \/ \E kind \in {"retry", "open"}, j \in JobIds : SubmitEvent(t, kind, j, a)
      PROVE  UNCHANGED vars
  BY <1>4 DEF Submit, SubmitEvent
<1>5. CASE ServiceCrash \/ ServiceRestart \/ ServiceRestartInterrupted
  BY <1>5 DEF ServiceCrash, ServiceRestart, ServiceRestartInterrupted, Next
<1> QED BY <1>1, <1>2, <1>3, <1>4, <1>5 DEF ServiceNext

LEMMA ServiceStep == ServiceInv /\ [ServiceNext]_allVars => ServiceInv'
<1> SUFFICES ASSUME ServiceInv, [ServiceNext]_allVars PROVE ServiceInv'
  OBVIOUS
<1>0. LedgerInv'
  <2>1. LedgerInv /\ [Next]_vars
    BY ServiceStepIsQueueStep DEF ServiceInv
  <2> QED BY <2>1, LedgerStep
<1>1. CASE UNCHANGED allVars
  <2>1. SameTable /\ SameLog /\ UNCHANGED <<threads, registered, working>>
    BY <1>1 DEF allVars, vars, memory, disk, serviceVars, log, SameTable, SameLog
  <2>2. UploadAudited' /\ RetryAudited' /\ PublishedStored' /\ RowsNumbered'
    BY <2>1, TableSame
  <2>3. (\A t \in Threads : ThreadOK(t)') /\ AllQuiet'
    BY <2>1 DEF ServiceInv, ThreadOK, AllQuiet, SameTable
  <2>4. SingleOwner'
    BY <2>1 DEF ServiceInv, SingleOwner, Owns, DiedOwning, SameTable
  <2>5. ServiceTypeOK'
    BY <1>0, <2>1 DEF ServiceInv, ServiceTypeOK, LedgerInv, QueueInv, SameLog
  <2> QED BY <1>0, <2>2, <2>3, <2>4, <2>5 DEF ServiceInv
<1>2. ASSUME NEW t \in Threads, ThreadStep(t) PROVE ServiceInv'
  <2>1. CASE StartRefused(t)
    <3>1. CASE jobs[threads[t].job].status = "running"
      BY <1>0, <2>1, <3>1, ConvertingSteps
    <3>2. CASE jobs[threads[t].job].status # "running"
      <4>1. UNCHANGED vars
        BY <2>1, <3>2 DEF StartRefused
      <4> QED BY <1>0, <2>1, <4>1, ReadingSteps
    <3> QED BY <3>1, <3>2
  <2>2. CASE RecordOnceAndPublish(t) \/ RecordAndRetry(t)
    <3>1. threads[t].pc \in {"audit", "retry"}
      BY <2>2 DEF RecordOnceAndPublish, RecordAndRetry, At
    <3>2. threads[t].job \in JobIds
      BY <3>1 DEF ServiceInv, ThreadOK, Quiet, Finished
    <3> QED BY <1>0, <2>2, <3>2, RecordOnceAndPublishStep, RecordAndRetryStep
  <2> QED BY <1>0, <1>2, <2>1, <2>2, CreateFreshStep, AnswerSteps, DiscardCreatedStep,
             ConvertingSteps, ReadingSteps, RecordEventStep DEF ThreadStep
<1>3. ASSUME NEW t \in Threads, NEW a \in Actors,
             \/ \E kind \in {"web", "desktop"}, r \in Requests : Submit(t, kind, r, a)
             \/ \E kind \in {"retry", "open"}, j \in JobIds : SubmitEvent(t, kind, j, a)
      PROVE  ServiceInv'
  BY <1>0, <1>3, SubmitSteps
<1>4. ASSUME NEW w \in Workers, WorkerClaims(w) \/ WorkerSettles(w) \/ WorkerLosesJob(w)
      PROVE  ServiceInv'
  BY <1>0, <1>4, WorkerSteps
<1>5. CASE ServiceCrash \/ ServiceRestart \/ ServiceRestartInterrupted
  BY <1>0, <1>5, ServiceCrashStep, ServiceRestartStep, ServiceRestartInterruptedStep
<1> QED BY <1>1, <1>2, <1>3, <1>4, <1>5 DEF ServiceNext

-----------------------------------------------------------------------------
(* The theorems.                                                           *)

(***************************************************************************)
(* The inductive invariant holds throughout.                               *)
(***************************************************************************)
THEOREM ServiceInvariant == ServiceSpec => []ServiceInv
<1>1. ServiceInit => ServiceInv
  <2> SUFFICES ASSUME ServiceInit PROVE ServiceInv
    OBVIOUS
  <2>0. Init /\ up /\ eventRows = {} /\ events = <<>>
    BY DEF ServiceInit, Init
  <2>1. LedgerInv
    <3>1. QueueInv
      BY <2>0, QueueInit
    <3>2. Bound /\ UnpublishedAreNew
      BY <2>0 DEF Init, Bound, UnpublishedAreNew, Known, NoJob
    <3>3. RowsBound
      BY <2>0 DEF Init, RowsBound, Stored, NoRow
    <3> QED BY <3>1, <3>2, <3>3 DEF LedgerInv
  <2>2. threads \in [Threads -> Thread] /\ \A t \in Threads : threads[t].pc = "idle"
    BY DEF ServiceInit, IdleThread, Thread, Pcs
  <2>3. ServiceTypeOK
    BY <2>0, <2>1, <2>2 DEF ServiceInit, ServiceTypeOK, LedgerInv, QueueInv
  <2>4. RowsNumbered
    BY <2>0 DEF RowsNumbered
  <2>5. (\A t \in Threads : ThreadOK(t)) /\ AllQuiet
    BY <2>0, <2>2 DEF ThreadOK, AllQuiet, Quiet
  <2>6. \A j \in JobIds : ~Known(j) /\ ~Stored(j) /\ db[j].job = NoJob /\ jobs[j] = NoJob
    BY <2>0 DEF Init, Known, Stored, NoRow, NoJob
  <2>7. PublishedStored
    BY <2>6 DEF PublishedStored, Published
  <2>8. \A j \in JobIds : UploadRows(j) = {} /\ RetryRows(j) = {}
    BY <2>0 DEF UploadRows, RetryRows
  <2>9. UploadAudited
    BY <2>6, <2>8, FS_EmptySet DEF UploadAudited
  <2>10. RetryAudited
    <3>1. NoJob.attempts = 0 /\ NoJob.status # "failed"
      BY DEF NoJob
    <3>2. \A j \in JobIds : Cardinality(RetryRows(j)) = 0
      BY <2>8, FS_EmptySet
    <3> QED BY <2>6, <3>1, <3>2 DEF RetryAudited
  <2>11. SingleOwner
    BY <2>0, <2>2, <2>6 DEF SingleOwner, Owns, Init, NoJob
  <2> QED BY <2>1, <2>3, <2>4, <2>5, <2>7, <2>9, <2>10, <2>11 DEF ServiceInv
<1> QED BY <1>1, ServiceStep, PTL DEF ServiceSpec

(* Every variable of the service keeps its shape.                          *)
THEOREM ServiceTypeCorrect == ServiceSpec => []ServiceTypeOK
<1>1. ServiceInv => ServiceTypeOK
  BY DEF ServiceInv
<1> QED BY <1>1, ServiceInvariant, PTL

(***************************************************************************)
(* The request threads and workers drive the queue by its own operations:  *)
(* whatever they interleave and wherever they die, what happens to the     *)
(* queue is a behaviour of the queue on its own.                           *)
(***************************************************************************)
THEOREM ServiceImplementsQueue == ServiceSpec => Spec
<1>1. ServiceInit => Init
  BY DEF ServiceInit
<1>2. ServiceInv /\ [ServiceNext]_allVars => [Next]_vars
  BY ServiceStepIsQueueStep
<1> QED BY <1>1, <1>2, ServiceInvariant, PTL DEF ServiceSpec, Spec

(***************************************************************************)
(* So callers of the service see the job ledger: one job per key, at most  *)
(* one high-quality job active, no settled job that moves but by a retry.  *)
(***************************************************************************)
THEOREM ServiceImplementsLedger == ServiceSpec => ImplementsLedger
  BY ServiceImplementsQueue, QueueImplementsLedger, PTL

(***************************************************************************)
(* And across the crashes of the service the queue keeps its order.        *)
(***************************************************************************)
THEOREM ServiceKeepsQueueOrder == ServiceSpec => CrashKeepsQueueOrder
  BY ServiceImplementsQueue, CrashesKeepQueueOrder, PTL

(***************************************************************************)
(* The audit table numbers its events without a gap and is the log of the  *)
(* running server, so an INSERT never meets a used sequence number and     *)
(* _restore_state finds the log as it was.                                 *)
(***************************************************************************)
THEOREM AuditTableMirrorsLog == ServiceSpec => []AuditMirror
<1>1. ServiceInv => AuditMirror
  <2> SUFFICES ASSUME ServiceInv PROVE AuditMirror
    OBVIOUS
  <2>1. events \in Seq(Event) /\ RowsNumbered
    BY DEF ServiceInv, ServiceTypeOK
  <2>2. Cardinality(eventRows) = Len(events) /\ {row[1] : row \in eventRows} = 1..Len(events)
    BY <2>1, RowsCounted
  <2> QED BY <2>1, <2>2 DEF AuditMirror, RowsNumbered
<1> QED BY <1>1, ServiceInvariant, PTL

(***************************************************************************)
(* record_once_and_publish: a job with a source is stored if and only if   *)
(* exactly one upload event for it is.                                     *)
(***************************************************************************)
THEOREM UploadsAreAudited == ServiceSpec => []UploadAudited
<1>1. ServiceInv => UploadAudited
  BY DEF ServiceInv
<1> QED BY <1>1, ServiceInvariant, PTL

(***************************************************************************)
(* record_and_retry: with max_attempts=1 a job was requeued once for each  *)
(* retry_conversion event, across crashes and recoveries.                  *)
(***************************************************************************)
THEOREM RetriesAreAudited == ServiceSpec => []RetryAudited
<1>1. ServiceInv => RetryAudited
  BY DEF ServiceInv
<1> QED BY <1>1, ServiceInvariant, PTL

(***************************************************************************)
(* A job has one handler at most, a running job has somebody who runs it,  *)
(* and an unpublished one somebody who will publish or discard it, unless  *)
(* that thread died of a storage error.                                    *)
(***************************************************************************)
THEOREM JobsHaveOneOwner == ServiceSpec => []SingleOwner
<1>1. ServiceInv => SingleOwner
  BY DEF ServiceInv
<1> QED BY <1>1, ServiceInvariant, PTL
=============================================================================
