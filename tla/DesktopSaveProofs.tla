------------------------- MODULE DesktopSaveProofs -------------------------
(***************************************************************************)
(* What the desktop user is told agrees with the audit log, and proofs are *)
(* refused only when forgotten: for any number of saves, addresses, file   *)
(* names, proofs and restarts.                                             *)
(***************************************************************************)
EXTENDS DesktopSave, FiniteSetTheorems, TLAPS

(* Saves that have not posted their event yet.                             *)
Before == {"download", "locate", "write", "cleanup", "post"}

(* The server thread starts when the client posts, with a token; two calls *)
(* never share one.                                                        *)
Posted ==
    \A s \in Saves :
        /\ calls[s].pc \in Before => handlers[s] = "idle"
        /\ calls[s].pc \in {"locate", "write", "post", "wait"} => calls[s].token > 0
        /\ handlers[s] # "idle" => calls[s].token > 0
        /\ \A t \in Saves : calls[s].token = calls[t].token /\ calls[s].token > 0 => s = t

(* The log is exactly the accepted events.                                 *)
Accepted ==
    /\ \A s \in Saves : handlers[s] = "accepted" => EventFor(s) \in events
    /\ \A e \in events : \E s \in Saves : EventFor(s) = e /\ handlers[s] = "accepted"

(* What a client concludes from what its server thread did.                *)
Verdicts ==
    \A s \in Saves :
        /\ calls[s].pc = "returned" => handlers[s] = "accepted"
        /\ \/ calls[s].pc \in Gone
           \/ calls[s].pc = "remove"
           => handlers[s] \in {"idle", "refused"}

(* Why a token may be missing from the store.                              *)
Forgotten(s) == calls[s].epoch < restarts \/ issued >= calls[s].token + MaxProofs
Remembered ==
    \A s \in Saves :
        /\ handlers[s] \in {"idle", "arrived"} /\ calls[s].token > 0
            => calls[s].token \in proofs \/ Forgotten(s)
        /\ handlers[s] = "refused" => Forgotten(s)

Inv == TypeOK /\ Posted /\ Accepted /\ Verdicts /\ Remembered

-----------------------------------------------------------------------------
(* What issuing a proof does.                                              *)

(* A proof dropped by issue is followed by at least MaxProofs newer ones.  *)
LEMMA IssueDrops ==
    ASSUME TypeOK, Issue, NEW t \in proofs, t \notin proofs'
    PROVE  issued' >= t + MaxProofs
<1> DEFINE newer == {u \in proofs : u > t}
<1>1. t \in 1..issued /\ issued \in Nat /\ MaxProofs \in Nat \ {0}
  BY ConstantsAssumption DEF TypeOK
<1>2. newer \subseteq (t + 1)..issued
  <2> SUFFICES ASSUME NEW u \in newer PROVE u \in (t + 1)..issued
    OBVIOUS
  <2>1. u \in 1..issued /\ u > t
    BY DEF TypeOK
  <2> QED
    BY <1>1, <2>1
<1>3. IsFiniteSet((t + 1)..issued) /\ Cardinality((t + 1)..issued) = issued - t
  <2>1. t + 1 \in Int /\ issued \in Int
    BY <1>1
  <2> QED
    BY <1>1, <2>1, FS_Interval
<1>4. IsFiniteSet(newer) /\ Cardinality(newer) <= issued - t /\ Cardinality(newer) \in Nat
  BY <1>2, <1>3, FS_Subset, FS_CardinalityType
<1>5. ~(Cardinality(newer) < MaxProofs - 1)
  BY DEF Issue
<1>6. issued' = issued + 1
  BY DEF Issue
<1> QED
  BY <1>1, <1>4, <1>5, <1>6

LEMMA IssueTyped ==
    ASSUME TypeOK, Issue
    PROVE  /\ issued' = issued + 1
           /\ issued' \in Nat
           /\ issued + 1 \in proofs'
           /\ proofs' \in SUBSET (1..issued')
           /\ events \in SUBSET [token : 1..issued', name : Names]
<1>1. issued \in Nat /\ issued' = issued + 1 /\ issued + 1 \in proofs'
  BY DEF TypeOK, Issue
<1>2. 1..issued \subseteq 1..issued' /\ issued + 1 \in 1..issued'
  BY <1>1
<1>3. proofs' \in SUBSET (1..issued')
  BY <1>1, <1>2 DEF TypeOK, Issue
<1>4. events \in SUBSET [token : 1..issued', name : Names]
  BY <1>2 DEF TypeOK
<1> QED
  BY <1>1, <1>3, <1>4

-----------------------------------------------------------------------------
(* Every step keeps the invariant.                                         *)

LEMMA InitInv == Init => Inv
<1> SUFFICES ASSUME Init PROVE Inv
  OBVIOUS
<1> USE DEF Init, NewCall
<1>1. TypeOK
  BY ConstantsAssumption DEF TypeOK, Names, Pcs, Ends, Kept, Gone, Handling
<1>2. Posted
  BY DEF Posted
<1>3. Accepted /\ Verdicts /\ Remembered
  BY DEF Accepted, Verdicts, Remembered, Gone
<1> QED
  BY <1>1, <1>2, <1>3 DEF Inv

LEMMA DownloadKeeps ==
    ASSUME Inv, NEW s \in Saves, Download(s)
    PROVE  Inv'
<1> USE DEF Inv
<1>0. handlers[s] = "idle" /\ Issue /\ issued \in Nat /\ restarts \in Nat
  BY DEF Download, At, Posted, Before, TypeOK
<1>1. TypeOK'
  <2>1. calls' \in [Saves -> [pc : Pcs, url : 1..Urls, token : 0..issued', epoch : 0..restarts',
                              name : Names, verdict : {"failed", "rejected", "notRecorded"}]]
    <3>1. 0..issued \subseteq 0..issued' /\ issued + 1 \in 0..issued' /\ restarts \in 0..restarts
      BY <1>0, IssueTyped
    <3>2. calls \in [Saves -> [pc : Pcs, url : 1..Urls, token : 0..issued', epoch : 0..restarts,
                               name : Names, verdict : {"failed", "rejected", "notRecorded"}]]
      BY <3>1 DEF TypeOK
    <3> QED
      BY <3>1, <3>2 DEF Download, Pcs
  <2> QED
    BY <1>0, <2>1, IssueTyped DEF Download, TypeOK
<1>2. /\ \A t \in Saves \ {s} : calls'[t] = calls[t]
      /\ calls'[s] = [calls[s] EXCEPT !.pc = "locate", !.token = issued + 1, !.epoch = restarts]
  BY DEF Download, TypeOK
<1>3. \A t \in Saves : calls[t].token \in 0..issued
  BY DEF TypeOK
<1>4. calls'[s].token = issued + 1 /\ calls'[s].pc = "locate" /\ calls'[s].epoch = restarts
  BY <1>2 DEF TypeOK
<1>5. Posted'
  BY <1>0, <1>2, <1>3, <1>4 DEF Posted, Download, Before
<1>6. Accepted'
  BY <1>0, <1>2 DEF Accepted, Download, EventFor
<1>7. Verdicts'
  BY <1>2, <1>4 DEF Verdicts, Download, Gone
<1>8. Remembered'
  <2>1. issued' = issued + 1 /\ issued + 1 \in proofs'
    BY <1>0, IssueTyped
  <2>2. ASSUME NEW t \in Saves \ {s}
        PROVE  /\ handlers[t] \in {"idle", "arrived"} /\ calls[t].token > 0
                    => calls[t].token \in proofs' \/ Forgotten(t)'
               /\ handlers[t] = "refused" => Forgotten(t)'
    <3>1. Forgotten(t) => Forgotten(t)'
      BY <1>0, <1>2, <1>3, <2>1, ConstantsAssumption DEF Forgotten, Download
    <3>2. calls[t].token \in proofs \ proofs' => Forgotten(t)'
      BY <1>0, <1>2, IssueDrops DEF Forgotten
    <3> QED
      BY <3>1, <3>2 DEF Remembered
  <2> QED
    BY <1>0, <1>2, <1>4, <2>1, <2>2 DEF Remembered, Download
<1> QED
  BY <1>1, <1>5, <1>6, <1>7, <1>8

LEMMA UnansweredKeeps ==
    ASSUME Inv, DownloadUnanswered
    PROVE  Inv'
<1> USE DEF Inv
<1>0. Issue /\ issued \in Nat /\ UNCHANGED <<events, files, calls, handlers, restarts>>
  BY DEF DownloadUnanswered, TypeOK
<1>1. TypeOK'
  <2>1. calls \in [Saves -> [pc : Pcs, url : 1..Urls, token : 0..issued', epoch : 0..restarts,
                             name : Names, verdict : {"failed", "rejected", "notRecorded"}]]
    BY <1>0, IssueTyped DEF TypeOK
  <2> QED
    BY <1>0, <2>1, IssueTyped DEF TypeOK
<1>2. Posted' /\ Accepted' /\ Verdicts'
  BY <1>0 DEF Posted, Accepted, Verdicts, EventFor
<1>3. Remembered'
  <2>1. issued' = issued + 1
    BY <1>0, IssueTyped
  <2>2. ASSUME NEW t \in Saves
        PROVE  /\ handlers[t] \in {"idle", "arrived"} /\ calls[t].token > 0
                    => calls[t].token \in proofs' \/ Forgotten(t)'
               /\ handlers[t] = "refused" => Forgotten(t)'
    <3>1. Forgotten(t) => Forgotten(t)'
      BY <1>0, <2>1, ConstantsAssumption DEF Forgotten, TypeOK
    <3>2. calls[t].token \in proofs \ proofs' => Forgotten(t)'
      BY <1>0, IssueDrops DEF Forgotten
    <3> QED
      BY <3>1, <3>2 DEF Remembered
  <2> QED
    BY <1>0, <2>2 DEF Remembered
<1> QED
  BY <1>1, <1>2, <1>3

(* Client steps that touch neither the server nor the log.                 *)
LEMMA LocalKeeps ==
    ASSUME Inv, NEW s \in Saves,
           \/ DownloadFails(s) \/ Locate(s) \/ Write(s) \/ WriteFails(s)
           \/ RemovePartial(s) \/ PostRefused(s) \/ PostForbidden(s)
    PROVE  Inv'
<1> USE DEF Inv
<1>0. /\ UNCHANGED <<proofs, issued, events, handlers, restarts>>
      /\ calls[s].pc \in Before
      /\ handlers[s] = "idle"
  BY DEF DownloadFails, Locate, Write, WriteFails, RemovePartial, PostRefused, PostForbidden,
         At, Posted, Before
<1>1. TypeOK'
  BY <1>0, ConstantsAssumption
     DEF DownloadFails, Locate, Write, WriteFails, RemovePartial, PostRefused, PostForbidden,
         Goto, At, TypeOK, Pcs, Ends, Gone, Kept
<1>2. /\ \A t \in Saves \ {s} : calls'[t] = calls[t]
      /\ calls'[s].token = calls[s].token /\ calls'[s].epoch = calls[s].epoch
  BY DEF DownloadFails, Locate, Write, WriteFails, RemovePartial, PostRefused, PostForbidden,
         Goto, TypeOK
<1>3. /\ calls'[s].pc \notin {"returned", "wait"}
      /\ calls'[s].pc \in {"locate", "write", "post"}
            => calls[s].pc \in {"locate", "write", "post"}
  BY DEF DownloadFails, Locate, Write, WriteFails, RemovePartial, PostRefused, PostForbidden,
         Goto, At, TypeOK
<1>4. Posted'
  BY <1>0, <1>2, <1>3 DEF Posted
<1>5. Accepted'
  BY <1>0, <1>2 DEF Accepted, EventFor
<1>6. Verdicts'
  BY <1>0, <1>2, <1>3 DEF Verdicts
<1>7. Remembered'
  BY <1>0, <1>2 DEF Remembered, Forgotten
<1> QED
  BY <1>1, <1>4, <1>5, <1>6, <1>7

(* Client steps after the request went out.                                *)
LEMMA AnswerKeeps ==
    ASSUME Inv, NEW s \in Saves, Receive(s) \/ ReceiveNothing(s) \/ Remove(s)
    PROVE  Inv'
<1> USE DEF Inv
<1>0. UNCHANGED <<proofs, issued, events, handlers, restarts>>
  BY DEF Receive, ReceiveNothing, Remove
<1>1. TypeOK'
  BY <1>0 DEF Receive, ReceiveNothing, Remove, Goto, TypeOK, Pcs, Ends, Gone, Kept
<1>2. /\ \A t \in Saves \ {s} : calls'[t] = calls[t]
      /\ calls'[s].token = calls[s].token /\ calls'[s].epoch = calls[s].epoch
      /\ calls'[s].name = calls[s].name
      /\ calls'[s].pc \in {"returned", "unconfirmed", "remove", "failed", "rejected",
                           "notRecorded", "removeFailed"}
  BY DEF Receive, ReceiveNothing, Remove, Goto, TypeOK
<1>3. /\ calls'[s].pc = "returned" => handlers[s] = "accepted"
      /\ calls'[s].pc \in Gone \cup {"remove"} => handlers[s] \in {"idle", "refused"}
  BY DEF Receive, ReceiveNothing, Remove, Goto, At, TypeOK, Verdicts, Gone
<1>4. Posted'
  BY <1>0, <1>2 DEF Posted, Before
<1>5. Accepted'
  BY <1>0, <1>2 DEF Accepted, EventFor
<1>6. Verdicts'
  BY <1>0, <1>2, <1>3 DEF Verdicts
<1>7. Remembered'
  BY <1>0, <1>2 DEF Remembered, Forgotten
<1> QED
  BY <1>1, <1>4, <1>5, <1>6, <1>7

(* The request arrives and is handled.                                     *)
LEMMA PostKeeps ==
    ASSUME Inv, NEW s \in Saves, Post(s)
    PROVE  Inv'
<1> USE DEF Inv
<1>0. /\ UNCHANGED <<proofs, issued, events, files, restarts>>
      /\ calls[s].token > 0 /\ handlers[s] = "idle"
  BY DEF Post, At, Posted, Before
<1>1. TypeOK'
  BY <1>0 DEF Post, Goto, TypeOK, Pcs, Handling
<1>2. /\ \A t \in Saves \ {s} : calls'[t] = calls[t] /\ handlers'[t] = handlers[t]
      /\ calls'[s] = [calls[s] EXCEPT !.pc = "wait"]
      /\ handlers'[s] = "arrived"
  BY DEF Post, Goto, TypeOK
<1>3. calls'[s].pc = "wait" /\ calls'[s].token = calls[s].token
      /\ calls'[s].epoch = calls[s].epoch /\ calls'[s].name = calls[s].name
  BY <1>2 DEF TypeOK
<1>4. Posted'
  <2>1. \A t \in Saves : calls'[t].token = calls[t].token
    BY <1>2, <1>3
  <2>2. \A t \in Saves \ {s} : calls'[t].pc = calls[t].pc /\ handlers'[t] = handlers[t]
    BY <1>2
  <2>3. \A t \in Saves :
            /\ calls'[t].pc \in Before => handlers'[t] = "idle"
            /\ calls'[t].pc \in {"locate", "write", "post", "wait"} => calls[t].token > 0
            /\ handlers'[t] # "idle" => calls[t].token > 0
    BY <1>0, <1>2, <1>3, <2>2 DEF Posted, Before
  <2>4. \A t, u \in Saves : calls[t].token = calls[u].token /\ calls[t].token > 0 => t = u
    BY DEF Posted
  <2> QED
    BY <2>1, <2>3, <2>4 DEF Posted
<1>5. Accepted'
  BY <1>0, <1>2 DEF Accepted, EventFor
<1>6. Verdicts'
  BY <1>2, <1>3 DEF Verdicts, Gone
<1>7. Remembered'
  BY <1>0, <1>2, <1>3 DEF Remembered, Forgotten
<1> QED
  BY <1>1, <1>4, <1>5, <1>6, <1>7

LEMMA ConsumeKeeps ==
    ASSUME Inv, NEW s \in Saves, Consume(s)
    PROVE  Inv'
<1> USE DEF Inv
<1>0. UNCHANGED <<issued, events, files, calls, restarts>> /\ handlers[s] = "arrived"
  BY DEF Consume
<1>1. TypeOK'
  BY <1>0 DEF Consume, TypeOK, Handling
<1>2. /\ \A t \in Saves \ {s} : handlers'[t] = handlers[t]
      /\ handlers'[s] = IF calls[s].token \in proofs THEN "consumed" ELSE "refused"
      /\ proofs' = proofs \ {calls[s].token}
      /\ calls[s].token > 0
  BY <1>0 DEF Consume, TypeOK, Posted
<1>3. Posted'
  BY <1>0, <1>2 DEF Posted
<1>4. Accepted'
  BY <1>0, <1>2 DEF Accepted, EventFor
<1>5. Verdicts'
  BY <1>0, <1>2 DEF Verdicts
<1>6. Remembered'
  BY <1>0, <1>2 DEF Remembered, Forgotten, Posted
<1> QED
  BY <1>1, <1>3, <1>4, <1>5, <1>6

LEMMA RecordKeeps ==
    ASSUME Inv, NEW s \in Saves, RecordEvent(s)
    PROVE  Inv'
<1> USE DEF Inv
<1>0. /\ UNCHANGED <<proofs, issued, files, calls, restarts>>
      /\ handlers[s] = "consumed" /\ calls[s].token > 0
  BY DEF RecordEvent, Posted
<1>1. TypeOK'
  <2>1. EventFor(s) \in [token : 1..issued, name : Names]
    BY <1>0 DEF EventFor, TypeOK
  <2> QED
    BY <1>0, <2>1 DEF RecordEvent, TypeOK, Handling, EventFor
<1>2. /\ \A t \in Saves \ {s} : handlers'[t] = handlers[t]
      /\ \/ handlers'[s] = "accepted" /\ events' = events \cup {EventFor(s)}
         \/ handlers'[s] = "dropped" /\ events' = events
  BY DEF RecordEvent, TypeOK, EventFor
<1>3. Posted'
  BY <1>0, <1>2 DEF Posted
<1>4. Accepted'
  BY <1>0, <1>2 DEF Accepted, EventFor
<1>5. Verdicts'
  BY <1>0, <1>2 DEF Verdicts
<1>6. Remembered'
  BY <1>0, <1>2 DEF Remembered, Forgotten
<1> QED
  BY <1>1, <1>3, <1>4, <1>5, <1>6

LEMMA RestartKeeps ==
    ASSUME Inv, Restart
    PROVE  Inv'
<1> USE DEF Inv
<1>0. /\ UNCHANGED <<issued, events, files, calls>>
      /\ restarts \in Nat /\ restarts' = restarts + 1 /\ proofs' = {}
  BY DEF Restart, TypeOK
<1>1. TypeOK'
  <2>1. calls \in [Saves -> [pc : Pcs, url : 1..Urls, token : 0..issued, epoch : 0..restarts',
                             name : Names, verdict : {"failed", "rejected", "notRecorded"}]]
    BY <1>0 DEF TypeOK
  <2> QED
    BY <1>0, <2>1 DEF Restart, TypeOK, Handling
<1>2. \A t \in Saves : \/ handlers'[t] = handlers[t]
                       \/ handlers[t] \in {"arrived", "consumed"} /\ handlers'[t] = "dropped"
  BY DEF Restart
<1>3. Posted'
  BY <1>0, <1>2 DEF Posted
<1>4. Accepted'
  BY <1>0, <1>2 DEF Accepted, EventFor
<1>5. Verdicts'
  BY <1>0, <1>2 DEF Verdicts
<1>6. Remembered'
  <2>1. \A t \in Saves : Forgotten(t)'
    BY <1>0 DEF Forgotten, TypeOK
  <2> QED
    BY <2>1 DEF Remembered
<1> QED
  BY <1>1, <1>3, <1>4, <1>5, <1>6

LEMMA StepInv == Inv /\ [Next]_vars => Inv'
<1> SUFFICES ASSUME Inv, [Next]_vars PROVE Inv'
  OBVIOUS
<1>1. ASSUME NEW s \in Saves, ClientStep(s) PROVE Inv'
  BY <1>1, DownloadKeeps, LocalKeeps, AnswerKeeps, PostKeeps DEF ClientStep
<1>2. ASSUME NEW s \in Saves, ServerStep(s) PROVE Inv'
  BY <1>2, ConsumeKeeps, RecordKeeps DEF ServerStep
<1>3. CASE DownloadUnanswered
  BY <1>3, UnansweredKeeps
<1>4. CASE Restart
  BY <1>4, RestartKeeps
<1>5. CASE UNCHANGED vars
  BY <1>5 DEF vars, Inv, TypeOK, Posted, Accepted, Verdicts, Remembered, Forgotten, EventFor
<1> QED
  BY <1>1, <1>2, <1>3, <1>4, <1>5 DEF Next

(* The inductive invariant of the save protocol.                           *)
THEOREM SaveInvariant == Spec => []Inv
<1> QED
  BY InitInv, StepInv, PTL DEF Spec

(* Every variable of client and server keeps its shape.                    *)
THEOREM SaveTypeCorrect == Spec => []TypeOK
<1>1. Inv => TypeOK
  BY DEF Inv
<1> QED
  BY <1>1, SaveInvariant, PTL

(* A returned save is in the audit log under its name; a rejected or not   *)
(* recorded one is not and never will be.                                  *)
THEOREM OutcomesMatchTheLog == Spec => []OutcomeMatchesAudit
<1>1. Inv => OutcomeMatchesAudit
  <2> SUFFICES ASSUME Inv, NEW s \in Saves
               PROVE  /\ At(s, "returned") => EventFor(s) \in events
                      /\ calls[s].pc \in Gone => \A e \in events : e.token # calls[s].token
    BY DEF OutcomeMatchesAudit
  <2>1. At(s, "returned") => EventFor(s) \in events
    BY DEF Inv, Accepted, Verdicts, At
  <2>2. ASSUME calls[s].pc \in Gone, NEW e \in events PROVE e.token # calls[s].token
    <3>1. PICK t \in Saves : EventFor(t) = e /\ handlers[t] = "accepted"
      BY DEF Inv, Accepted
    <3>2. e.token = calls[t].token /\ calls[t].token > 0
      BY <3>1 DEF EventFor, Inv, Posted
    <3>3. handlers[s] # "accepted"
      BY <2>2 DEF Inv, Verdicts
    <3> QED
      BY <3>1, <3>2, <3>3 DEF Inv, Posted
  <2> QED
    BY <2>1, <2>2
<1> QED
  BY <1>1, SaveInvariant, PTL

(* Every audit event tells the truth about one save.                       *)
THEOREM EventsAreTruthful == Spec => []EventsTruthful
<1>1. Inv => EventsTruthful
  <2> SUFFICES ASSUME Inv, NEW e \in events
               PROVE  /\ \E s \in Saves : EventFor(s) = e /\ handlers[s] = "accepted"
                      /\ \A d \in events : d.token = e.token => d = e
    BY DEF EventsTruthful
  <2>1. PICK s \in Saves : EventFor(s) = e /\ handlers[s] = "accepted"
    BY DEF Inv, Accepted
  <2>2. ASSUME NEW d \in events, d.token = e.token PROVE d = e
    <3>1. PICK t \in Saves : EventFor(t) = d /\ handlers[t] = "accepted"
      BY DEF Inv, Accepted
    <3>2. calls[s].token = calls[t].token /\ calls[s].token > 0
      BY <2>1, <2>2, <3>1 DEF EventFor, Inv, Posted
    <3> QED
      BY <2>1, <3>1, <3>2 DEF Inv, Posted
  <2> QED
    BY <2>1, <2>2
<1> QED
  BY <1>1, SaveInvariant, PTL

(* The server refuses a proof only after a restart or MaxProofs newer      *)
(* downloads.                                                              *)
THEOREM RefusalsAreJustified == Spec => []RefusedOnlyIfForgotten
<1>1. Inv => RefusedOnlyIfForgotten
  BY DEF Inv, Remembered, Forgotten, RefusedOnlyIfForgotten
<1> QED
  BY <1>1, SaveInvariant, PTL

-----------------------------------------------------------------------------
(***************************************************************************)
(* Files.  From the write on a call owns the file it wrote, or a call that *)
(* failed carries the same name: its clean-up may have unlinked the file,  *)
(* and the name may since belong to a third call.  A call that removes its *)
(* own file can take another call's only behind such a clean-up.           *)
(***************************************************************************)
Holding == {"post", "wait", "remove", "returned", "unconfirmed"}
FailedWithNameOf(s) ==
    \E t \in Saves \ {s} : At(t, "failed") /\ calls[t].name = calls[s].name
FilesOwned ==
    \A s \in Saves :
        calls[s].pc \in Holding => files[calls[s].name] = s \/ FailedWithNameOf(s)

(* A step of call s that leaves every other call alone, and a failed call  *)
(* as it is, keeps the failed calls that others rely on.                   *)
LEMMA FailedKept ==
    ASSUME NEW s \in Saves, ~At(s, "failed"),
           \A t \in Saves \ {s} : calls'[t] = calls[t],
           NEW u \in Saves \ {s}, FailedWithNameOf(u)
    PROVE  FailedWithNameOf(u)'
  BY DEF FailedWithNameOf, At

(* A step of call s that leaves its name and the files alone.              *)
LEMMA OwnedQuietly ==
    ASSUME FilesOwned, NEW s \in Saves, ~At(s, "failed"), UNCHANGED files,
           \A t \in Saves \ {s} : calls'[t] = calls[t],
           \/ calls'[s].pc \notin Holding
           \/ calls[s].pc \in Holding /\ calls'[s].name = calls[s].name
    PROVE  FilesOwned'
<1> SUFFICES ASSUME NEW u \in Saves, calls'[u].pc \in Holding
             PROVE  files'[calls'[u].name] = u \/ FailedWithNameOf(u)'
  BY DEF FilesOwned
<1>1. CASE u = s
  BY <1>1 DEF FilesOwned, FailedWithNameOf, At
<1>2. CASE u # s
  BY <1>2, FailedKept DEF FilesOwned
<1> QED
  BY <1>1, <1>2

LEMMA OwnedClient ==
    ASSUME TypeOK, FilesOwned, NEW s \in Saves, ClientStep(s)
    PROVE  FilesOwned'
<1> USE DEF At
<1>0. /\ calls \in [Saves -> [pc : Pcs, url : 1..Urls, token : 0..issued, epoch : 0..restarts,
                            name : Names, verdict : {"failed", "rejected", "notRecorded"}]]
      /\ files \in [Names -> Saves \cup {None}]
      /\ None \notin Saves
  BY ConstantsAssumption DEF TypeOK
<1>1. /\ \A t \in Saves \ {s} : calls'[t] = calls[t]
      /\ ~At(s, "failed")
  BY <1>0 DEF ClientStep, Download, DownloadFails, Locate, Write, WriteFails, RemovePartial,
              Post, PostRefused, PostForbidden, Receive, ReceiveNothing, Remove, Goto
<1>2. CASE Download(s) \/ DownloadFails(s)
  <2>1. calls'[s].pc \notin Holding /\ UNCHANGED files
    BY <1>0, <1>2 DEF Download, DownloadFails, Holding
  <2> QED
    BY <1>1, <2>1, OwnedQuietly
<1>3. CASE Locate(s)
  <2>1. calls'[s].pc \notin Holding /\ UNCHANGED files
    BY <1>0, <1>3 DEF Locate, Goto, Holding
  <2> QED
    BY <1>1, <2>1, OwnedQuietly
<1>4. CASE Post(s) \/ PostRefused(s) \/ PostForbidden(s) \/ Receive(s) \/ ReceiveNothing(s)
  <2>1. calls[s].pc \in Holding /\ calls'[s].name = calls[s].name /\ UNCHANGED files
    BY <1>0, <1>4 DEF Post, PostRefused, PostForbidden, Receive, ReceiveNothing, Goto, Holding
  <2> QED
    BY <1>1, <2>1, OwnedQuietly
<1>5. CASE Write(s) \/ WriteFails(s)
  <2>1. CASE UNCHANGED files
    <3>1. calls'[s].pc \notin Holding \/ files[calls[s].name] = s
      BY <1>0, <1>5, <2>1 DEF Write, WriteFails, Goto, Holding
    <3>2. calls'[s].pc \notin Holding
      BY <1>0, <1>5, <2>1, <3>1 DEF Write, WriteFails, Goto, Holding
    <3> QED
      BY <1>1, <2>1, <3>2, OwnedQuietly
  <2>2. CASE files[calls[s].name] = None /\ files' = [files EXCEPT ![calls[s].name] = s]
    <3> SUFFICES ASSUME NEW u \in Saves, calls'[u].pc \in Holding
                 PROVE  files'[calls'[u].name] = u \/ FailedWithNameOf(u)'
      BY DEF FilesOwned
    <3>1. CASE u = s
      BY <1>0, <1>5, <2>2, <3>1 DEF Write, WriteFails, Goto
    <3>2. CASE u # s
      <4>1. files[calls[u].name] = u \/ FailedWithNameOf(u)
        BY <1>1, <3>2 DEF FilesOwned
      <4>2. CASE files[calls[u].name] = u
        BY <1>0, <1>1, <2>2, <3>2, <4>2
      <4>3. CASE FailedWithNameOf(u)
        BY <1>1, <3>2, <4>3, FailedKept
      <4> QED
        BY <4>1, <4>2, <4>3
    <3> QED
      BY <3>1, <3>2
  <2> QED
    BY <1>5, <2>1, <2>2 DEF Write, WriteFails
<1>6. CASE RemovePartial(s) \/ Remove(s)
  <2> SUFFICES ASSUME NEW u \in Saves, calls'[u].pc \in Holding
               PROVE  files'[calls'[u].name] = u \/ FailedWithNameOf(u)'
    BY DEF FilesOwned
  <2>1. /\ calls'[s].pc \notin Holding
        /\ calls'[s].name = calls[s].name
    BY <1>0, <1>6 DEF RemovePartial, Remove, Goto, Holding
  <2>2. u # s /\ calls'[u] = calls[u] /\ calls[u].pc \in Holding
    BY <1>1, <2>1
  <2>3. CASE FailedWithNameOf(u)
    BY <1>1, <2>2, <2>3, FailedKept
  <2>4. CASE files[calls[u].name] = u
    <3>1. CASE calls[s].name # calls[u].name \/ UNCHANGED files
      BY <1>0, <1>6, <2>2, <2>4, <3>1 DEF RemovePartial, Remove
    <3>2. CASE calls[s].name = calls[u].name /\ RemovePartial(s)
      <4>1. calls'[s].pc = "failed"
        BY <1>0, <3>2 DEF RemovePartial, Goto
      <4> QED
        BY <2>1, <2>2, <3>2, <4>1 DEF FailedWithNameOf
    <3>3. CASE calls[s].name = calls[u].name /\ Remove(s)
      <4>1. FailedWithNameOf(s)
        BY <2>2, <2>4, <3>3 DEF Remove, FilesOwned, Holding
      <4>2. PICK t \in Saves \ {s} : calls[t].pc = "failed" /\ calls[t].name = calls[s].name
        BY <4>1 DEF FailedWithNameOf
      <4>3. t # u /\ calls'[t] = calls[t]
        BY <1>1, <2>2, <4>2 DEF Holding
      <4> QED
        BY <2>2, <3>3, <4>2, <4>3 DEF FailedWithNameOf
    <3> QED
      BY <1>6, <3>1, <3>2, <3>3
  <2> QED
    BY <2>2, <2>3, <2>4 DEF FilesOwned
<1> QED
  BY <1>2, <1>3, <1>4, <1>5, <1>6 DEF ClientStep

(***************************************************************************)
(* The file of a save that returned is still there, or a call that failed  *)
(* to write the very same name cleaned it up: whatever the interleaving of *)
(* locate, exclusive creation and removal, no other call loses a file that *)
(* the audit log and the user rely on.                                     *)
(***************************************************************************)
THEOREM AuditedFilesAreKept == Spec => []AuditedFilesKept
<1>1. Init => FilesOwned
  BY DEF Init, NewCall, FilesOwned, Holding
<1>2. TypeOK /\ FilesOwned /\ [Next]_vars => FilesOwned'
  <2> SUFFICES ASSUME TypeOK, FilesOwned, [Next]_vars PROVE FilesOwned'
    OBVIOUS
  <2>1. CASE \E s \in Saves : ClientStep(s)
    BY <2>1, OwnedClient
  <2>2. CASE UNCHANGED <<files, calls>>
    BY <2>2 DEF FilesOwned, FailedWithNameOf, At
  <2> QED
    BY <2>1, <2>2 DEF Next, vars, ServerStep, Consume, RecordEvent, DownloadUnanswered, Restart
<1>3. FilesOwned => AuditedFilesKept
  BY DEF FilesOwned, Holding, AuditedFilesKept, FailedWithNameOf, At
<1> QED
  BY <1>1, <1>2, <1>3, SaveTypeCorrect, PTL DEF Spec
============================================================================
