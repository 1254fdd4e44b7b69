------------------------ MODULE TempFileStoreProofs ------------------------
(***************************************************************************)
(* Live artifacts are kept and no ciphertext is leaked: for any number of  *)
(* artifacts, calls, ticks and crashes.                                    *)
(*                                                                         *)
(* The store takes no lock, so the argument is about who may touch which   *)
(* file.  A file that is being written belongs to one save, whose id no    *)
(* other call can know.  Once save has returned the two files only         *)
(* disappear, the ciphertext first; and whoever is about to unlink one     *)
(* holds a reason that stays true: the id was asked to be deleted, or its  *)
(* expiry had passed on a clock that only advances.                        *)
(***************************************************************************)
EXTENDS TempFileStore, TLAPS

CallType == [pc : Pcs, op : Ops \cup {"none"}, ids : SUBSET Ids,
             todo : SUBSET Ids, due : SUBSET Ids, now : Nat]

(* What each kind of call may be doing.                                    *)
Shape(c) ==
    \/ calls[c].op = "none" /\ calls[c].pc = "idle"
    \/ calls[c].op = "save" /\ calls[c].pc \in SavePcs \cup Ends
    \/ calls[c].op = "delete" /\ calls[c].pc \in DeletePcs \cup Ends
    \/ calls[c].op = "read" /\ calls[c].pc \in {"find", "check", "decrypt"} \cup DeletePcs \cup Ends
    \/ calls[c].op = "cleanup" /\ calls[c].pc \in {"next", "inspect"} \cup DeletePcs \cup Ends

(* A save knows what is on disk: nobody else touches its files.            *)
SaveOK(c) ==
    calls[c].op = "save" =>
        \E i \in Ids :
            /\ calls[c].ids = {i}
            /\ calls[c].pc \in SavePcs =>
                /\ i \notin saved \cup lost
                /\ bin[i] = CASE calls[c].pc = "createBin" -> "none"
                              [] calls[c].pc = "writeBin" -> "torn"
                              [] OTHER -> "whole"
                /\ meta[i] = IF calls[c].pc = "writeMeta" THEN "torn" ELSE "none"

(* Whoever deletes has a reason, and the ciphertext goes first.            *)
DeletionOK(c) ==
    calls[c].pc \in DeletePcs =>
        \E i \in saved :
            /\ calls[c].ids = {i}
            /\ i \in deleted \/ expires[i] <= clock
            /\ calls[c].pc \in {"unlinkMeta", "fallback"} => bin[i] = "none"

ReaderOK(c) ==
    calls[c].op \in {"delete", "read"} =>
        \E i \in saved :
            /\ calls[c].ids = {i}
            /\ calls[c].op = "delete" =>
                i \in deleted /\ (calls[c].pc \in {"returned", "raised"} => bin[i] = "none")

(* What a cleanup still has to do for the artifacts due when it began.     *)
CleanupOK(c) ==
    calls[c].op = "cleanup" =>
        /\ calls[c].now <= clock
        /\ calls[c].pc = "inspect" => \E i \in Ids : calls[c].ids = {i}
        /\ \A i \in calls[c].due :
            /\ i \in saved
            /\ expires[i] <= calls[c].now
            /\ \/ bin[i] = "none"
               \/ calls[c].pc # "returned" /\ i \in calls[c].todo
               \/ calls[c].pc \in {"inspect", "locate", "load", "unlinkBin"} /\ calls[c].ids = {i}
               \/ calls[c].pc \in {"raised", "died"}

CallOK(c) == Shape(c) /\ SaveOK(c) /\ DeletionOK(c) /\ ReaderOK(c) /\ CleanupOK(c)

(* Two saves never work on the same id.                                    *)
OwnIds ==
    \A c, d \in Calls :
        calls[c].op = "save" /\ calls[d].op = "save" /\ calls[c].ids = calls[d].ids => c = d

Saving(i) == \E c \in Calls : calls[c].pc \in SavePcs /\ calls[c].ids = {i}

(* The two files of an artifact.                                           *)
FilesOK(i) ==
    /\ i \in saved =>
        /\ i \notin lost
        /\ bin[i] \in {"none", "whole"} /\ meta[i] \in {"none", "whole"}
        /\ meta[i] = "none" => bin[i] = "none"
        /\ i \notin deleted /\ clock < expires[i] => bin[i] = "whole" /\ meta[i] = "whole"
    /\ i \notin saved => meta[i] # "whole"
    /\ bin[i] # "none" \/ meta[i] # "none" => i \in saved \cup lost \/ Saving(i)

Inv ==
    /\ TypeOK
    /\ \A c \in Calls : CallOK(c)
    /\ OwnIds
    /\ \A i \in Ids : FilesOK(i)

-----------------------------------------------------------------------------
(* What the steps have in common.                                          *)

LEMMA TheIdIs ==
    ASSUME NEW c \in Calls, NEW i \in Ids, calls[c].ids = {i}
    PROVE  TheId(c) = i
<1>1. \A j : calls[c].ids = {j} <=> j = i
  OBVIOUS
<1> QED
  BY <1>1 DEF TheId

(***************************************************************************)
(* What a step of a save of the ids J, or of another call (J = {}), may do *)
(* to what the other calls rely on.                                        *)
(***************************************************************************)
Gentle(J) ==
    /\ saved \subseteq saved' /\ saved' \subseteq saved \cup J /\ lost' \subseteq lost \cup J
    /\ deleted \subseteq deleted' /\ clock <= clock'
    /\ \A i \in saved : expires'[i] = expires[i] /\ bin'[i] \in {bin[i], "none"}
    /\ \A i \in Ids \ (saved \cup J) : bin'[i] = bin[i] /\ meta'[i] = meta[i]

LEMMA StableCall ==
    ASSUME TypeOK, TypeOK', NEW J, Gentle(J), NEW d \in Calls, calls'[d] = calls[d],
           calls[d].op = "save" => calls[d].ids \cap J = {}, CallOK(d)
    PROVE  CallOK(d)'
<1>1. Shape(d)'
  BY DEF CallOK, Shape
<1>2. SaveOK(d)'
  <2> SUFFICES ASSUME calls[d].op = "save" PROVE SaveOK(d)'
    BY DEF SaveOK
  <2>1. PICK i \in Ids :
            /\ calls[d].ids = {i}
            /\ calls[d].pc \in SavePcs =>
                /\ i \notin saved \cup lost
                /\ bin[i] = CASE calls[d].pc = "createBin" -> "none"
                              [] calls[d].pc = "writeBin" -> "torn"
                              [] OTHER -> "whole"
                /\ meta[i] = IF calls[d].pc = "writeMeta" THEN "torn" ELSE "none"
    BY DEF CallOK, SaveOK
  <2>2. i \notin J
    BY <2>1
  <2>3. i \notin saved \cup lost =>
            i \notin saved' \cup lost' /\ bin'[i] = bin[i] /\ meta'[i] = meta[i]
    BY <2>2 DEF Gentle
  <2> QED
    BY <2>1, <2>3 DEF SaveOK
<1>3. DeletionOK(d)'
  BY DEF CallOK, DeletionOK, Gentle, TypeOK
<1>4. ReaderOK(d)'
  BY DEF CallOK, ReaderOK, Gentle, TypeOK
<1>5. CleanupOK(d)'
  BY DEF CallOK, CleanupOK, Gentle, TypeOK
<1> QED
  BY <1>1, <1>2, <1>3, <1>4, <1>5 DEF CallOK

(* A step in which call c moves to k, well typed, and no other call moves. *)
LEMMA MoveOne ==
    ASSUME TypeOK, NEW c \in Calls, NEW k \in CallType, calls' = [calls EXCEPT ![c] = k]
    PROVE  /\ calls' \in [Calls -> CallType]
           /\ calls'[c] = k
           /\ \A d \in Calls : d # c => calls'[d] = calls[d]
  BY DEF TypeOK, CallType

(* A change of the program counter alone.                                  *)
LEMMA MovePc ==
    ASSUME TypeOK, NEW c \in Calls, NEW pc \in Pcs, Goto(c, pc)
    PROVE  /\ calls' \in [Calls -> CallType]
           /\ calls'[c].pc = pc
           /\ calls'[c].op = calls[c].op /\ calls'[c].ids = calls[c].ids
           /\ calls'[c].todo = calls[c].todo /\ calls'[c].due = calls[c].due
           /\ calls'[c].now = calls[c].now
           /\ \A d \in Calls : d # c => calls'[d] = calls[d]
  BY DEF TypeOK, CallType, Goto

(* A step that leaves the files, the history and the clock alone and does  *)
(* not concern a save: what is left to show is the call that moved.        *)
LEMMA QuietStep ==
    ASSUME Inv, NEW c \in Calls,
           UNCHANGED <<bin, meta, expires, clock, saved, deleted, lost, crashes>>,
           calls' \in [Calls -> CallType],
           \A d \in Calls : d # c => calls'[d] = calls[d],
           calls[c].op # "save", calls'[c].op # "save",
           CallOK(c)'
    PROVE  Inv'
<1>1. TypeOK'
  BY DEF Inv, TypeOK, CallType
<1>2. Gentle({})
  BY DEF Gentle, Inv, TypeOK
<1>3. ASSUME NEW d \in Calls PROVE CallOK(d)'
  BY <1>1, <1>2, StableCall DEF Inv
<1>4. OwnIds'
  BY DEF Inv, OwnIds
<1>5. calls[c].pc \notin SavePcs /\ calls'[c].pc \notin SavePcs
  BY DEF Inv, CallOK, Shape, SavePcs, DeletePcs, Ends
<1>6. \A i \in Ids : FilesOK(i)'
  <2> SUFFICES ASSUME NEW i \in Ids PROVE FilesOK(i)'
    OBVIOUS
  <2>1. Saving(i)' <=> Saving(i)
    BY <1>5 DEF Saving
  <2> QED
    BY <2>1 DEF Inv, FilesOK
<1> QED
  BY <1>1, <1>3, <1>4, <1>6 DEF Inv

-----------------------------------------------------------------------------
(* Reading and deciding: read, and delete and cleanup up to the unlinks.   *)

Untouched == UNCHANGED <<bin, meta, expires, clock, saved, deleted, lost, crashes>>

(* A call in the midst of a deletion, and the artifact it is about.        *)
LEMMA DeletionTarget ==
    ASSUME Inv, NEW c \in Calls, calls[c].pc \in DeletePcs
    PROVE  /\ calls[c].op \in {"delete", "read", "cleanup"}
           /\ \E i \in saved :
                /\ i \in Ids /\ calls[c].ids = {i} /\ TheId(c) = i
                /\ i \in deleted \/ expires[i] <= clock
                /\ calls[c].pc \in {"unlinkMeta", "fallback"} => bin[i] = "none"
                /\ meta[i] # "whole" => bin[i] = "none"
<1>1. PICK i \in saved :
            /\ calls[c].ids = {i}
            /\ i \in deleted \/ expires[i] <= clock
            /\ calls[c].pc \in {"unlinkMeta", "fallback"} => bin[i] = "none"
  BY DEF Inv, CallOK, DeletionOK
<1>2. i \in Ids
  BY DEF Inv, TypeOK
<1>3. TheId(c) = i
  BY <1>1, <1>2, TheIdIs
<1>4. meta[i] # "whole" => bin[i] = "none"
  BY <1>2 DEF Inv, FilesOK
<1>5. calls[c].op \in {"delete", "read", "cleanup"}
  BY DEF Inv, CallOK, Shape, SavePcs, DeletePcs, Ends
<1> QED
  BY <1>1, <1>2, <1>3, <1>4, <1>5

LEMMA LocateKeeps ==
    ASSUME Inv, NEW c \in Calls, Locate(c)
    PROVE  Inv'
<1>1. calls[c].pc = "locate" /\ calls[c].pc \in DeletePcs /\ Untouched
  BY DEF Locate, At, DeletePcs, Untouched
<1>2. PICK i \in saved :
            /\ i \in Ids /\ calls[c].ids = {i} /\ TheId(c) = i
            /\ i \in deleted \/ expires[i] <= clock
            /\ meta[i] # "whole" => bin[i] = "none"
  BY <1>1, DeletionTarget
<1>3. PICK pc \in {"load", "fallback"} : Goto(c, pc) /\ (pc = "fallback" => meta[i] = "none")
  BY <1>2 DEF Locate
<1>4. pc \in Pcs /\ TypeOK /\ CallOK(c)
  BY DEF Pcs, DeletePcs, Inv
<1>5. /\ calls' \in [Calls -> CallType]
      /\ calls'[c].pc = pc /\ calls'[c].op = calls[c].op /\ calls'[c].ids = calls[c].ids
      /\ calls'[c].todo = calls[c].todo /\ calls'[c].due = calls[c].due
      /\ calls'[c].now = calls[c].now
      /\ \A d \in Calls : d # c => calls'[d] = calls[d]
  BY <1>3, <1>4, MovePc
<1>6. calls[c].op \in {"delete", "read", "cleanup"}
  BY <1>1, DeletionTarget
<1>7. Shape(c)' /\ SaveOK(c)'
  BY <1>3, <1>5, <1>6 DEF Shape, SaveOK, DeletePcs
<1>8. DeletionOK(c)'
  BY <1>1, <1>2, <1>3, <1>5 DEF DeletionOK, Untouched
<1>9. ReaderOK(c)'
  BY <1>1, <1>3, <1>4, <1>5 DEF CallOK, ReaderOK, Untouched
<1>10. CleanupOK(c)'
  BY <1>1, <1>2, <1>3, <1>4, <1>5 DEF CallOK, CleanupOK, Untouched
<1> QED
  BY <1>1, <1>5, <1>6, <1>7, <1>8, <1>9, <1>10, QuietStep DEF CallOK, Untouched

LEMMA LoadKeeps ==
    ASSUME Inv, NEW c \in Calls, Load(c)
    PROVE  Inv'
<1>1. calls[c].pc = "load" /\ calls[c].pc \in DeletePcs /\ Untouched
  BY DEF Load, At, DeletePcs, Untouched
<1>2. PICK i \in saved :
            /\ i \in Ids /\ calls[c].ids = {i} /\ TheId(c) = i
            /\ i \in deleted \/ expires[i] <= clock
            /\ meta[i] # "whole" => bin[i] = "none"
  BY <1>1, DeletionTarget
<1>3. PICK pc \in {"unlinkBin", "next", "raised"} :
            /\ Goto(c, pc)
            /\ pc # "unlinkBin" => bin[i] = "none" /\ pc = AfterError(c)
  BY <1>2 DEF Load, AfterError
<1>4. pc \in Pcs /\ TypeOK /\ CallOK(c)
  BY DEF Pcs, DeletePcs, Ends, Inv
<1>5. /\ calls' \in [Calls -> CallType]
      /\ calls'[c].pc = pc /\ calls'[c].op = calls[c].op /\ calls'[c].ids = calls[c].ids
      /\ calls'[c].todo = calls[c].todo /\ calls'[c].due = calls[c].due
      /\ calls'[c].now = calls[c].now
      /\ \A d \in Calls : d # c => calls'[d] = calls[d]
  BY <1>3, <1>4, MovePc
<1>6. calls[c].op \in {"delete", "read", "cleanup"}
  BY <1>1, DeletionTarget
<1>7. Shape(c)' /\ SaveOK(c)'
  BY <1>3, <1>5, <1>6 DEF Shape, SaveOK, DeletePcs, Ends, AfterError
<1>8. DeletionOK(c)'
  BY <1>1, <1>2, <1>3, <1>5 DEF DeletionOK, DeletePcs, Untouched
<1>9. ReaderOK(c)'
  BY <1>1, <1>2, <1>3, <1>4, <1>5 DEF CallOK, ReaderOK, Untouched
<1>10. CleanupOK(c)'
  BY <1>1, <1>2, <1>3, <1>4, <1>5 DEF CallOK, CleanupOK, Untouched
<1> QED
  BY <1>1, <1>5, <1>6, <1>7, <1>8, <1>9, <1>10, QuietStep DEF CallOK, Untouched

LEMMA ReadKeeps ==
    ASSUME Inv, NEW c \in Calls, Find(c) \/ Check(c) \/ Decrypt(c)
    PROVE  Inv'
<1>1. calls[c].pc \in {"find", "check", "decrypt"} /\ Untouched /\ TypeOK /\ CallOK(c)
  BY DEF Find, Check, Decrypt, At, Untouched, Inv
<1>2. calls[c].op = "read"
  BY <1>1 DEF CallOK, Shape, SavePcs, DeletePcs, Ends
<1>3. PICK i \in saved : calls[c].ids = {i} /\ i \in Ids
  BY <1>1, <1>2 DEF CallOK, ReaderOK, TypeOK
<1>4. TheId(c) = i
  BY <1>3, TheIdIs
<1>5. PICK pc \in {"check", "raised", "locate", "decrypt", "returned"} :
            Goto(c, pc) /\ (pc = "locate" => expires[i] <= clock)
  <2>1. CASE Find(c)
    BY <2>1 DEF Find
  <2>2. CASE Check(c)
    BY <1>4, <2>2 DEF Check, Expired
  <2>3. CASE Decrypt(c)
    BY <2>3 DEF Decrypt
  <2> QED
    BY <2>1, <2>2, <2>3
<1>6. pc \in Pcs
  BY DEF Pcs, DeletePcs, Ends
<1>7. /\ calls' \in [Calls -> CallType]
      /\ calls'[c].pc = pc /\ calls'[c].op = calls[c].op /\ calls'[c].ids = calls[c].ids
      /\ \A d \in Calls : d # c => calls'[d] = calls[d]
  BY <1>1, <1>5, <1>6, MovePc
<1>8. Shape(c)' /\ SaveOK(c)' /\ CleanupOK(c)'
  BY <1>2, <1>5, <1>7 DEF Shape, SaveOK, CleanupOK, DeletePcs, Ends
<1>9. DeletionOK(c)'
  BY <1>1, <1>3, <1>5, <1>7 DEF DeletionOK, DeletePcs, Untouched
<1>10. ReaderOK(c)'
  BY <1>1, <1>2, <1>3, <1>7 DEF ReaderOK, Untouched
<1> QED
  BY <1>1, <1>2, <1>7, <1>8, <1>9, <1>10, QuietStep DEF CallOK, Untouched

LEMMA NextArtifactKeeps ==
    ASSUME Inv, NEW c \in Calls, NextArtifact(c)
    PROVE  Inv'
<1>1. calls[c].pc = "next" /\ Untouched /\ TypeOK /\ CallOK(c)
  BY DEF NextArtifact, At, Untouched, Inv
<1>2. calls[c].op = "cleanup"
  BY <1>1 DEF CallOK, Shape, SavePcs, DeletePcs, Ends
<1>3. CASE calls[c].todo = {} /\ Goto(c, "returned")
  <2>1. "returned" \in Pcs
    BY DEF Pcs, Ends
  <2>2. /\ calls' \in [Calls -> CallType]
        /\ calls'[c].pc = "returned" /\ calls'[c].op = calls[c].op /\ calls'[c].ids = calls[c].ids
        /\ calls'[c].due = calls[c].due /\ calls'[c].now = calls[c].now
        /\ \A d \in Calls : d # c => calls'[d] = calls[d]
    BY <1>1, <1>3, <2>1, MovePc
  <2>3. CallOK(c)'
    BY <1>1, <1>2, <1>3, <2>2
       DEF CallOK, Shape, SaveOK, DeletionOK, ReaderOK, CleanupOK, DeletePcs, Ends, Untouched
  <2> QED
    BY <1>1, <1>2, <2>2, <2>3, QuietStep DEF Untouched
<1>4. ASSUME NEW i \in calls[c].todo,
             calls' = [calls EXCEPT ![c].pc = "inspect", ![c].ids = {i}, ![c].todo = @ \ {i}]
      PROVE  Inv'
  <2>1. /\ calls \in [Calls -> CallType] /\ i \in Ids
    BY <1>1 DEF TypeOK, CallType
  <2>2. /\ calls' \in [Calls -> CallType]
        /\ calls'[c].pc = "inspect" /\ calls'[c].op = calls[c].op /\ calls'[c].ids = {i}
        /\ calls'[c].due = calls[c].due /\ calls'[c].now = calls[c].now
        /\ calls'[c].todo = calls[c].todo \ {i}
        /\ \A d \in Calls : d # c => calls'[d] = calls[d]
    BY <1>4, <2>1 DEF CallType, Pcs
  <2>3. Shape(c)' /\ SaveOK(c)' /\ DeletionOK(c)' /\ ReaderOK(c)'
    BY <1>2, <2>2 DEF Shape, SaveOK, DeletionOK, ReaderOK, DeletePcs
  <2>4. CleanupOK(c)'
    BY <1>1, <1>2, <2>1, <2>2 DEF CallOK, CleanupOK, Untouched
  <2> QED
    BY <1>1, <1>2, <2>2, <2>3, <2>4, QuietStep DEF CallOK, Untouched
<1> QED
  BY <1>3, <1>4 DEF NextArtifact

LEMMA InspectKeeps ==
    ASSUME Inv, NEW c \in Calls, Inspect(c)
    PROVE  Inv'
<1>1. calls[c].pc = "inspect" /\ Untouched /\ TypeOK /\ CallOK(c)
  BY DEF Inspect, At, Untouched, Inv
<1>2. calls[c].op = "cleanup"
  BY <1>1 DEF CallOK, Shape, SavePcs, DeletePcs, Ends
<1>3. PICK i \in Ids : calls[c].ids = {i}
  BY <1>1, <1>2 DEF CallOK, CleanupOK
<1>4. TheId(c) = i /\ FilesOK(i)
  BY <1>3, TheIdIs DEF Inv
<1>5. PICK pc \in {"locate", "next"} :
            /\ Goto(c, pc)
            /\ pc = "locate" => i \in saved /\ expires[i] <= calls[c].now
            /\ pc = "next" /\ i \in saved /\ expires[i] <= calls[c].now => bin[i] = "none"
  BY <1>4 DEF Inspect, Expired, FilesOK
<1>6. pc \in Pcs
  BY DEF Pcs, DeletePcs
<1>7. /\ calls' \in [Calls -> CallType]
      /\ calls'[c].pc = pc /\ calls'[c].op = calls[c].op /\ calls'[c].ids = calls[c].ids
      /\ calls'[c].todo = calls[c].todo /\ calls'[c].due = calls[c].due
      /\ calls'[c].now = calls[c].now
      /\ \A d \in Calls : d # c => calls'[d] = calls[d]
  BY <1>1, <1>5, <1>6, MovePc
<1>8. Shape(c)' /\ SaveOK(c)' /\ ReaderOK(c)'
  BY <1>2, <1>5, <1>7 DEF Shape, SaveOK, ReaderOK, DeletePcs
<1>9. DeletionOK(c)'
  <2>1. calls[c].now <= clock /\ clock \in Nat /\ calls[c].now \in Nat /\ expires[i] \in Nat
    BY <1>1, <1>2 DEF CallOK, CleanupOK, TypeOK
  <2> QED
    BY <1>1, <1>3, <1>5, <1>7, <2>1 DEF DeletionOK, DeletePcs, Untouched
<1>10. CleanupOK(c)'
  BY <1>1, <1>2, <1>3, <1>5, <1>7 DEF CallOK, CleanupOK, Untouched
<1> QED
  BY <1>1, <1>2, <1>7, <1>8, <1>9, <1>10, QuietStep DEF CallOK, Untouched

LEMMA BeginReadKeeps ==
    ASSUME Inv, NEW c \in Calls, NEW i \in Ids, BeginRead(c, i)
    PROVE  Inv'
<1> DEFINE k == [Idle EXCEPT !.pc = "find", !.op = "read", !.ids = {i}]
<1>1. /\ calls[c].pc = "idle" /\ Untouched /\ TypeOK /\ CallOK(c) /\ i \in saved
      /\ calls' = [calls EXCEPT ![c] = k]
  BY DEF BeginRead, Begin, At, Untouched, Inv
<1>2. calls[c].op # "save"
  BY <1>1 DEF CallOK, Shape, SavePcs, DeletePcs, Ends
<1>3. /\ k \in CallType /\ k.pc = "find" /\ k.op = "read" /\ k.ids = {i}
  BY DEF Idle, CallType, Pcs, Ops
<1> HIDE DEF k
<1>4. calls' \in [Calls -> CallType] /\ calls'[c] = k /\ \A d \in Calls : d # c => calls'[d] = calls[d]
  BY <1>1, <1>3, MoveOne
<1>5. CallOK(c)'
  BY <1>1, <1>3, <1>4
     DEF CallOK, Shape, SaveOK, DeletionOK, ReaderOK, CleanupOK, DeletePcs, Untouched
<1> QED
  BY <1>1, <1>2, <1>3, <1>4, <1>5, QuietStep DEF Untouched

LEMMA BeginCleanupKeeps ==
    ASSUME Inv, NEW c \in Calls, BeginCleanup(c)
    PROVE  Inv'
<1> DEFINE k == [Idle EXCEPT !.pc = "next", !.op = "cleanup", !.now = clock,
                             !.todo = {i \in Ids : meta[i] # "none"},
                             !.due = {i \in saved : meta[i] = "whole" /\ Expired(i, clock)}]
<1>1. /\ calls[c].pc = "idle" /\ Untouched /\ TypeOK /\ CallOK(c)
      /\ calls' = [calls EXCEPT ![c] = k]
  BY DEF BeginCleanup, At, Untouched, Inv
<1>2. calls[c].op # "save"
  BY <1>1 DEF CallOK, Shape, SavePcs, DeletePcs, Ends
<1>3. /\ k \in CallType /\ k.pc = "next" /\ k.op = "cleanup" /\ k.now = clock
      /\ k.todo = {i \in Ids : meta[i] # "none"}
      /\ k.due = {i \in saved : meta[i] = "whole" /\ expires[i] <= clock}
  BY <1>1 DEF Idle, CallType, Pcs, Ops, TypeOK, Expired
<1> HIDE DEF k
<1>4. calls' \in [Calls -> CallType] /\ calls'[c] = k /\ \A d \in Calls : d # c => calls'[d] = calls[d]
  BY <1>1, <1>3, MoveOne
<1>5. Shape(c)' /\ SaveOK(c)' /\ DeletionOK(c)' /\ ReaderOK(c)'
  BY <1>3, <1>4 DEF Shape, SaveOK, DeletionOK, ReaderOK, DeletePcs
<1>6. CleanupOK(c)'
  BY <1>1, <1>3, <1>4 DEF CleanupOK, Untouched, TypeOK
<1> QED
  BY <1>1, <1>2, <1>3, <1>4, <1>5, <1>6, QuietStep DEF CallOK, Untouched

-----------------------------------------------------------------------------
(* Asking for a deletion, and unlinking.                                   *)

LEMMA BeginDeleteKeeps ==
    ASSUME Inv, NEW c \in Calls, NEW i \in Ids, BeginDelete(c, i)
    PROVE  Inv'
<1> DEFINE k == [Idle EXCEPT !.pc = "locate", !.op = "delete", !.ids = {i}]
<1>1. /\ calls[c].pc = "idle" /\ TypeOK /\ CallOK(c) /\ i \in saved
      /\ calls' = [calls EXCEPT ![c] = k] /\ deleted' = deleted \cup {i}
      /\ UNCHANGED <<bin, meta, expires, clock, saved, lost, crashes>>
  BY DEF BeginDelete, Begin, At, Inv
<1>2. calls[c].op # "save"
  BY <1>1 DEF CallOK, Shape, SavePcs, DeletePcs, Ends
<1>3. /\ k \in CallType /\ k.pc = "locate" /\ k.op = "delete" /\ k.ids = {i}
  BY DEF Idle, CallType, Pcs, DeletePcs, Ops
<1> HIDE DEF k
<1>4. calls' \in [Calls -> CallType] /\ calls'[c] = k /\ \A d \in Calls : d # c => calls'[d] = calls[d]
  BY <1>1, <1>3, MoveOne
<1>5. TypeOK'
  BY <1>1, <1>4 DEF TypeOK, CallType
<1>6. Gentle({})
  BY <1>1 DEF Gentle, TypeOK
<1>7. CallOK(c)'
  BY <1>1, <1>3, <1>4
     DEF CallOK, Shape, SaveOK, DeletionOK, ReaderOK, CleanupOK, DeletePcs
<1>8. \A d \in Calls : CallOK(d)'
  BY <1>1, <1>4, <1>5, <1>6, <1>7, StableCall DEF Inv
<1>9. OwnIds'
  BY <1>3, <1>4 DEF Inv, OwnIds
<1>10. \A j \in Ids : FilesOK(j)'
  <2> SUFFICES ASSUME NEW j \in Ids PROVE FilesOK(j)'
    OBVIOUS
  <2>1. Saving(j) => Saving(j)'
    BY <1>1, <1>4 DEF Saving, SavePcs
  <2> QED
    BY <1>1, <2>1 DEF Inv, FilesOK
<1> QED
  BY <1>5, <1>8, <1>9, <1>10 DEF Inv

(* What a deletion does to the files: some of artifact i, which is saved   *)
(* and has a reason to go, disappears; never the metadata alone.           *)
LEMMA DeletionStep ==
    ASSUME Inv, NEW c \in Calls, NEW i \in saved, NEW pc \in Pcs,
           i \in deleted \/ expires[i] <= clock,
           bin' = [bin EXCEPT ![i] = "none"],
           UNCHANGED meta \/ meta' = [meta EXCEPT ![i] = "none"],
           UNCHANGED <<expires, clock, saved, deleted, lost, crashes>>,
           Goto(c, pc), calls[c].pc \notin SavePcs, pc \notin SavePcs, calls[c].op # "save",
           CallOK(c)'
    PROVE  Inv'
<1>1. TypeOK /\ i \in Ids
  BY DEF Inv, TypeOK
<1>2. /\ calls' \in [Calls -> CallType] /\ calls'[c].pc = pc
      /\ calls'[c].op = calls[c].op
      /\ \A d \in Calls : d # c => calls'[d] = calls[d]
  BY <1>1, MovePc
<1>3. /\ bin' \in [Ids -> FileState] /\ bin'[i] = "none" /\ \A j \in Ids : j # i => bin'[j] = bin[j]
      /\ meta' \in [Ids -> FileState] /\ meta'[i] \in {"none", meta[i]}
      /\ \A j \in Ids : j # i => meta'[j] = meta[j]
  BY <1>1 DEF TypeOK, FileState
<1>4. TypeOK'
  BY <1>1, <1>2, <1>3 DEF TypeOK, CallType
<1>5. Gentle({})
  BY <1>1, <1>3 DEF Gentle, TypeOK
<1>6. \A d \in Calls : CallOK(d)'
  BY <1>1, <1>2, <1>4, <1>5, StableCall DEF Inv
<1>7. OwnIds'
  BY <1>2 DEF Inv, OwnIds
<1>8. \A j \in Ids : FilesOK(j)'
  <2> SUFFICES ASSUME NEW j \in Ids PROVE FilesOK(j)'
    OBVIOUS
  <2>1. Saving(j)' <=> Saving(j)
    BY <1>2 DEF Saving
  <2>2. CASE j # i
    BY <1>3, <2>1, <2>2 DEF Inv, FilesOK
  <2>3. CASE j = i
    <3>1. ~(i \notin deleted /\ clock < expires[i])
      BY <1>1 DEF TypeOK
    <3> QED
      BY <1>3, <2>3, <3>1 DEF Inv, FilesOK
  <2> QED
    BY <2>2, <2>3
<1> QED
  BY <1>4, <1>6, <1>7, <1>8 DEF Inv

(* The call that unlinks: whatever the step leaves of artifact i, the      *)
(* ciphertext is gone.                                                     *)
LEMMA UnlinkingCall ==
    ASSUME Inv, NEW c \in Calls, NEW i \in saved, calls[c].pc \in DeletePcs,
           calls[c].ids = {i}, bin' = [bin EXCEPT ![i] = "none"],
           NEW pc \in {"unlinkMeta", "next", "raised", "returned"},
           pc = "unlinkMeta" \/ pc = AfterDelete(c),
           Goto(c, pc), i \in deleted \/ expires[i] <= clock,
           UNCHANGED <<expires, clock, saved, deleted, lost, crashes>>
    PROVE  CallOK(c)'
<1>1. TypeOK /\ CallOK(c) /\ pc \in Pcs
  BY DEF Inv, Pcs, DeletePcs, Ends
<1>2. /\ calls'[c].pc = pc /\ calls'[c].op = calls[c].op /\ calls'[c].ids = calls[c].ids
      /\ calls'[c].todo = calls[c].todo /\ calls'[c].due = calls[c].due
      /\ calls'[c].now = calls[c].now
  BY <1>1, MovePc
<1>3. calls[c].op \in {"delete", "read", "cleanup"}
  BY DeletionTarget
<1>4. bin'[i] = "none" /\ \A j \in Ids : bin'[j] \in {bin[j], "none"}
  BY <1>1 DEF TypeOK
<1>5. Shape(c)' /\ SaveOK(c)'
  BY <1>2, <1>3 DEF Shape, SaveOK, DeletePcs, Ends, AfterDelete
<1>6. DeletionOK(c)'
  BY <1>2, <1>4 DEF DeletionOK, DeletePcs
<1>7. ReaderOK(c)'
  BY <1>1, <1>2, <1>4 DEF CallOK, ReaderOK
<1>8. CleanupOK(c)'
  <2>1. \A j \in saved : j \in Ids
    BY <1>1 DEF TypeOK
  <2>2. pc = "returned" => calls[c].op # "cleanup"
    BY DEF AfterDelete
  <2> QED
    BY <1>1, <1>2, <1>4, <2>1, <2>2 DEF CallOK, CleanupOK, DeletePcs
<1> QED
  BY <1>5, <1>6, <1>7, <1>8 DEF CallOK

LEMMA UnlinkKeeps ==
    ASSUME Inv, NEW c \in Calls, Unlink(c) \/ Fallback(c)
    PROVE  Inv'
<1>1. /\ calls[c].pc \in {"unlinkBin", "unlinkMeta", "fallback"}
      /\ calls[c].pc \in DeletePcs /\ calls[c].pc \notin SavePcs
  BY DEF Unlink, Fallback, At, DeletePcs, SavePcs
<1>2. PICK i \in saved :
            /\ i \in Ids /\ calls[c].ids = {i} /\ TheId(c) = i
            /\ i \in deleted \/ expires[i] <= clock
            /\ calls[c].pc \in {"unlinkMeta", "fallback"} => bin[i] = "none"
  BY <1>1, DeletionTarget
<1>3. calls[c].op \in {"delete", "read", "cleanup"}
  BY <1>1, DeletionTarget
<1>4. AfterDelete(c) \in {"next", "raised", "returned"}
  BY <1>3 DEF AfterDelete
<1>5. bin = [bin EXCEPT ![i] = bin[i]]
  BY DEF Inv, TypeOK
<1>6. PICK pc \in {"unlinkMeta", "next", "raised", "returned"} :
            /\ pc = "unlinkMeta" \/ pc = AfterDelete(c)
            /\ Goto(c, pc)
            /\ bin' = [bin EXCEPT ![i] = "none"]
            /\ UNCHANGED meta \/ meta' = [meta EXCEPT ![i] = "none"]
  <2>1. CASE At(c, "unlinkBin") /\ Unlink(c)
    BY <1>2, <2>1 DEF Unlink, At
  <2>2. CASE At(c, "unlinkMeta") /\ Unlink(c)
    <3>1. bin[i] = "none" /\ bin' = bin /\ meta' = [meta EXCEPT ![i] = "none"]
      BY <1>2, <2>2 DEF Unlink, At
    <3>2. Goto(c, AfterDelete(c))
      BY <2>2 DEF Unlink, At
    <3> QED
      BY <1>4, <1>5, <3>1, <3>2
  <2>3. CASE Fallback(c)
    BY <1>2, <1>4, <2>3 DEF Fallback
  <2> QED
    BY <2>1, <2>2, <2>3 DEF Unlink
<1>7. UNCHANGED <<expires, clock, saved, deleted, lost, crashes>>
  BY DEF Unlink, Fallback
<1>8. CallOK(c)'
  BY <1>1, <1>2, <1>6, <1>7, UnlinkingCall
<1>9. pc \in Pcs /\ pc \notin SavePcs /\ calls[c].op # "save"
  BY <1>3 DEF Pcs, DeletePcs, Ends, SavePcs
<1> QED
  BY <1>1, <1>2, <1>6, <1>7, <1>8, <1>9, DeletionStep

-----------------------------------------------------------------------------
(* Saving.                                                                 *)

(* The id of a save and what is on disk for it.                            *)
LEMMA SaveTarget ==
    ASSUME Inv, NEW c \in Calls, calls[c].pc \in SavePcs
    PROVE  /\ calls[c].op = "save"
           /\ \E i \in Ids :
                /\ calls[c].ids = {i} /\ TheId(c) = i /\ i \notin saved \cup lost
                /\ calls[c].pc \in {"createMeta", "writeMeta"} => bin[i] = "whole"
                /\ meta[i] = IF calls[c].pc = "writeMeta" THEN "torn" ELSE "none"
<1>1. calls[c].op = "save"
  BY DEF Inv, CallOK, Shape, SavePcs, DeletePcs, Ends
<1>2. PICK i \in Ids :
            /\ calls[c].ids = {i} /\ i \notin saved \cup lost
            /\ calls[c].pc \in {"createMeta", "writeMeta"} => bin[i] = "whole"
            /\ meta[i] = IF calls[c].pc = "writeMeta" THEN "torn" ELSE "none"
  BY <1>1 DEF Inv, CallOK, SaveOK
<1> QED
  BY <1>1, <1>2, TheIdIs

(* A step of a save: its own id only, which no other save has.             *)
LEMMA SaveStep ==
    ASSUME Inv, NEW c \in Calls, calls[c].pc \in SavePcs, NEW i \in Ids, calls[c].ids = {i},
           i \notin saved \cup lost, NEW pc \in Pcs, Goto(c, pc), TypeOK',
           \A j \in Ids : j # i => bin'[j] = bin[j] /\ meta'[j] = meta[j],
           saved' \in {saved, saved \cup {i}}, lost' \in {lost, lost \cup {i}},
           UNCHANGED <<expires, clock, deleted>>,
           CallOK(c)', FilesOK(i)'
    PROVE  Inv'
<1>1. TypeOK /\ calls[c].op = "save"
  BY SaveTarget DEF Inv
<1>2. /\ calls'[c].pc = pc /\ calls'[c].op = calls[c].op /\ calls'[c].ids = calls[c].ids
      /\ \A d \in Calls : d # c => calls'[d] = calls[d]
  BY <1>1, MovePc
<1>3. Gentle({i})
  BY <1>1 DEF Gentle, TypeOK
<1>4. ASSUME NEW d \in Calls, d # c PROVE CallOK(d)'
  <2>1. calls[d].op = "save" => calls[d].ids \cap {i} = {}
    <3> SUFFICES ASSUME calls[d].op = "save", i \in calls[d].ids PROVE FALSE
      OBVIOUS
    <3>1. PICK j \in Ids : calls[d].ids = {j}
      BY DEF Inv, CallOK, SaveOK
    <3> QED
      BY <1>1, <1>4, <3>1 DEF Inv, OwnIds
  <2> QED
    BY <1>1, <1>2, <1>3, <1>4, <2>1, StableCall DEF Inv
<1>5. OwnIds'
  <2>1. \A d \in Calls : calls'[d].op = calls[d].op /\ calls'[d].ids = calls[d].ids
    BY <1>2
  <2> QED
    BY <2>1 DEF Inv, OwnIds
<1>6. ASSUME NEW j \in Ids, j # i PROVE FilesOK(j)'
  <2>1. Saving(j)' <=> Saving(j)
    BY <1>2, <1>6 DEF Saving
  <2> QED
    BY <1>6, <2>1 DEF Inv, FilesOK
<1> QED
  BY <1>4, <1>5, <1>6 DEF Inv

LEMMA WriteBinKeeps ==
    ASSUME Inv, NEW c \in Calls, WriteBin(c)
    PROVE  Inv'
<1>1. calls[c].pc \in {"createBin", "writeBin"} /\ calls[c].pc \in SavePcs /\ TypeOK
  BY DEF WriteBin, At, SavePcs, Inv
<1>2. PICK i \in Ids :
            /\ calls[c].ids = {i} /\ TheId(c) = i /\ i \notin saved \cup lost
            /\ meta[i] = "none"
  BY <1>1, SaveTarget
<1>3. PICK pc \in {"writeBin", "createMeta"} :
            /\ Goto(c, pc)
            /\ bin' = [bin EXCEPT ![i] = IF pc = "writeBin" THEN "torn" ELSE "whole"]
  BY <1>2 DEF WriteBin, At
<1>4. UNCHANGED <<meta, expires, clock, saved, deleted, lost, crashes>>
  BY DEF WriteBin
<1>5. pc \in Pcs /\ pc \in SavePcs /\ calls[c].op = "save"
  BY <1>1, SaveTarget DEF Pcs, SavePcs
<1>6. /\ calls' \in [Calls -> CallType]
      /\ calls'[c].pc = pc /\ calls'[c].op = calls[c].op /\ calls'[c].ids = calls[c].ids
  BY <1>1, <1>3, <1>5, MovePc
<1>7. /\ bin' \in [Ids -> FileState] /\ bin'[i] = IF pc = "writeBin" THEN "torn" ELSE "whole"
      /\ \A j \in Ids : j # i => bin'[j] = bin[j]
  BY <1>1, <1>3 DEF TypeOK, FileState
<1>8. TypeOK'
  BY <1>1, <1>4, <1>6, <1>7 DEF TypeOK, CallType
<1>9. Shape(c)' /\ DeletionOK(c)' /\ ReaderOK(c)' /\ CleanupOK(c)'
  BY <1>3, <1>5, <1>6 DEF Shape, DeletionOK, ReaderOK, CleanupOK, SavePcs, DeletePcs
<1>10. SaveOK(c)'
  BY <1>2, <1>3, <1>4, <1>6, <1>7 DEF SaveOK
<1>11. FilesOK(i)'
  <2>1. Saving(i)'
    BY <1>2, <1>5, <1>6 DEF Saving
  <2> QED
    BY <1>2, <1>4, <2>1 DEF FilesOK
<1> QED
  BY <1>1, <1>2, <1>3, <1>4, <1>5, <1>7, <1>8, <1>9, <1>10, <1>11, SaveStep DEF CallOK

LEMMA WriteMetaKeeps ==
    ASSUME Inv, NEW c \in Calls, WriteMeta(c)
    PROVE  Inv'
<1>1. calls[c].pc \in {"createMeta", "writeMeta"} /\ calls[c].pc \in SavePcs /\ TypeOK
  BY DEF WriteMeta, At, SavePcs, Inv
<1>2. PICK i \in Ids :
            /\ calls[c].ids = {i} /\ TheId(c) = i /\ i \notin saved \cup lost
            /\ bin[i] = "whole"
  BY <1>1, SaveTarget
<1>3. PICK pc \in {"writeMeta", "returned"} :
            /\ Goto(c, pc)
            /\ meta' = [meta EXCEPT ![i] = IF pc = "writeMeta" THEN "torn" ELSE "whole"]
            /\ saved' = IF pc = "writeMeta" THEN saved ELSE saved \cup {i}
  BY <1>2 DEF WriteMeta, At
<1>4. UNCHANGED <<bin, expires, clock, deleted, lost, crashes>>
  BY DEF WriteMeta
<1>5. pc \in Pcs /\ pc \in SavePcs \cup Ends /\ calls[c].op = "save"
  BY <1>1, SaveTarget DEF Pcs, SavePcs, Ends
<1>6. /\ calls' \in [Calls -> CallType]
      /\ calls'[c].pc = pc /\ calls'[c].op = calls[c].op /\ calls'[c].ids = calls[c].ids
  BY <1>1, <1>3, <1>5, MovePc
<1>7. /\ meta' \in [Ids -> FileState] /\ meta'[i] = IF pc = "writeMeta" THEN "torn" ELSE "whole"
      /\ \A j \in Ids : j # i => meta'[j] = meta[j]
  BY <1>1, <1>3 DEF TypeOK, FileState
<1>8. TypeOK'
  BY <1>1, <1>3, <1>4, <1>6, <1>7 DEF TypeOK, CallType
<1>9. Shape(c)' /\ DeletionOK(c)' /\ ReaderOK(c)' /\ CleanupOK(c)'
  BY <1>3, <1>5, <1>6 DEF Shape, DeletionOK, ReaderOK, CleanupOK, SavePcs, DeletePcs, Ends
<1>10. SaveOK(c)'
  BY <1>2, <1>3, <1>4, <1>6, <1>7 DEF SaveOK, SavePcs
<1>11. FilesOK(i)'
  <2>1. pc = "writeMeta" => Saving(i)'
    BY <1>2, <1>6 DEF Saving, SavePcs
  <2> QED
    BY <1>2, <1>3, <1>4, <1>7, <2>1 DEF FilesOK
<1> QED
  BY <1>1, <1>2, <1>3, <1>4, <1>5, <1>7, <1>8, <1>9, <1>10, <1>11, SaveStep DEF CallOK

LEMMA WriteFailsKeeps ==
    ASSUME Inv, NEW c \in Calls, WriteFails(c)
    PROVE  Inv'
<1>1. calls[c].pc \in SavePcs /\ TypeOK
  BY DEF WriteFails, Inv
<1>2. PICK i \in Ids :
            /\ calls[c].ids = {i} /\ TheId(c) = i /\ i \notin saved \cup lost
            /\ meta[i] # "whole"
  BY <1>1, SaveTarget
<1>3. /\ Goto(c, "raised") /\ lost' = lost \cup {i}
      /\ UNCHANGED <<bin, meta, expires, clock, saved, deleted, crashes>>
  BY <1>2 DEF WriteFails
<1>4. "raised" \in Pcs /\ calls[c].op = "save"
  BY <1>1, SaveTarget DEF Pcs, Ends
<1>5. /\ calls' \in [Calls -> CallType]
      /\ calls'[c].pc = "raised" /\ calls'[c].op = calls[c].op /\ calls'[c].ids = calls[c].ids
  BY <1>1, <1>3, <1>4, MovePc
<1>6. TypeOK'
  BY <1>1, <1>3, <1>5 DEF TypeOK, CallType
<1>7. CallOK(c)'
  BY <1>2, <1>4, <1>5
     DEF CallOK, Shape, SaveOK, DeletionOK, ReaderOK, CleanupOK, SavePcs, DeletePcs, Ends
<1>8. FilesOK(i)'
  BY <1>2, <1>3 DEF FilesOK
<1> QED
  BY <1>1, <1>2, <1>3, <1>4, <1>6, <1>7, <1>8, SaveStep

(* A fresh id: no file of that name exists.                                *)
LEMMA BeginSaveKeeps ==
    ASSUME Inv, NEW c \in Calls, NEW i \in Ids, NEW created \in 0..clock, BeginSave(c, i, created)
    PROVE  Inv'
<1> DEFINE k == [Idle EXCEPT !.pc = "createBin", !.op = "save", !.ids = {i}]
<1>1. /\ calls[c].pc = "idle" /\ TypeOK /\ CallOK(c) /\ Unused(i)
      /\ calls' = [calls EXCEPT ![c] = k]
      /\ expires' = [expires EXCEPT ![i] = created + Retention]
      /\ UNCHANGED <<bin, meta, clock, saved, deleted, lost, crashes>>
  BY DEF BeginSave, Begin, At, Inv
<1>2. /\ k \in CallType /\ k.pc = "createBin" /\ k.op = "save" /\ k.ids = {i}
  BY DEF Idle, CallType, Pcs, SavePcs, Ops
<1> HIDE DEF k
<1>3. calls' \in [Calls -> CallType] /\ calls'[c] = k /\ \A d \in Calls : d # c => calls'[d] = calls[d]
  BY <1>1, <1>2, MoveOne
<1>4. /\ expires' \in [Ids -> Nat] /\ \A j \in Ids : j # i => expires'[j] = expires[j]
  <2>1. created + Retention \in Nat
    BY <1>1, RetentionAssumption DEF TypeOK
  <2> QED
    BY <1>1, <2>1 DEF TypeOK
<1>5. TypeOK'
  BY <1>1, <1>3, <1>4 DEF TypeOK, CallType
<1>6. i \notin saved \cup lost
  BY <1>1 DEF Unused
<1>7. Gentle({})
  BY <1>1, <1>4, <1>6 DEF Gentle, TypeOK
<1>8. bin[i] = "none" /\ meta[i] = "none"
  <2>1. ~Saving(i)
    BY <1>1, SaveTarget DEF Saving, Unused
  <2> QED
    BY <1>6, <2>1 DEF Inv, FilesOK
<1>9. Shape(c)' /\ DeletionOK(c)' /\ ReaderOK(c)' /\ CleanupOK(c)'
  BY <1>2, <1>3 DEF Shape, DeletionOK, ReaderOK, CleanupOK, SavePcs, DeletePcs
<1>10. SaveOK(c)'
  BY <1>1, <1>2, <1>3, <1>6, <1>8 DEF SaveOK
<1>11. \A d \in Calls : CallOK(d)'
  BY <1>1, <1>3, <1>5, <1>7, <1>9, <1>10, StableCall DEF Inv, CallOK
<1>12. OwnIds'
  <2>1. \A d \in Calls : d # c /\ calls'[d].op = "save" => calls'[d].ids # {i}
    BY <1>1, <1>3 DEF Unused
  <2> QED
    BY <1>2, <1>3, <2>1 DEF Inv, OwnIds
<1>13. ASSUME NEW j \in Ids PROVE FilesOK(j)'
  <2>1. Saving(j) => Saving(j)'
    BY <1>1, <1>3 DEF Saving, SavePcs
  <2>2. CASE j # i
    BY <1>1, <1>4, <2>1, <2>2 DEF Inv, FilesOK
  <2>3. CASE j = i
    BY <1>1, <1>6, <1>8, <2>3 DEF FilesOK
  <2> QED
    BY <2>2, <2>3
<1> QED
  BY <1>5, <1>11, <1>12, <1>13 DEF Inv

-----------------------------------------------------------------------------
(* Time and crashes.                                                       *)

LEMMA TickKeeps ==
    ASSUME Inv, Tick
    PROVE  Inv'
<1>1. /\ clock' = clock + 1 /\ clock \in Nat /\ TypeOK
      /\ UNCHANGED <<bin, meta, expires, calls, saved, deleted, lost, crashes>>
  BY DEF Tick, Inv, TypeOK
<1>2. TypeOK'
  BY <1>1 DEF TypeOK
<1>3. Gentle({})
  BY <1>1 DEF Gentle, TypeOK
<1>4. \A d \in Calls : CallOK(d)'
  BY <1>1, <1>2, <1>3, StableCall DEF Inv
<1>5. OwnIds'
  BY <1>1 DEF Inv, OwnIds
<1>6. ASSUME NEW i \in Ids PROVE FilesOK(i)'
  <2>1. Saving(i)' <=> Saving(i)
    BY <1>1 DEF Saving
  <2>2. expires[i] \in Nat /\ (clock + 1 < expires[i] => clock < expires[i])
    BY <1>1 DEF TypeOK
  <2> QED
    BY <1>1, <2>1, <2>2 DEF Inv, FilesOK
<1> QED
  BY <1>2, <1>4, <1>5, <1>6 DEF Inv

LEMMA CrashKeeps ==
    ASSUME Inv, Crash
    PROVE  Inv'
<1>1. /\ TypeOK /\ crashes' = crashes + 1
      /\ calls' = [c \in Calls |-> IF calls[c].pc \in Ends \cup {"idle"}
                                   THEN calls[c] ELSE [calls[c] EXCEPT !.pc = "died"]]
      /\ lost' = lost \cup {i \in Ids : \E c \in Calls :
                              calls[c].pc \in SavePcs /\ calls[c].ids = {i}}
      /\ UNCHANGED <<bin, meta, expires, clock, saved, deleted>>
  BY DEF Crash, Inv
<1>2. /\ calls' \in [Calls -> CallType]
      /\ \A c \in Calls :
            /\ calls'[c].op = calls[c].op /\ calls'[c].ids = calls[c].ids
            /\ calls'[c].todo = calls[c].todo /\ calls'[c].due = calls[c].due
            /\ calls'[c].now = calls[c].now
            /\ calls'[c].pc = IF calls[c].pc \in Ends \cup {"idle"} THEN calls[c].pc ELSE "died"
  <2>1. calls \in [Calls -> CallType]
    BY <1>1 DEF TypeOK, CallType
  <2>2. "died" \in Pcs
    BY DEF Pcs, Ends
  <2> QED
    BY <1>1, <2>1, <2>2 DEF CallType
<1>3. TypeOK'
  <2>1. lost' \in SUBSET Ids /\ crashes' \in Nat
    BY <1>1 DEF TypeOK
  <2> QED
    BY <1>1, <1>2, <2>1 DEF TypeOK, CallType
<1>4. ASSUME NEW c \in Calls PROVE CallOK(c)'
  <2>1. CallOK(c)
    BY DEF Inv
  <2>2. calls'[c].pc \in Ends \cup {"idle"}
    BY <1>2 DEF Ends
  <2>3. Shape(c)' /\ SaveOK(c)' /\ DeletionOK(c)'
    BY <1>1, <1>2, <2>1, <2>2 DEF CallOK, Shape, SaveOK, DeletionOK, SavePcs, DeletePcs, Ends
  <2>4. ReaderOK(c)' /\ CleanupOK(c)'
    BY <1>1, <1>2, <2>1 DEF CallOK, ReaderOK, CleanupOK, Ends
  <2> QED
    BY <2>3, <2>4 DEF CallOK
<1>5. OwnIds'
  BY <1>2 DEF Inv, OwnIds
<1>6. ASSUME NEW i \in Ids PROVE FilesOK(i)'
  <2>1. Saving(i) => i \in lost'
    BY <1>1 DEF Saving
  <2>2. ASSUME i \in saved PROVE i \notin lost'
    <3>1. i \notin lost
      BY <2>2 DEF Inv, FilesOK
    <3>2. ASSUME NEW c \in Calls, calls[c].pc \in SavePcs
          PROVE  calls[c].ids # {i}
      <4>1. PICK k \in Ids : calls[c].ids = {k} /\ k \notin saved \cup lost
        BY <3>2, SaveTarget
      <4> QED BY <2>2, <4>1
    <3> QED BY <1>1, <3>1, <3>2
  <2> QED
    BY <1>1, <2>1, <2>2 DEF Inv, FilesOK
<1> QED
  BY <1>3, <1>4, <1>5, <1>6 DEF Inv

-----------------------------------------------------------------------------
(* The inductive invariant and what follows from it.                       *)

LEMMA InitInv == Init => Inv
<1> SUFFICES ASSUME Init PROVE Inv
  OBVIOUS
<1> USE DEF Init, Idle
<1>1. TypeOK
  BY DEF TypeOK, FileState, Pcs, Ops
<1>2. \A c \in Calls : CallOK(c)
  BY DEF CallOK, Shape, SaveOK, DeletionOK, ReaderOK, CleanupOK, DeletePcs
<1>3. OwnIds /\ \A i \in Ids : FilesOK(i)
  BY DEF OwnIds, FilesOK
<1> QED
  BY <1>1, <1>2, <1>3 DEF Inv

LEMMA StepInv == Inv /\ [Next]_vars => Inv'
<1> SUFFICES ASSUME Inv, [Next]_vars PROVE Inv'
  OBVIOUS
<1>1. CASE \E c \in Calls, i \in Ids, created \in 0..clock : BeginSave(c, i, created)
  BY <1>1, BeginSaveKeeps
<1>2. CASE \E c \in Calls, i \in Ids : BeginDelete(c, i)
  BY <1>2, BeginDeleteKeeps
<1>3. CASE \E c \in Calls, i \in Ids : BeginRead(c, i)
  BY <1>3, BeginReadKeeps
<1>4. CASE \E c \in Calls : BeginCleanup(c)
  BY <1>4, BeginCleanupKeeps
<1>5. CASE \E c \in Calls : Step(c)
  BY <1>5, WriteBinKeeps, WriteMetaKeeps, WriteFailsKeeps, LocateKeeps, LoadKeeps, UnlinkKeeps,
     ReadKeeps, NextArtifactKeeps, InspectKeeps DEF Step
<1>6. CASE Tick
  BY <1>6, TickKeeps
<1>7. CASE Crash
  BY <1>7, CrashKeeps
<1>8. CASE UNCHANGED vars
  BY <1>8 DEF vars, Inv, TypeOK, CallOK, Shape, SaveOK, DeletionOK, ReaderOK, CleanupOK,
              OwnIds, FilesOK, Saving
<1> QED
  BY <1>1, <1>2, <1>3, <1>4, <1>5, <1>6, <1>7, <1>8 DEF Next

(* Who may touch which file, in every reachable state.                     *)
THEOREM StoreInvariant == Spec => []Inv
  BY InitInv, StepInv, PTL DEF Spec

(* Files, expiries and the locals of every call keep their shape.          *)
THEOREM StoreTypeCorrect == Spec => []TypeOK
<1>1. Inv => TypeOK
  BY DEF Inv
<1> QED
  BY <1>1, StoreInvariant, PTL

(***************************************************************************)
(* A saved artifact that has not expired and that nobody asked to delete   *)
(* keeps both its files: neither a cleanup that read the clock before, nor *)
(* a read racing it, nor the death of the process takes one away.          *)
(***************************************************************************)
THEOREM LiveArtifactsAreKept == Spec => []LiveArtifactsKept
<1>1. Inv => LiveArtifactsKept
  BY DEF Inv, TypeOK, FilesOK, LiveArtifactsKept
<1> QED
  BY <1>1, StoreInvariant, PTL

(***************************************************************************)
(* delete removes the ciphertext before the metadata, so an interrupted or *)
(* concurrent deletion leaves no ciphertext that cleanup_expired could not *)
(* find; a delete that answered and a cleanup that returned are done.      *)
(***************************************************************************)
THEOREM NoCiphertextIsLeaked == Spec => []NoCiphertextLeaked
<1>1. Inv => NoCiphertextLeaked
  <2> SUFFICES ASSUME Inv PROVE NoCiphertextLeaked
    OBVIOUS
  <2>1. ASSUME NEW i \in Ids, bin[i] # "none", meta[i] # "whole"
        PROVE  i \in lost \/ Saving(i)
    BY <2>1 DEF Inv, FilesOK
  <2>2. ASSUME NEW c \in Calls, calls[c].op = "delete", calls[c].pc \in {"returned", "raised"},
               NEW i \in calls[c].ids
        PROVE  bin[i] = "none"
    BY <2>2 DEF Inv, CallOK, ReaderOK
  <2>3. ASSUME NEW c \in Calls, calls[c].op = "cleanup", calls[c].pc = "returned",
               NEW i \in calls[c].due
        PROVE  bin[i] = "none"
    BY <2>3 DEF Inv, CallOK, CleanupOK
  <2> QED
    BY <2>1, <2>2, <2>3 DEF NoCiphertextLeaked, Saving
<1> QED
  BY <1>1, StoreInvariant, PTL
============================================================================
