--------------------------- MODULE TempFileStore ---------------------------
(***************************************************************************)
(* The encrypted temporary artifacts of services/api/temp_file_store.py.   *)
(* An artifact is two files: the ciphertext <id>.bin and the authenticated *)
(* metadata <id>.json with its expiry.  The store takes no lock: calls of  *)
(* concurrent requests interleave at every file operation, and the process *)
(* may die at any of them.  A file that is being written, or whose writer  *)
(* died, is "torn": it exists, but fails its JSON or HMAC check.           *)
(***************************************************************************)
EXTENDS Integers, FiniteSets

CONSTANTS
    Ids,        \* artifact ids (secrets.token_hex: never reused)
    Calls,      \* concurrent calls of save, read, delete, cleanup_expired
    Retention,  \* retention of an artifact in clock ticks
    MaxTime,    \* bound: last clock value
    MaxCrashes  \* bound: number of process deaths

ASSUME RetentionAssumption == Retention \in Nat \ {0}   \* save refuses others

VARIABLES
    bin, meta,   \* id -> state of <id>.bin and <id>.json
    expires,     \* id -> expires_at in the metadata
    clock,       \* now()
    calls,       \* call -> its local variables
    saved,       \* ids whose save has returned
    deleted,     \* ids somebody asked to delete
    lost,        \* ids whose save failed or died half way
    crashes

vars == <<bin, meta, expires, clock, calls, saved, deleted, lost, crashes>>

FileState == {"none", "torn", "whole"}
Ops == {"save", "read", "delete", "cleanup"}
SavePcs == {"createBin", "writeBin", "createMeta", "writeMeta"}
DeletePcs == {"locate", "load", "unlinkBin", "unlinkMeta", "fallback"}
Ends == {"returned", "raised", "died"}
Pcs == {"idle", "find", "check", "decrypt", "next", "inspect"}
        \cup SavePcs \cup DeletePcs \cup Ends

Idle == [pc |-> "idle", op |-> "none", ids |-> {}, todo |-> {}, due |-> {}, now |-> 0]

At(c, pc) == calls[c].pc = pc
TheId(c) == CHOOSE i \in Ids : calls[c].ids = {i}
Goto(c, pc) == calls' = [calls EXCEPT ![c].pc = pc]

Begin(c, op, pc, ids) ==
    /\ At(c, "idle")
    /\ calls' = [calls EXCEPT ![c] = [Idle EXCEPT !.pc = pc, !.op = op, !.ids = ids]]

(* Bug: an artifact in its last tick counts as expired.                    *)
ExpiredEarly(i, now) == expires[i] <= now + 1
(* expires_at <= now.                                                      *)
Expired(i, now) == expires[i] <= now

-----------------------------------------------------------------------------
(* save: the ciphertext first, then the metadata that makes it findable.   *)

Unused(i) ==
    /\ i \notin saved \cup lost
    /\ \A d \in Calls : calls[d].op = "save" => i \notin calls[d].ids

(* The caller may pass an earlier created_at than now.                     *)
BeginSave(c, i, created) ==
    /\ Begin(c, "save", "createBin", {i})
    /\ Unused(i)
    /\ expires' = [expires EXCEPT ![i] = created + Retention]
    /\ UNCHANGED <<bin, meta, clock, saved, deleted, lost, crashes>>

WriteBin(c) ==
    /\ \/ At(c, "createBin") /\ bin' = [bin EXCEPT ![TheId(c)] = "torn"]
                             /\ Goto(c, "writeBin")
       \/ At(c, "writeBin") /\ bin' = [bin EXCEPT ![TheId(c)] = "whole"]
                            /\ Goto(c, "createMeta")
    /\ UNCHANGED <<meta, expires, clock, saved, deleted, lost, crashes>>

WriteMeta(c) ==
    /\ \/ /\ At(c, "createMeta")
          /\ meta' = [meta EXCEPT ![TheId(c)] = "torn"]
          /\ Goto(c, "writeMeta")
          /\ UNCHANGED saved
       \/ /\ At(c, "writeMeta")
          /\ meta' = [meta EXCEPT ![TheId(c)] = "whole"]
          /\ Goto(c, "returned")
          /\ saved' = saved \cup {TheId(c)}
    /\ UNCHANGED <<bin, expires, clock, deleted, lost, crashes>>

(* A write raises OSError: what is on disk stays, save removes nothing.    *)
WriteFails(c) ==
    /\ calls[c].pc \in SavePcs
    /\ lost' = lost \cup {TheId(c)}
    /\ Goto(c, "raised")
    /\ UNCHANGED <<bin, meta, expires, clock, saved, deleted, crashes>>

-----------------------------------------------------------------------------
(* delete, also as called by read and cleanup_expired.                     *)

BeginDelete(c, i) ==
    /\ i \in saved
    /\ Begin(c, "delete", "locate", {i})
    /\ deleted' = deleted \cup {i}
    /\ UNCHANGED <<bin, meta, expires, clock, saved, lost, crashes>>

(* _metadata_path_for_artifact and is_file.                                *)
Locate(c) ==
    /\ At(c, "locate")
    /\ Goto(c, IF meta[TheId(c)] # "none" THEN "load" ELSE "fallback")
    /\ UNCHANGED <<bin, meta, expires, clock, saved, deleted, lost, crashes>>

(* Where an exception or the end of delete leads.                          *)
AfterError(c) == IF calls[c].op = "cleanup" THEN "next" ELSE "raised"
AfterDelete(c) ==
    CASE calls[c].op = "cleanup" -> "next"
      [] calls[c].op = "read" -> "raised"     \* FileNotFoundError: expired
      [] calls[c].op = "delete" -> "returned"

(* _load_artifact_metadata raises if the file vanished or is torn.         *)
Load(c) ==
    /\ At(c, "load")
    /\ Goto(c, IF meta[TheId(c)] = "whole" THEN "unlinkBin" ELSE AfterError(c))
    /\ UNCHANGED <<bin, meta, expires, clock, saved, deleted, lost, crashes>>

(* Bug: the metadata goes first.                                           *)
UnlinkMetaFirst(c) ==
    /\ \/ /\ At(c, "unlinkBin")
          /\ meta' = [meta EXCEPT ![TheId(c)] = "none"]
          /\ Goto(c, "unlinkMeta")
          /\ UNCHANGED bin
       \/ /\ At(c, "unlinkMeta")
          /\ bin' = [bin EXCEPT ![TheId(c)] = "none"]
          /\ Goto(c, AfterDelete(c))
          /\ UNCHANGED meta
    /\ UNCHANGED <<expires, clock, saved, deleted, lost, crashes>>
(* unlink, FileNotFoundError ignored: the ciphertext goes first.           *)
Unlink(c) ==
    /\ \/ /\ At(c, "unlinkBin")
          /\ bin' = [bin EXCEPT ![TheId(c)] = "none"]
          /\ Goto(c, "unlinkMeta")
          /\ UNCHANGED meta
       \/ /\ At(c, "unlinkMeta")
          /\ meta' = [meta EXCEPT ![TheId(c)] = "none"]
          /\ Goto(c, AfterDelete(c))
          /\ UNCHANGED bin
    /\ UNCHANGED <<expires, clock, saved, deleted, lost, crashes>>

(* _fallback_artifact_paths: no metadata, look for a ciphertext.           *)
Fallback(c) ==
    /\ At(c, "fallback")
    /\ bin' = [bin EXCEPT ![TheId(c)] = "none"]
    /\ Goto(c, AfterDelete(c))
    /\ UNCHANGED <<meta, expires, clock, saved, deleted, lost, crashes>>

-----------------------------------------------------------------------------
(* read.                                                                   *)

BeginRead(c, i) ==
    /\ i \in saved
    /\ Begin(c, "read", "find", {i})
    /\ UNCHANGED <<bin, meta, expires, clock, saved, deleted, lost, crashes>>

Find(c) ==
    /\ At(c, "find")
    /\ Goto(c, IF meta[TheId(c)] # "none" THEN "check" ELSE "raised")
    /\ UNCHANGED <<bin, meta, expires, clock, saved, deleted, lost, crashes>>

(* Metadata HMAC, then expiry; an expired artifact is deleted.             *)
Check(c) ==
    /\ At(c, "check")
    /\ Goto(c, CASE meta[TheId(c)] # "whole" -> "raised"
                 [] meta[TheId(c)] = "whole" ->
                        IF Expired(TheId(c), clock) THEN "locate" ELSE "decrypt")
    /\ UNCHANGED <<bin, meta, expires, clock, saved, deleted, lost, crashes>>

(* Ciphertext HMAC and plaintext digest.                                   *)
Decrypt(c) ==
    /\ At(c, "decrypt")
    /\ Goto(c, IF bin[TheId(c)] = "whole" THEN "returned" ELSE "raised")
    /\ UNCHANGED <<bin, meta, expires, clock, saved, deleted, lost, crashes>>

-----------------------------------------------------------------------------
(* cleanup_expired: one look at the clock and the directories, then one    *)
(* artifact after the other; errors skip the artifact.                     *)

BeginCleanup(c) ==
    /\ At(c, "idle")
    /\ calls' = [calls EXCEPT ![c] =
                   [Idle EXCEPT !.pc = "next", !.op = "cleanup", !.now = clock,
                                !.todo = {i \in Ids : meta[i] # "none"},
                                !.due = {i \in saved : meta[i] = "whole" /\ Expired(i, clock)}]]
    /\ UNCHANGED <<bin, meta, expires, clock, saved, deleted, lost, crashes>>

NextArtifact(c) ==
    /\ At(c, "next")
    /\ \/ /\ calls[c].todo = {}
          /\ Goto(c, "returned")
       \/ \E i \in calls[c].todo :
            calls' = [calls EXCEPT ![c].pc = "inspect", ![c].ids = {i}, ![c].todo = @ \ {i}]
    /\ UNCHANGED <<bin, meta, expires, clock, saved, deleted, lost, crashes>>

Inspect(c) ==
    /\ At(c, "inspect")
    /\ Goto(c, IF meta[TheId(c)] = "whole" /\ Expired(TheId(c), calls[c].now)
               THEN "locate" ELSE "next")
    /\ UNCHANGED <<bin, meta, expires, clock, saved, deleted, lost, crashes>>

-----------------------------------------------------------------------------

Tick ==
    /\ clock < MaxTime
    /\ clock' = clock + 1
    /\ UNCHANGED <<bin, meta, expires, calls, saved, deleted, lost, crashes>>

Crash ==
    /\ crashes < MaxCrashes
    /\ crashes' = crashes + 1
    /\ calls' = [c \in Calls |-> IF calls[c].pc \in Ends \cup {"idle"}
                                 THEN calls[c] ELSE [calls[c] EXCEPT !.pc = "died"]]
    /\ lost' = lost \cup {i \in Ids : \E c \in Calls :
                            calls[c].pc \in SavePcs /\ calls[c].ids = {i}}
    /\ UNCHANGED <<bin, meta, expires, clock, saved, deleted>>

Init ==
    /\ bin = [i \in Ids |-> "none"]
    /\ meta = [i \in Ids |-> "none"]
    /\ expires = [i \in Ids |-> 0]
    /\ clock = 0
    /\ calls = [c \in Calls |-> Idle]
    /\ saved = {}
    /\ deleted = {}
    /\ lost = {}
    /\ crashes = 0

Step(c) ==
    \/ WriteBin(c)
    \/ WriteMeta(c)
    \/ WriteFails(c)
    \/ Locate(c)
    \/ Load(c)
    \/ Unlink(c)
    \/ Fallback(c)
    \/ Find(c)
    \/ Check(c)
    \/ Decrypt(c)
    \/ NextArtifact(c)
    \/ Inspect(c)

Next ==
    \/ \E c \in Calls, i \in Ids, created \in 0..clock : BeginSave(c, i, created)
    \/ \E c \in Calls, i \in Ids : BeginDelete(c, i)
    \/ \E c \in Calls, i \in Ids : BeginRead(c, i)
    \/ \E c \in Calls : BeginCleanup(c)
    \/ \E c \in Calls : Step(c)
    \/ Tick
    \/ Crash

Spec == Init /\ [][Next]_vars
-----------------------------------------------------------------------------
(* Correctness.                                                            *)

(* Every variable keeps its shape.                                         *)
TypeOK ==
    /\ bin \in [Ids -> FileState]
    /\ meta \in [Ids -> FileState]
    /\ expires \in [Ids -> Nat]
    /\ clock \in Nat
    /\ calls \in [Calls -> [pc : Pcs, op : Ops \cup {"none"}, ids : SUBSET Ids,
                            todo : SUBSET Ids, due : SUBSET Ids, now : Nat]]
    /\ saved \in SUBSET Ids
    /\ deleted \in SUBSET Ids
    /\ lost \in SUBSET Ids
    /\ crashes \in Nat

(***************************************************************************)
(* An artifact whose save returned, that has not expired and that nobody   *)
(* asked to delete is on disk with both files, whatever reads, cleanups    *)
(* and crashes happened since.                                             *)
(***************************************************************************)
LiveArtifactsKept ==
    \A i \in saved \ deleted :
        clock < expires[i] => bin[i] = "whole" /\ meta[i] = "whole"

(***************************************************************************)
(* No ciphertext outlives its removal.  One without usable metadata can    *)
(* only come from a save that is still running, failed or died: delete     *)
(* removes the ciphertext before the metadata, so no interrupted or        *)
(* concurrent deletion leaves bytes behind that cleanup_expired would      *)
(* never find.  And whoever asked for a deletion and got an answer, also   *)
(* the exception of a delete that lost its metadata to another call        *)
(* between is_file and read_text, or ran a cleanup that returned, can rely *)
(* on it: the ciphertexts it was about are gone.                           *)
(***************************************************************************)
NoCiphertextLeaked ==
    /\ \A i \in Ids :
        bin[i] # "none" /\ meta[i] # "whole" =>
            i \in lost \/ \E c \in Calls : calls[c].pc \in SavePcs /\ calls[c].ids = {i}
    /\ \A c \in Calls :
        /\ calls[c].op = "delete" /\ calls[c].pc \in {"returned", "raised"} =>
                \A i \in calls[c].ids : bin[i] = "none"
        /\ calls[c].op = "cleanup" /\ calls[c].pc = "returned" =>
                \A i \in calls[c].due : bin[i] = "none"
============================================================================
