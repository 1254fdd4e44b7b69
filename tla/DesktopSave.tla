---------------------------- MODULE DesktopSave ----------------------------
(***************************************************************************)
(* Saving a job's result on the desktop: save_job_result of                *)
(* apps/desktop/api_client.py against the download and job-event handlers  *)
(* and the DesktopSaveProofStore of services/api/poc_web.py.               *)
(*                                                                         *)
(* The server issues a one-shot proof with every desktop download.  The    *)
(* client writes the file first and then posts an audit event with the     *)
(* proof; depending on what it learns it keeps or removes the file.        *)
(* Connections may be refused, requests and answers may be lost, the       *)
(* server may fail to record, forget its proofs (a bounded store in        *)
(* memory) or restart.  All saves are of one result into one directory.    *)
(***************************************************************************)
EXTENDS Integers, FiniteSets

CONSTANTS
    Saves,       \* concurrent calls of save_job_result
    Urls,        \* number of loopback addresses the client may try
    MaxNames,    \* bound: file names tried (1000 in the code)
    MaxProofs,   \* MAX_DESKTOP_SAVE_PROOFS
    MaxTokens,   \* bound: proofs ever issued
    MaxRestarts, \* bound: restarts of the server
    None         \* no owner, no answer

ASSUME ConstantsAssumption ==
    /\ Urls \in Nat \ {0}
    /\ MaxNames \in Nat
    /\ MaxProofs \in Nat \ {0}    \* max(1, max_proofs)
    /\ None \notin Saves

Names == 0..MaxNames   \* 0: the file name, k: the name with suffix (k)

VARIABLES
    proofs,    \* _proofs: the tokens it holds; older ones are smaller
    issued,    \* number of tokens ever issued; tokens are 1..issued
    events,    \* recorded desktop_result_download events (durable)
    files,     \* name -> the call that wrote it, or None
    calls,     \* call -> its local variables; epoch: restarts at the download
    handlers,  \* call -> progress of the server thread on its event
    restarts

vars == <<proofs, issued, events, files, calls, handlers, restarts>>

Kept == {"returned", "unconfirmed"}
Gone == {"rejected", "notRecorded"}
Ends == Kept \cup Gone \cup {"failed", "removeFailed"}
Pcs == {"download", "locate", "write", "cleanup", "post", "wait", "remove"} \cup Ends
Handling == {"idle", "arrived", "consumed", "accepted", "refused", "dropped"}

NewCall == [pc |-> "download", url |-> 1, token |-> 0, epoch |-> 0, name |-> 0,
            verdict |-> "failed"]

At(s, pc) == calls[s].pc = pc
Goto(s, pc) == calls' = [calls EXCEPT ![s].pc = pc]

-----------------------------------------------------------------------------
(* GET of the download.                                                    *)

(* DesktopSaveProofStore.issue: the oldest proofs are dropped until there  *)
(* is room.                                                                *)
Issue ==
    /\ issued < MaxTokens
    /\ issued' = issued + 1
    /\ proofs' = {t \in proofs : Cardinality({u \in proofs : u > t}) < MaxProofs - 1}
                    \cup {issued + 1}

Download(s) ==
    /\ At(s, "download")
    /\ Issue
    /\ calls' = [calls EXCEPT ![s] = [@ EXCEPT !.pc = "locate", !.token = issued + 1,
                                               !.epoch = restarts]]
    /\ UNCHANGED <<events, files, handlers, restarts>>

(* Another desktop client downloads the result, or this answer is lost.    *)
DownloadUnanswered ==
    /\ Issue
    /\ UNCHANGED <<events, files, calls, handlers, restarts>>

(* _request_bytes: the next address after a URLError, else the call ends.  *)
DownloadFails(s) ==
    /\ At(s, "download")
    /\ \/ calls' = [calls EXCEPT ![s].pc = "failed"]
       \/ calls[s].url < Urls /\ calls' = [calls EXCEPT ![s].url = @ + 1]
    /\ UNCHANGED <<proofs, issued, events, files, handlers, restarts>>

-----------------------------------------------------------------------------
(* Writing the file.                                                       *)

(* _available_destination_path: the first name that does not exist.        *)
Locate(s) ==
    /\ At(s, "locate")
    /\ \/ \E n \in Names :
            /\ files[n] = None
            /\ \A m \in Names : m < n => files[m] # None
            /\ calls' = [calls EXCEPT ![s].pc = "write", ![s].name = n]
       \/ /\ \A n \in Names : files[n] # None
          /\ Goto(s, "failed")
    /\ UNCHANGED <<proofs, issued, events, files, handlers, restarts>>

(* Bug: the file is opened without exclusive creation.                     *)
WriteOver(s) ==
    /\ At(s, "write")
    /\ files' = [files EXCEPT ![calls[s].name] = s]
    /\ calls' = [calls EXCEPT ![s].pc = "post", ![s].url = 1]
    /\ UNCHANGED <<proofs, issued, events, handlers, restarts>>
(* Exclusive creation; if the name was taken meanwhile, look again.        *)
Write(s) ==
    /\ At(s, "write")
    /\ IF files[calls[s].name] = None
       THEN /\ files' = [files EXCEPT ![calls[s].name] = s]
            /\ calls' = [calls EXCEPT ![s].pc = "post", ![s].url = 1]
       ELSE /\ Goto(s, "locate")
            /\ UNCHANGED files
    /\ UNCHANGED <<proofs, issued, events, handlers, restarts>>

(* OSError from open (nothing created) or from write (a partial file).     *)
WriteFails(s) ==
    /\ At(s, "write")
    /\ \/ UNCHANGED files
       \/ files[calls[s].name] = None /\ files' = [files EXCEPT ![calls[s].name] = s]
    /\ Goto(s, "cleanup")
    /\ UNCHANGED <<proofs, issued, events, handlers, restarts>>

(* _write_download_file removes whatever has the name now; errors ignored. *)
RemovePartial(s) ==
    /\ At(s, "cleanup")
    /\ \/ files' = [files EXCEPT ![calls[s].name] = None]
       \/ UNCHANGED files
    /\ Goto(s, "failed")
    /\ UNCHANGED <<proofs, issued, events, handlers, restarts>>

-----------------------------------------------------------------------------
(* POST of the audit event.                                                *)

(* The server accepts the connection.                                      *)
Post(s) ==
    /\ At(s, "post")
    /\ handlers' = [handlers EXCEPT ![s] = "arrived"]
    /\ Goto(s, "wait")
    /\ UNCHANGED <<proofs, issued, events, files, restarts>>

(* Refused: the next address, and after the last one "not_recorded".  The  *)
(* request starts with the address that answered the download.             *)
PostRefused(s) ==
    /\ At(s, "post")
    /\ calls' = IF calls[s].url < Urls THEN [calls EXCEPT ![s].url = @ + 1]
                ELSE [calls EXCEPT ![s].pc = "remove", ![s].verdict = "notRecorded"]
    /\ UNCHANGED <<proofs, issued, events, files, handlers, restarts>>

(* HTTP 401 and 403 (credentials changed meanwhile) never reach the store. *)
PostForbidden(s) ==
    /\ At(s, "post")
    /\ calls' = [calls EXCEPT ![s].pc = "remove", ![s].verdict = "failed"]
    /\ UNCHANGED <<proofs, issued, events, files, handlers, restarts>>

(* _validate_desktop_result_download_audit_event: pop the proof.           *)
Consume(s) ==
    /\ handlers[s] = "arrived"
    /\ proofs' = proofs \ {calls[s].token}
    /\ handlers' = [handlers EXCEPT ![s] =
                      IF calls[s].token \in proofs THEN "consumed" ELSE "refused"]
    /\ UNCHANGED <<issued, events, files, calls, restarts>>

(* JobAuditEventStore.record, then the answer; or it raises and the        *)
(* connection closes without one.                                          *)
RecordEvent(s) ==
    /\ handlers[s] = "consumed"
    /\ \/ /\ events' = events \cup {[token |-> calls[s].token, name |-> calls[s].name]}
          /\ handlers' = [handlers EXCEPT ![s] = "accepted"]
       \/ /\ handlers' = [handlers EXCEPT ![s] = "dropped"]
          /\ UNCHANGED events
    /\ UNCHANGED <<proofs, issued, files, calls, restarts>>

(* The answer arrives.                                                     *)
Receive(s) ==
    /\ At(s, "wait")
    /\ \/ handlers[s] = "accepted" /\ Goto(s, "returned")
       \/ /\ handlers[s] = "refused"
          /\ calls' = [calls EXCEPT ![s].pc = "remove", ![s].verdict = "rejected"]
    /\ UNCHANGED <<proofs, issued, events, files, handlers, restarts>>

(* Bug: no answer is taken for a rejection.                                *)
ReceiveNothingRejecting(s) ==
    /\ At(s, "wait")
    /\ calls' = [calls EXCEPT ![s].pc = "remove", ![s].verdict = "rejected"]
    /\ UNCHANGED <<proofs, issued, events, files, handlers, restarts>>
(* Bug: the client waits for an answer without a timeout.                  *)
ReceiveNothingWaiting(s) ==
    /\ At(s, "wait")
    /\ handlers[s] = "dropped"
    /\ Goto(s, "unconfirmed")
    /\ UNCHANGED <<proofs, issued, events, files, handlers, restarts>>
(* The connection breaks or times out, or the body is incomplete or not    *)
(* JSON, whatever the server did or is still doing.                        *)
ReceiveNothing(s) ==
    /\ At(s, "wait")
    /\ Goto(s, "unconfirmed")
    /\ UNCHANGED <<proofs, issued, events, files, handlers, restarts>>

(* _remove_download_file: the file goes, or unlink raises OSError.         *)
Remove(s) ==
    /\ At(s, "remove")
    /\ \/ /\ files' = [files EXCEPT ![calls[s].name] = None]
          /\ Goto(s, calls[s].verdict)
       \/ /\ Goto(s, "removeFailed")
          /\ UNCHANGED files
    /\ UNCHANGED <<proofs, issued, events, handlers, restarts>>

-----------------------------------------------------------------------------
(* The server restarts: the proofs and the requests in progress are gone,  *)
(* the recorded events are not.                                            *)
Restart ==
    /\ restarts < MaxRestarts
    /\ restarts' = restarts + 1
    /\ proofs' = {}
    /\ handlers' = [s \in Saves |-> IF handlers[s] \in {"arrived", "consumed"}
                                    THEN "dropped" ELSE handlers[s]]
    /\ UNCHANGED <<issued, events, files, calls>>

Init ==
    /\ proofs = {}
    /\ issued = 0
    /\ events = {}
    /\ files = [n \in Names |-> None]
    /\ calls = [s \in Saves |-> NewCall]
    /\ handlers = [s \in Saves |-> "idle"]
    /\ restarts = 0

ClientStep(s) ==
    \/ Download(s)
    \/ DownloadFails(s)
    \/ Locate(s)
    \/ Write(s)
    \/ WriteFails(s)
    \/ RemovePartial(s)
    \/ Post(s)
    \/ PostRefused(s)
    \/ PostForbidden(s)
    \/ Receive(s)
    \/ ReceiveNothing(s)
    \/ Remove(s)

ServerStep(s) == Consume(s) \/ RecordEvent(s)

Next ==
    \/ \E s \in Saves : ClientStep(s)
    \/ \E s \in Saves : ServerStep(s)
    \/ DownloadUnanswered
    \/ Restart

Spec == Init /\ [][Next]_vars

(* The client alone is fair: every request has a timeout, the server may   *)
(* be silent for ever.                                                     *)
FairSpec == Spec /\ \A s \in Saves : WF_vars(ClientStep(s))

-----------------------------------------------------------------------------
(* Correctness.                                                            *)

EventFor(s) == [token |-> calls[s].token, name |-> calls[s].name]

(* Every variable keeps its shape.                                         *)
TypeOK ==
    /\ issued \in Nat
    /\ proofs \in SUBSET (1..issued)
    /\ events \in SUBSET [token : 1..issued, name : Names]
    /\ files \in [Names -> Saves \cup {None}]
    /\ calls \in [Saves -> [pc : Pcs, url : 1..Urls, token : 0..issued, epoch : 0..restarts,
                            name : Names, verdict : {"failed", "rejected", "notRecorded"}]]
    /\ handlers \in [Saves -> Handling]
    /\ restarts \in Nat

(***************************************************************************)
(* What the user is told agrees with the audit log: a save that returned   *)
(* is recorded with its download and its file name; a save reported as     *)
(* rejected or not recorded is not, and never will be, however late the    *)
(* server works on its request.  (Unconfirmed saves may be either.)        *)
(***************************************************************************)
OutcomeMatchesAudit ==
    \A s \in Saves :
        /\ At(s, "returned") => EventFor(s) \in events
        /\ calls[s].pc \in Gone => \A e \in events : e.token # calls[s].token

(***************************************************************************)
(* Every recorded save names a file that some call wrote under that name   *)
(* from that very download, and a download is recorded at most once.       *)
(***************************************************************************)
EventsTruthful ==
    \A e \in events :
        /\ \E s \in Saves : EventFor(s) = e /\ handlers[s] = "accepted"
        /\ \A d \in events : d.token = e.token => d = e

(***************************************************************************)
(* The server refuses an event only if it restarted after the download or  *)
(* at least MaxProofs downloads came after it.                             *)
(***************************************************************************)
RefusedOnlyIfForgotten ==
    \A s \in Saves :
        handlers[s] = "refused" =>
            calls[s].epoch < restarts \/ issued >= calls[s].token + MaxProofs

(* Every call of save_job_result ends, also when the server never answers. *)
EverySaveEnds == \A s \in Saves : <>(calls[s].pc \in Ends)

(***************************************************************************)
(* The file of a save that returned stays, whoever saves next to it (docs/ *)
(* phase5-terminal-security-acceptance.md: the client handles collisions), *)
(* unless another save failed to write the very same name: its clean-up    *)
(* unlinks what has the name by then.                                      *)
(***************************************************************************)
AuditedFilesKept ==
    \A s \in Saves :
        At(s, "returned") =>
            \/ files[calls[s].name] = s
            \/ \E t \in Saves \ {s} : At(t, "failed") /\ calls[t].name = calls[s].name
============================================================================
