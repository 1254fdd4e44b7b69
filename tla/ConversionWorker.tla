------------------------- MODULE ConversionWorker -------------------------
(***************************************************************************)
(* One conversion in a process of its own: _convert_uploaded_document_     *)
(* with_timeout and _direct_conversion_worker of services/api/poc_web.py.  *)
(* The request thread (parent) makes a temporary directory, spawns the     *)
(* worker, waits for the first bytes of its message until a deadline,      *)
(* receives, reaps the worker and removes the directory.  The worker may   *)
(* hang, be killed at any point, or be slow to die.                        *)
(***************************************************************************)
EXTENDS Naturals

CONSTANTS
    Conversions   \* requests that convert at the same time

VARIABLES
    parent,    \* conversion -> where its request thread is
    worker,    \* conversion -> life of its process
    message,   \* conversion -> what the worker has to say
    pipe,      \* conversion -> bytes of the message in the pipe
    reading,   \* conversion -> the parent's end of the pipe is open
    signalled, \* conversion -> SIGTERM was sent
    dir,       \* conversion -> its temporary directory exists
    outcome    \* conversion -> what the call returns or raises

vars == <<parent, worker, message, pipe, reading, signalled, dir, outcome>>

ParentPcs == {"prepare", "start", "poll", "recv", "reap", "join", "tidy", "done"}
Alive == {"converting", "sending", "closing"}
Messages == {"result", "failure", "surprise", "unserializable"}
Outcomes == {"none", "result", "timeout", "failure", "exited", "uncaught"}

Go(c, pc) == parent' = [parent EXCEPT ![c] = pc]
WriteEndClosed(c) == worker[c] = "dead"

-----------------------------------------------------------------------------
(* The request thread.                                                     *)

(* _direct_conversion_worker_kwargs may refuse the template; then the      *)
(* directory and the pipe.                                                 *)
Prepare(c) ==
    /\ parent[c] = "prepare"
    /\ \/ /\ Go(c, "done")
          /\ outcome' = [outcome EXCEPT ![c] = "failure"]
          /\ UNCHANGED <<reading, dir>>
       \/ /\ Go(c, "start")
          /\ dir' = [dir EXCEPT ![c] = TRUE]
          /\ reading' = [reading EXCEPT ![c] = TRUE]
          /\ UNCHANGED outcome
    /\ UNCHANGED <<worker, message, pipe, signalled>>

Start(c) ==
    /\ parent[c] = "start"
    /\ \/ /\ worker' = [worker EXCEPT ![c] = "converting"]
          /\ Go(c, "poll")
          /\ UNCHANGED <<reading, outcome>>
       \/ /\ Go(c, "tidy")
          /\ reading' = [reading EXCEPT ![c] = FALSE]
          /\ outcome' = [outcome EXCEPT ![c] = "uncaught"]
          /\ UNCHANGED worker
    /\ UNCHANGED <<message, pipe, signalled, dir>>

(* poll: bytes or the end of the file.                                     *)
PollReady(c) ==
    /\ parent[c] = "poll"
    /\ pipe[c] # "empty" \/ WriteEndClosed(c)
    /\ Go(c, "recv")
    /\ UNCHANGED <<worker, message, pipe, reading, signalled, dir, outcome>>

(* Bug: poll without a deadline.                                           *)
PollTimesOutNever(c) ==
    /\ FALSE
    /\ UNCHANGED vars
(* Nothing after PROCESSING_TIMEOUT_MS.                                    *)
PollTimesOut(c) ==
    /\ parent[c] = "poll"
    /\ pipe[c] = "empty" /\ ~WriteEndClosed(c)
    /\ outcome' = [outcome EXCEPT ![c] = "timeout"]
    /\ reading' = [reading EXCEPT ![c] = FALSE]
    /\ Go(c, "reap")
    /\ UNCHANGED <<worker, message, pipe, signalled, dir>>

(* What a message becomes: RuntimeError, ValueError and the dependency     *)
(* error are answered by the handlers; other exceptions, and one that      *)
(* cannot be unpickled, are not.                                           *)
Interpret(m) ==
    CASE m = "result" -> "result"
      [] m \in {"failure", "unserializable"} -> "failure"
      [] m = "surprise" -> "uncaught"

(* End of file before the message or right after its header is EOFError,   *)
(* within the body it is OSError.                                          *)
Received(c) ==
    CASE pipe[c] = "whole" -> {Interpret(message[c])}
      [] pipe[c] = "partial" -> {"exited", "uncaught"}
      [] pipe[c] = "empty" -> {"exited"}
(* recv blocks on half a message while the writer lives.                   *)
Recv(c) ==
    /\ parent[c] = "recv"
    /\ pipe[c] = "whole" \/ WriteEndClosed(c)
    /\ \E o \in Received(c) : outcome' = [outcome EXCEPT ![c] = o]
    /\ reading' = [reading EXCEPT ![c] = FALSE]
    /\ Go(c, "reap")
    /\ UNCHANGED <<worker, message, pipe, signalled, dir>>

(* _reap_direct_conversion_process: SIGTERM after a timeout.               *)
Reap(c) ==
    /\ parent[c] = "reap"
    /\ signalled' = [signalled EXCEPT ![c] = outcome[c] = "timeout" /\ worker[c] \in Alive]
    /\ Go(c, "join")
    /\ UNCHANGED <<worker, message, pipe, reading, dir, outcome>>

(* Bug: one second must be enough.                                         *)
JoinOnce(c) ==
    /\ parent[c] = "join"
    /\ Go(c, "tidy")
    /\ UNCHANGED <<worker, message, pipe, reading, signalled, dir, outcome>>
(* join for a second, then SIGKILL and join.                               *)
Join(c) ==
    /\ parent[c] = "join"
    /\ worker' = [worker EXCEPT ![c] = "dead"]
    /\ Go(c, "tidy")
    /\ UNCHANGED <<message, pipe, reading, signalled, dir, outcome>>

(* The end of TemporaryDirectory.                                          *)
Tidy(c) ==
    /\ parent[c] = "tidy"
    /\ dir' = [dir EXCEPT ![c] = FALSE]
    /\ Go(c, "done")
    /\ UNCHANGED <<worker, message, pipe, reading, signalled, outcome>>

-----------------------------------------------------------------------------
(* The worker.                                                             *)

(* convert_uploaded_document ends; a result that cannot be pickled ends    *)
(* the worker before a byte is sent.                                       *)
Convert(c) ==
    /\ worker[c] = "converting"
    /\ \/ \E m \in Messages :
            /\ message' = [message EXCEPT ![c] = m]
            /\ worker' = [worker EXCEPT ![c] = "sending"]
       \/ worker' = [worker EXCEPT ![c] = "dead"] /\ UNCHANGED message
    /\ UNCHANGED <<parent, pipe, reading, signalled, dir, outcome>>

(* A large message goes out in several writes; a closed pipe raises.       *)
Send(c) ==
    /\ worker[c] = "sending"
    /\ \/ /\ reading[c]
          /\ \/ /\ pipe[c] = "empty"
                /\ pipe' = [pipe EXCEPT ![c] = "partial"]
                /\ UNCHANGED worker
             \/ /\ pipe' = [pipe EXCEPT ![c] = "whole"]
                /\ worker' = [worker EXCEPT ![c] = "closing"]
       \/ /\ ~reading[c]
          /\ worker' = [worker EXCEPT ![c] = "dead"]
          /\ UNCHANGED pipe
    /\ UNCHANGED <<parent, message, reading, signalled, dir, outcome>>

Exit(c) ==
    /\ worker[c] = "closing"
    /\ worker' = [worker EXCEPT ![c] = "dead"]
    /\ UNCHANGED <<parent, message, pipe, reading, signalled, dir, outcome>>

(* SIGTERM arrives, or the system kills the process.                       *)
Killed(c) ==
    /\ worker[c] \in Alive
    /\ worker' = [worker EXCEPT ![c] = "dead"]
    /\ UNCHANGED <<parent, message, pipe, reading, signalled, dir, outcome>>

-----------------------------------------------------------------------------

Init ==
    /\ parent = [c \in Conversions |-> "prepare"]
    /\ worker = [c \in Conversions |-> "none"]
    /\ message = [c \in Conversions |-> "none"]
    /\ pipe = [c \in Conversions |-> "empty"]
    /\ reading = [c \in Conversions |-> FALSE]
    /\ signalled = [c \in Conversions |-> FALSE]
    /\ dir = [c \in Conversions |-> FALSE]
    /\ outcome = [c \in Conversions |-> "none"]

ParentStep(c) ==
    \/ Prepare(c)
    \/ Start(c)
    \/ PollReady(c)
    \/ PollTimesOut(c)
    \/ Recv(c)
    \/ Reap(c)
    \/ Join(c)
    \/ Tidy(c)

Next ==
    \/ \E c \in Conversions : ParentStep(c)
    \/ \E c \in Conversions : Convert(c)
    \/ \E c \in Conversions : Send(c)
    \/ \E c \in Conversions : Exit(c)
    \/ \E c \in Conversions : Killed(c)

Spec == Init /\ [][Next]_vars

(* The thread runs, and so does a worker that only has bytes to write; a   *)
(* conversion may hang for ever.                                           *)
FairSpec == Spec /\ \A c \in Conversions : WF_vars(ParentStep(c)) /\ WF_vars(Send(c))

-----------------------------------------------------------------------------
(* Correctness.                                                            *)

(* Every variable keeps its shape.                                         *)
TypeOK ==
    /\ parent \in [Conversions -> ParentPcs]
    /\ worker \in [Conversions -> Alive \cup {"none", "dead"}]
    /\ message \in [Conversions -> Messages \cup {"none"}]
    /\ pipe \in [Conversions -> {"empty", "partial", "whole"}]
    /\ reading \in [Conversions -> BOOLEAN]
    /\ signalled \in [Conversions -> BOOLEAN]
    /\ dir \in [Conversions -> BOOLEAN]
    /\ outcome \in [Conversions -> Outcomes]

(***************************************************************************)
(* A conversion that was answered leaves nothing behind, and a worker      *)
(* never outlives the directory it writes to: whatever the outcome, the    *)
(* worker is dead before the directory goes and the call ends.             *)
(***************************************************************************)
ReapedBeforeAnswer ==
    \A c \in Conversions :
        /\ parent[c] = "done" => worker[c] \in {"none", "dead"} /\ ~dir[c]
        /\ worker[c] \in Alive => dir[c]

(***************************************************************************)
(* A result is returned only if the worker sent a result and sent all of   *)
(* it, and never by a call that timed out.                                 *)
(***************************************************************************)
ResultsComplete ==
    \A c \in Conversions :
        outcome[c] = "result" => pipe[c] = "whole" /\ message[c] = "result" /\ ~signalled[c]

(* Every conversion ends, also if the worker hangs while converting.       *)
EveryConversionEnds == \A c \in Conversions : <>(parent[c] = "done")

(***************************************************************************)
(* A worker that exits early is answered (tests/test_poc_web_api.py,       *)
(* returns_json_when_conversion_worker_exits_early): the call raises an    *)
(* error its handlers turn into a JSON answer.                             *)
(***************************************************************************)
EarlyExitAnswered ==
    \A c \in Conversions :
        parent[c] = "done" /\ worker[c] = "dead" /\ pipe[c] # "whole" =>
            outcome[c] # "uncaught"
===========================================================================
