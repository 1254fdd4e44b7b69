----------------------- MODULE ConversionWorkerProofs -----------------------
(***************************************************************************)
(* For any number of concurrent conversions: workers are reaped before the *)
(* answer and results are whole.                                           *)
(***************************************************************************)
EXTENDS ConversionWorker, TLAPS

(* Where the directory and the worker exist, by the parent's position.     *)
Lifetimes(c) ==
    /\ parent[c] = "prepare" => ~dir[c] /\ worker[c] = "none"
    /\ parent[c] = "start" => dir[c] /\ worker[c] = "none"
    /\ parent[c] \in {"poll", "recv", "reap", "join"} => dir[c]
    /\ parent[c] \in {"tidy", "done"} => worker[c] \in {"none", "dead"}
    /\ parent[c] = "done" => ~dir[c]

(* Bytes follow a message; only a timeout signals the worker.             *)
Transfer(c) ==
    /\ worker[c] \in {"none", "converting"} => pipe[c] = "empty"
    /\ parent[c] \in {"prepare", "start", "poll", "recv"} => outcome[c] = "none" /\ ~signalled[c]
    /\ signalled[c] => outcome[c] = "timeout"
    /\ outcome[c] = "result" => pipe[c] = "whole" /\ message[c] = "result"
    /\ pipe[c] = "whole" => worker[c] \in {"closing", "dead"}
    /\ worker[c] = "sending" \/ pipe[c] # "empty" => message[c] \in Messages

Inv == TypeOK /\ \A c \in Conversions : Lifetimes(c) /\ Transfer(c)

LEMMA InitInv == Init => Inv
  BY DEF Init, Inv, TypeOK, Lifetimes, Transfer, ParentPcs, Alive, Messages, Outcomes

(* recv yields an outcome, and a result only from a whole message.         *)
LEMMA ReceivedOutcome ==
    ASSUME Inv, NEW c \in Conversions, Recv(c)
    PROVE  /\ outcome'[c] \in Outcomes
           /\ outcome'[c] = "result" => pipe[c] = "whole" /\ message[c] = "result"
<1> USE DEF Inv, TypeOK
<1>1. outcome'[c] \in Received(c)
  BY DEF Recv
<1>2. CASE pipe[c] = "whole"
  <2>1. message[c] \in Messages
    BY <1>2 DEF Transfer
  <2>2. outcome'[c] = Interpret(message[c])
    BY <1>1, <1>2 DEF Received
  <2> QED
    BY <1>2, <2>1, <2>2 DEF Interpret, Messages, Outcomes
<1>3. CASE pipe[c] = "partial"
  BY <1>1, <1>3 DEF Received, Outcomes
<1>4. CASE pipe[c] = "empty"
  BY <1>1, <1>4 DEF Received, Outcomes
<1> QED
  BY <1>2, <1>3, <1>4

(* A step of one conversion leaves the others alone.                       *)
LEMMA OneStep ==
    ASSUME Inv, NEW c \in Conversions,
           ParentStep(c) \/ Convert(c) \/ Send(c) \/ Exit(c) \/ Killed(c)
    PROVE  Inv'
<1> USE DEF Inv
<1>1. TypeOK'
  <2> USE DEF TypeOK, Go
  <2>1. CASE Prepare(c)
    BY <2>1 DEF Prepare, ParentPcs, Outcomes
  <2>2. CASE Start(c)
    BY <2>2 DEF Start, ParentPcs, Outcomes, Alive
  <2>3. CASE PollReady(c) \/ PollTimesOut(c)
    BY <2>3 DEF PollReady, PollTimesOut, ParentPcs, Outcomes
  <2>4. CASE Recv(c)
    <3>1. outcome'[c] \in Outcomes
      BY <2>4, ReceivedOutcome
    <3>2. outcome' \in [Conversions -> Outcomes]
      BY <2>4, <3>1 DEF Recv
    <3> QED
      BY <2>4, <3>2 DEF Recv, ParentPcs
  <2>5. CASE Reap(c) \/ Join(c) \/ Tidy(c)
    BY <2>5 DEF Reap, Join, Tidy, ParentPcs
  <2>6. CASE Convert(c)
    BY <2>6 DEF Convert, Alive
  <2>7. CASE Send(c)
    BY <2>7 DEF Send, Alive
  <2>8. CASE Exit(c) \/ Killed(c)
    BY <2>8 DEF Exit, Killed
  <2> QED
    BY <2>1, <2>2, <2>3, <2>4, <2>5, <2>6, <2>7, <2>8 DEF ParentStep
<1>2. ASSUME NEW d \in Conversions, d # c PROVE Lifetimes(d)' /\ Transfer(d)'
  <2>1. /\ parent'[d] = parent[d] /\ worker'[d] = worker[d] /\ message'[d] = message[d]
        /\ pipe'[d] = pipe[d] /\ signalled'[d] = signalled[d]
        /\ dir'[d] = dir[d] /\ outcome'[d] = outcome[d]
    BY <1>2 DEF TypeOK, Go, ParentStep, Prepare, Start, PollReady, PollTimesOut, Recv, Reap, Join,
                Tidy, Convert, Send, Exit, Killed
  <2> QED
    BY <2>1 DEF Lifetimes, Transfer
<1>3. Lifetimes(c)'
  <2> USE DEF TypeOK, Lifetimes, Go, Alive
  <2>1. CASE Prepare(c) \/ Start(c)
    BY <2>1 DEF Prepare, Start
  <2>2. CASE PollReady(c) \/ PollTimesOut(c) \/ Recv(c)
    BY <2>2 DEF PollReady, PollTimesOut, Recv
  <2>3. CASE Reap(c) \/ Join(c) \/ Tidy(c)
    BY <2>3 DEF Reap, Join, Tidy
  <2>4. CASE Convert(c) \/ Send(c) \/ Exit(c) \/ Killed(c)
    BY <2>4 DEF Convert, Send, Exit, Killed
  <2> QED
    BY <2>1, <2>2, <2>3, <2>4 DEF ParentStep
<1>4. Transfer(c)'
  <2> USE DEF TypeOK, Transfer, Go, Alive
  <2>1. CASE Prepare(c) \/ Start(c)
    BY <2>1 DEF Prepare, Start, Lifetimes
  <2>2. CASE PollReady(c) \/ PollTimesOut(c)
    BY <2>2 DEF PollReady, PollTimesOut
  <2>3. CASE Recv(c)
    <3>1. outcome'[c] = "result" => pipe[c] = "whole" /\ message[c] = "result"
      BY <2>3, ReceivedOutcome
    <3> QED
      BY <2>3, <3>1 DEF Recv
  <2>4. CASE Reap(c) \/ Join(c) \/ Tidy(c)
    BY <2>4 DEF Reap, Join, Tidy, Lifetimes
  <2>5. CASE Convert(c) \/ Send(c) \/ Exit(c) \/ Killed(c)
    BY <2>5 DEF Convert, Send, Exit, Killed
  <2> QED
    BY <2>1, <2>2, <2>3, <2>4, <2>5 DEF ParentStep
<1> QED
  BY <1>1, <1>2, <1>3, <1>4

(* The inductive invariant of a conversion.                                *)
THEOREM ConversionInvariant == Spec => []Inv
<1>1. Inv /\ [Next]_vars => Inv'
  <2> SUFFICES ASSUME Inv, [Next]_vars PROVE Inv'
    OBVIOUS
  <2>1. CASE Next
    BY <2>1, OneStep DEF Next
  <2>2. CASE UNCHANGED vars
    BY <2>2 DEF vars, Inv, TypeOK, Lifetimes, Transfer
  <2> QED
    BY <2>1, <2>2
<1> QED
  BY <1>1, InitInv, PTL DEF Spec

(* Parent, worker and pipe keep their shape.                               *)
THEOREM ConversionTypeCorrect == Spec => []TypeOK
<1>1. Inv => TypeOK
  BY DEF Inv
<1> QED
  BY <1>1, ConversionInvariant, PTL

(* No worker survives the answer or its temporary directory.               *)
THEOREM WorkersAreReaped == Spec => []ReapedBeforeAnswer
<1>1. Inv => ReapedBeforeAnswer
  BY DEF Inv, TypeOK, ReapedBeforeAnswer, Lifetimes, ParentPcs, Alive
<1> QED
  BY <1>1, ConversionInvariant, PTL

(* Only whole results of workers that were not timed out are returned.     *)
THEOREM ResultsAreComplete == Spec => []ResultsComplete
<1>1. Inv => ResultsComplete
  BY DEF Inv, ResultsComplete, Transfer
<1> QED
  BY <1>1, ConversionInvariant, PTL
============================================================================
