--------------------------- MODULE ReviewAudit ---------------------------
(***************************************************************************)
(* Reviewing conversion results: ReviewAuditEventStore of                  *)
(* services/api/poc_web.py with the handlers that feed it.  A review event *)
(* edits, approves, rejects or sends back one block of a document; an      *)
(* approval needs an edit by somebody else, and blocks that need trusted   *)
(* OCR may be neither edited nor approved.                                 *)
(*                                                                         *)
(* The store lives in memory under one lock, so recording an event (checks *)
(* and append) is one action.  What a conversion result says about its     *)
(* blocks reaches the store by registration: from the thread that          *)
(* converted, from the request that fetches a stored result, and from the  *)
(* start of the server.                                                    *)
(***************************************************************************)
EXTENDS Integers, Sequences

CONSTANTS
    Results,     \* conversion results the server may produce
    Inputs,      \* review events clients may post (without the actor)
    Actors,      \* authenticated principals
    RoleOf,      \* actor -> role
    None,        \* Python's None; as actor: local authentication is off
    MaxEvents,   \* bound: length of the log
    MaxRestarts  \* bound: number of restarts

(***************************************************************************)
(* A result: its conversion id, whether a job stored it or /api/convert    *)
(* returned it directly, whether its download passes the hash checks, the  *)
(* source digest, the text of each block under review, and the blocks      *)
(* whose text needs trusted OCR.                                           *)
(***************************************************************************)
ASSUME ResultsAssumption ==
    \A r \in Results :
        /\ DOMAIN r = {"conversion", "stored", "downloadable", "hash", "texts", "ocr"}
        /\ r.conversion # None
        /\ \A s \in Results : r.conversion = s.conversion => r = s

Actions == {"edit", "approve", "reject", "needs_fix"}

ASSUME InputsAssumption ==
    /\ None \notin Actors
    /\ \A e \in Inputs :
        /\ DOMAIN e = {"action", "conversion", "hash", "block", "original", "revised"}
        /\ e.action \in Actions
        /\ e.original # None /\ e.revised # None

VARIABLES
    events,     \* _events, oldest first
    policies,   \* _conversion_ocr_policies: <<conversion, block, needs OCR>>
    targets,    \* _conversion_review_targets: <<conversion, block, hash, text>>
    blocked,    \* _trusted_ocr_blocked_targets
    stored,     \* results of succeeded jobs (job queue, durable)
    delivered,  \* results a client holds that the server still answers for
    restarts    \* number of restarts so far

vars == <<events, policies, targets, blocked, stored, delivered, restarts>>

-----------------------------------------------------------------------------
(* Who may do what.                                                        *)

EditRoles == {"reviewer", "approver", "admin"}
ApproveRoles == {"approver", "admin"}

(* _handle_review_event: approving and rejecting need an identity.         *)
Permitted(actor, action) ==
    LET approving == action \in {"approve", "reject"} IN
    IF actor = None
    THEN ~approving
    ELSE RoleOf[actor] \in IF approving THEN ApproveRoles ELSE EditRoles

(* _validate_review_event and _review_event_with_auth_context.             *)
Event(e, actor) ==
    [action |-> e.action, conversion |-> e.conversion, hash |-> e.hash,
     block |-> e.block, original |-> e.original, revised |-> e.revised,
     actor |-> actor]

-----------------------------------------------------------------------------
(* Registering a result.                                                   *)

(* _review_ocr_policies_from_conversion_result: every block that needs OCR *)
(* is in, listed for review or not.                                        *)
PoliciesOf(r) ==
    {<<r.conversion, b, TRUE>> : b \in r.ocr}
        \cup {<<r.conversion, b, FALSE>> : b \in DOMAIN r.texts \ r.ocr}

(* _review_targets_from_conversion_result.                                 *)
TargetsOf(r) == {<<r.conversion, b, r.hash, r.texts[b]>> : b \in DOMAIN r.texts}

BlockedBy(P) == {p[2] : p \in {q \in P : q[3]}}

Register(R) ==
    /\ policies' = policies \cup UNION {PoliciesOf(r) : r \in R}
    /\ targets' = targets \cup UNION {TargetsOf(r) : r \in R}
    /\ blocked' = blocked \cup BlockedBy(UNION {PoliciesOf(r) : r \in R})

(* POST /api/convert: register, then answer with the result.               *)
ConvertDirectly(r) ==
    /\ ~r.stored
    /\ Register({r})
    /\ delivered' = delivered \cup {r}
    /\ UNCHANGED <<events, stored, restarts>>

(* mark_succeeded of the job; registration is a later step of the thread.  *)
StoreResult(r) ==
    /\ r.stored /\ r \notin stored
    /\ stored' = stored \cup {r}
    /\ UNCHANGED <<events, policies, targets, blocked, delivered, restarts>>

RegisterStored(r) ==
    /\ r \in stored
    /\ Register({r})
    /\ UNCHANGED <<events, stored, delivered, restarts>>

(* _job_download accepts the stored result.                                *)
Servable == {r \in stored : r.downloadable}

(* GET of a job's result: register, then answer.                           *)
GetJobResult(r) ==
    /\ r \in Servable
    /\ Register({r})
    /\ delivered' = delivered \cup {r}
    /\ UNCHANGED <<events, stored, restarts>>

-----------------------------------------------------------------------------
(* Recording an event.                                                     *)

(* Bug: only the policy of the event's own conversion counts.              *)
WithinOcrBoundaryOfConversion(e) ==
    e.action \in {"edit", "approve"} => <<e.conversion, e.block, TRUE>> \notin policies
(* _require_trusted_ocr_boundary_locked and                                *)
(* _require_review_event_matches_conversion_locked.                        *)
WithinOcrBoundary(e) ==
    e.action \in {"edit", "approve"} =>
        IF <<e.conversion, e.block, FALSE>> \in policies
        THEN <<e.conversion, e.block, e.hash, e.original>> \in targets
        ELSE /\ <<e.conversion, e.block, TRUE>> \notin policies
             /\ e.block \notin blocked

(* _same_review_workflow_target_base.                                      *)
SameTarget(s, e) ==
    /\ s.block = e.block
    /\ s.hash # None /\ e.hash # None => s.hash = e.hash

(* _has_conflicting_review_conversion_id.                                  *)
OtherConversion(s, e) ==
    s.conversion # None /\ e.conversion # None /\ s.conversion # e.conversion

(* The positions in a log that _validate_review_workflow_event looks at.   *)
Earlier(log, e, action) ==
    {i \in 1..Len(log) : log[i].action = action /\ SameTarget(log[i], e)}
OwnEdits(log, e) ==
    {i \in Earlier(log, e, "edit") :
        ~OtherConversion(log[i], e) /\ log[i].actor # None}
NeedsFixes(log, e) ==
    {i \in Earlier(log, e, "needs_fix") : ~OtherConversion(log[i], e)}

(***************************************************************************)
(* _qualifying_cross_conversion_review_edit: edits of another conversion   *)
(* with the same text count while this conversion has no edit of its own.  *)
(***************************************************************************)
OfThisConversion(log, e) ==
    {i \in OwnEdits(log, e) : e.conversion # None /\ log[i].conversion = e.conversion}
CrossEdits(log, e) ==
    {i \in Earlier(log, e, "edit") :
        /\ OtherConversion(log[i], e)
        /\ OfThisConversion(log, e) = {}
        /\ log[i].revised = e.revised
        /\ log[i].actor # None}

(* Bug: any edit resolves it, also an earlier one.                         *)
NeedsFixResolvedSomewhere(log, e) ==
    NeedsFixes(log, e) # {} => OwnEdits(log, e) # {}
(* Every needs-fix is followed by an edit.                                 *)
NeedsFixResolved(log, e) ==
    \A i \in NeedsFixes(log, e) : \E k \in OwnEdits(log, e) : i < k

(* The text approved is the one edited last, or the original.              *)
TargetsLatestText(log, e) ==
    \/ OwnEdits(log, e) = {} /\ e.revised = e.original
    \/ \E k \in OwnEdits(log, e) :
        /\ \A i \in OwnEdits(log, e) : i <= k
        /\ e.revised = log[k].revised

(* Bug: only the edits of this conversion are compared with the approver.  *)
ByAnotherActorHere(log, e) ==
    \A i \in OfThisConversion(log, e) : log[i].actor # e.actor
ByAnotherActor(log, e) ==
    \A i \in OwnEdits(log, e) \cup CrossEdits(log, e) : log[i].actor # e.actor

(* _validate_review_workflow_event.                                        *)
Approvable(log, e) ==
    /\ NeedsFixResolved(log, e)
    /\ ByAnotherActor(log, e)
    /\ CrossEdits(log, e) # {} => e.original = e.revised
    /\ OwnEdits(log, e) \cup CrossEdits(log, e) # {}
    /\ TargetsLatestText(log, e)

RecordReviewEvent(input, actor) ==
    LET e == Event(input, actor) IN
    /\ Len(events) < MaxEvents
    /\ Permitted(actor, e.action)
    /\ WithinOcrBoundary(e)
    /\ e.action = "approve" => Approvable(events, e)
    /\ events' = Append(events, e)
    /\ UNCHANGED <<policies, targets, blocked, stored, delivered, restarts>>

-----------------------------------------------------------------------------
(***************************************************************************)
(* The server stops and run builds a new store: the log and every          *)
(* registration are gone, the results it can serve are registered again.   *)
(* A client may still hold a direct result; the server no longer knows it. *)
(***************************************************************************)
Restart ==
    /\ restarts < MaxRestarts
    /\ restarts' = restarts + 1
    /\ events' = <<>>
    /\ policies' = UNION {PoliciesOf(r) : r \in Servable}
    /\ targets' = UNION {TargetsOf(r) : r \in Servable}
    /\ blocked' = BlockedBy(UNION {PoliciesOf(r) : r \in Servable})
    /\ delivered' = delivered \cap Servable
    /\ UNCHANGED stored

Init ==
    /\ events = <<>>
    /\ policies = {}
    /\ targets = {}
    /\ blocked = {}
    /\ stored = {}
    /\ delivered = {}
    /\ restarts = 0

Next ==
    \/ \E r \in Results : ConvertDirectly(r)
    \/ \E r \in Results : StoreResult(r)
    \/ \E r \in Results : RegisterStored(r)
    \/ \E r \in Results : GetJobResult(r)
    \/ \E input \in Inputs, actor \in Actors \cup {None} : RecordReviewEvent(input, actor)
    \/ Restart

Spec == Init /\ [][Next]_vars
-----------------------------------------------------------------------------
(* Correctness.                                                            *)

ReviewEvents ==
    [action : Actions, conversion : {e.conversion : e \in Inputs},
     hash : {e.hash : e \in Inputs}, block : {e.block : e \in Inputs},
     original : {e.original : e \in Inputs}, revised : {e.revised : e \in Inputs},
     actor : Actors \cup {None}]

(* Every variable keeps its shape.                                         *)
TypeOK ==
    /\ events \in Seq(ReviewEvents)
    /\ stored \in SUBSET Results
    /\ delivered \in SUBSET Results
    /\ restarts \in Nat

(***************************************************************************)
(* Four eyes: whatever history of edits, conversions and unauthenticated   *)
(* events led to it, every approved text was written, for that block, by   *)
(* an identified actor who is not the approver.                            *)
(***************************************************************************)
FourEyes ==
    \A n \in 1..Len(events) :
        events[n].action = "approve" =>
            /\ events[n].actor # None
            /\ \E k \in 1..(n - 1) :
                /\ events[k].action = "edit"
                /\ SameTarget(events[k], events[n])
                /\ events[k].revised = events[n].revised
                /\ events[k].actor \notin {None, events[n].actor}

(***************************************************************************)
(* A block sent back is not approved before it was edited again: between   *)
(* a needs_fix and a later approval of the same conversion (or an unscoped *)
(* one) there is an edit by an identified actor.                           *)
(***************************************************************************)
NeedsFixBlocksApproval ==
    \A m, n \in 1..Len(events) :
        /\ m < n
        /\ events[m].action = "needs_fix" /\ events[n].action = "approve"
        /\ SameTarget(events[m], events[n])
        /\ ~OtherConversion(events[m], events[n])
        => \E k \in (m + 1)..(n - 1) :
                events[k].action = "edit" /\ events[k].actor # None

(***************************************************************************)
(* The trusted OCR boundary: once a client holds a result that requires    *)
(* trusted OCR for a block, no edit or approval of that block is recorded, *)
(* unless it is bound to a conversion that produced the very text it       *)
(* quotes without that need.  Holds although the converting thread may not *)
(* have registered the result yet, and across restarts for stored results. *)
(***************************************************************************)
BacksUp(s, e) ==
    /\ s.conversion = e.conversion
    /\ e.block \in DOMAIN s.texts \ s.ocr
    /\ s.hash = e.hash
    /\ s.texts[e.block] = e.original
StaysWithinBoundary ==
    Len(events') = Len(events) + 1 =>
        LET e == events'[Len(events')] IN
        e.action \in {"edit", "approve"} =>
            \A r \in delivered : e.block \in r.ocr => \E s \in Results : BacksUp(s, e)
OcrBoundaryHeld == [][StaysWithinBoundary]_vars

(***************************************************************************)
(* What the store knows is what the results say: every result a client     *)
(* holds is registered, no registration lacks its result, and the blocked  *)
(* blocks are those of the policies in force.                              *)
(***************************************************************************)
RegistrationsConsistent ==
    /\ \A r \in delivered : PoliciesOf(r) \subseteq policies /\ TargetsOf(r) \subseteq targets
    /\ \A p \in policies : \E r \in stored \cup delivered : p \in PoliciesOf(r)
    /\ \A p \in targets : \E r \in stored \cup delivered : p \in TargetsOf(r)
    /\ blocked = BlockedBy(policies)
==========================================================================
