---------------------------- MODULE ReviewProofs -----------------------------
(***************************************************************************)
(* Proofs about review by people: the audit trail of reviews (ReviewAudit),*)
(* what is confirmed without a person (AutoValidation) and what the gate   *)
(* accepts as evidence that people reviewed (StudyEvidence).               *)
(***************************************************************************)
EXTENDS ReviewAudit, AutoValidation, StudyEvidence, FiniteSetTheorems, SequenceTheorems, TLAPS

-----------------------------------------------------------------------------
(* An event built from an input and an actor is a review event.            *)
LEMMA EventTyped ==
    ASSUME NEW input \in Inputs, NEW actor \in Actors \cup {None}
    PROVE  Event(input, actor) \in ReviewEvents
  BY InputsAssumption DEF Event, ReviewEvents

(* The variables keep their shape in every step.                           *)
LEMMA TypeStep == TypeOK /\ [Next]_vars => TypeOK'
<1> SUFFICES ASSUME TypeOK, [Next]_vars PROVE TypeOK'
  OBVIOUS
<1> USE DEF TypeOK
<1>1. CASE \E r \in Results : ConvertDirectly(r)
  BY <1>1 DEF ConvertDirectly
<1>2. CASE \E r \in Results : StoreResult(r)
  BY <1>2 DEF StoreResult
<1>3. CASE \E r \in Results : RegisterStored(r)
  BY <1>3 DEF RegisterStored
<1>4. CASE \E r \in Results : GetJobResult(r)
  BY <1>4 DEF GetJobResult
<1>5. ASSUME NEW input \in Inputs, NEW actor \in Actors \cup {None},
             RecordReviewEvent(input, actor)
      PROVE  TypeOK'
  BY <1>5, EventTyped, AppendProperties DEF RecordReviewEvent
<1>6. CASE Restart
  BY <1>6, EmptySeq DEF Restart
<1>7. CASE UNCHANGED vars
  BY <1>7 DEF vars
<1> QED
  BY <1>1, <1>2, <1>3, <1>4, <1>5, <1>6, <1>7 DEF Next

(* The review store is well typed in every reachable state.                *)
THEOREM ReviewTypeCorrect == Spec => []TypeOK
<1>1. Init => TypeOK
  BY EmptySeq DEF Init, TypeOK
<1> QED
  BY <1>1, TypeStep, PTL DEF Spec

-----------------------------------------------------------------------------
(***************************************************************************)
(* Four eyes.  The log only grows, so an approval keeps its witness; a new *)
(* approval finds one among the edits it was checked against: the last     *)
(* edit it has to repeat, or an edit of another conversion with its text.  *)
(***************************************************************************)
LEMMA ApprovableWitness ==
    ASSUME NEW log \in Seq(ReviewEvents), NEW e \in ReviewEvents, Approvable(log, e)
    PROVE  \E k \in 1..Len(log) :
                /\ log[k].action = "edit"
                /\ SameTarget(log[k], e)
                /\ log[k].revised = e.revised
                /\ log[k].actor \notin {None, e.actor}
<1>1. CASE OwnEdits(log, e) = {}
  <2>1. PICK k \in CrossEdits(log, e) : TRUE
    BY <1>1 DEF Approvable
  <2>2. log[k].actor # e.actor
    BY <2>1 DEF Approvable, ByAnotherActor
  <2> QED
    BY <2>1, <2>2 DEF CrossEdits, Earlier
<1>2. CASE OwnEdits(log, e) # {}
  <2>1. PICK k \in OwnEdits(log, e) : e.revised = log[k].revised
    BY <1>2 DEF Approvable, TargetsLatestText
  <2>2. log[k].actor # e.actor
    BY <2>1 DEF Approvable, ByAnotherActor
  <2> QED
    BY <2>1, <2>2 DEF OwnEdits, Earlier
<1> QED
  BY <1>1, <1>2

(* Recording an event preserves the principle.                             *)
LEMMA FourEyesRecord ==
    ASSUME TypeOK, FourEyes, NEW input \in Inputs, NEW actor \in Actors \cup {None},
           RecordReviewEvent(input, actor)
    PROVE  FourEyes'
<1> DEFINE e == Event(input, actor)
<1>1. /\ events' = Append(events, e)
      /\ e \in ReviewEvents
      /\ events \in Seq(ReviewEvents)
  BY EventTyped DEF RecordReviewEvent, TypeOK
<1>2. /\ Len(events') = Len(events) + 1
      /\ \A i \in 1..Len(events) : events'[i] = events[i]
      /\ events'[Len(events) + 1] = e
      /\ Len(events) \in Nat
  BY <1>1, AppendProperties, LenProperties
<1> SUFFICES ASSUME NEW n \in 1..Len(events'), events'[n].action = "approve"
             PROVE  /\ events'[n].actor # None
                    /\ \E k \in 1..(n - 1) :
                        /\ events'[k].action = "edit"
                        /\ SameTarget(events'[k], events'[n])
                        /\ events'[k].revised = events'[n].revised
                        /\ events'[k].actor \notin {None, events'[n].actor}
  BY DEF FourEyes, SameTarget
<1>3. CASE n \in 1..Len(events)
  <2>1. events'[n] = events[n]
    BY <1>2, <1>3
  <2>2. PICK k \in 1..(n - 1) :
                /\ events[k].action = "edit"
                /\ SameTarget(events[k], events[n])
                /\ events[k].revised = events[n].revised
                /\ events[k].actor \notin {None, events[n].actor}
    BY <2>1, <1>3 DEF FourEyes
  <2>3. events'[k] = events[k]
    BY <1>2, <1>3
  <2> QED
    BY <2>1, <2>2, <2>3, <1>3 DEF FourEyes
<1>4. CASE n = Len(events) + 1
  <2>1. /\ events'[n] = e
        /\ e.action = "approve"
    BY <1>2, <1>4
  <2>2. e.actor = actor /\ e.action = input.action
    BY DEF Event
  <2>3. actor # None
    BY <2>1, <2>2 DEF RecordReviewEvent, Permitted
  <2>4. Approvable(events, e)
    BY <2>1 DEF RecordReviewEvent
  <2>5. PICK k \in 1..Len(events) :
                /\ events[k].action = "edit"
                /\ SameTarget(events[k], e)
                /\ events[k].revised = e.revised
                /\ events[k].actor \notin {None, e.actor}
    BY <2>4, <1>1, ApprovableWitness
  <2>6. events'[k] = events[k] /\ n - 1 = Len(events)
    BY <1>2, <1>4
  <2> QED
    BY <2>1, <2>2, <2>3, <2>5, <2>6
<1> QED
  BY <1>2, <1>3, <1>4

(***************************************************************************)
(* Every approved text was written, for that block, by an identified actor *)
(* other than the approver: the segregation of duties that                 *)
(* _validate_review_workflow_event enforces, for every history of events.  *)
(***************************************************************************)
THEOREM ApprovalsHaveFourEyes == Spec => []FourEyes
<1>1. Init => FourEyes
  BY DEF Init, FourEyes
<1>2. TypeOK /\ FourEyes /\ [Next]_vars => FourEyes'
  <2> SUFFICES ASSUME TypeOK, FourEyes, [Next]_vars PROVE FourEyes'
    OBVIOUS
  <2>1. CASE UNCHANGED events
    BY <2>1 DEF FourEyes, SameTarget
  <2>2. ASSUME NEW input \in Inputs, NEW actor \in Actors \cup {None},
               RecordReviewEvent(input, actor)
        PROVE  FourEyes'
    BY <2>2, FourEyesRecord
  <2>3. CASE Restart
    BY <2>3 DEF Restart, FourEyes
  <2> QED
    BY <2>1, <2>2, <2>3
       DEF Next, ConvertDirectly, StoreResult, RegisterStored, GetJobResult, vars
<1> QED
  BY <1>1, <1>2, ReviewTypeCorrect, PTL DEF Spec

-----------------------------------------------------------------------------
(***************************************************************************)
(* Blocks sent back.  An approval is checked against every needs_fix       *)
(* before it; the edit found after each one stays in the log between them. *)
(***************************************************************************)
LEMMA NeedsFixRecord ==
    ASSUME TypeOK, NeedsFixBlocksApproval,
           NEW input \in Inputs, NEW actor \in Actors \cup {None},
           RecordReviewEvent(input, actor)
    PROVE  NeedsFixBlocksApproval'
<1> DEFINE e == Event(input, actor)
<1>1. /\ events' = Append(events, e)
      /\ e \in ReviewEvents
      /\ events \in Seq(ReviewEvents)
  BY EventTyped DEF RecordReviewEvent, TypeOK
<1>2. /\ Len(events') = Len(events) + 1
      /\ \A i \in 1..Len(events) : events'[i] = events[i]
      /\ events'[Len(events) + 1] = e
      /\ Len(events) \in Nat
  BY <1>1, AppendProperties, LenProperties
<1> SUFFICES ASSUME NEW m \in 1..Len(events'), NEW n \in 1..Len(events'), m < n,
                    events'[m].action = "needs_fix", events'[n].action = "approve",
                    SameTarget(events'[m], events'[n]),
                    ~OtherConversion(events'[m], events'[n])
             PROVE  \E k \in (m + 1)..(n - 1) :
                        events'[k].action = "edit" /\ events'[k].actor # None
  BY DEF NeedsFixBlocksApproval, SameTarget, OtherConversion
<1>3. m \in 1..Len(events) /\ events'[m] = events[m]
  BY <1>2
<1>4. CASE n \in 1..Len(events)
  <2>1. events'[n] = events[n]
    BY <1>2, <1>4
  <2>2. PICK k \in (m + 1)..(n - 1) : events[k].action = "edit" /\ events[k].actor # None
    BY <2>1, <1>3, <1>4 DEF NeedsFixBlocksApproval
  <2>3. events'[k] = events[k]
    BY <1>2, <1>3, <1>4
  <2> QED
    BY <2>2, <2>3
<1>5. CASE n = Len(events) + 1
  <2>1. events'[n] = e /\ e.action = "approve"
    BY <1>2, <1>5
  <2>2. m \in NeedsFixes(events, e)
    BY <1>3, <2>1 DEF NeedsFixes, Earlier
  <2>3. PICK k \in OwnEdits(events, e) : m < k
    BY <2>1, <2>2 DEF RecordReviewEvent, Approvable, NeedsFixResolved
  <2>4. /\ k \in 1..Len(events)
        /\ events[k].action = "edit" /\ events[k].actor # None
    BY <2>3 DEF OwnEdits, Earlier
  <2>5. k \in (m + 1)..(n - 1) /\ events'[k] = events[k]
    BY <1>2, <1>5, <2>3, <2>4
  <2> QED
    BY <2>4, <2>5
<1> QED
  BY <1>2, <1>4, <1>5

(***************************************************************************)
(* A block sent back is never approved before an identified actor edited   *)
(* it again, however events of several conversions and unscoped events     *)
(* interleave: _validate_review_workflow_event checks every needs_fix, not *)
(* only the latest event.                                                  *)
(***************************************************************************)
THEOREM SentBackBlocksAreEditedAgain == Spec => []NeedsFixBlocksApproval
<1>1. Init => NeedsFixBlocksApproval
  BY DEF Init, NeedsFixBlocksApproval
<1>2. TypeOK /\ NeedsFixBlocksApproval /\ [Next]_vars => NeedsFixBlocksApproval'
  <2> SUFFICES ASSUME TypeOK, NeedsFixBlocksApproval, [Next]_vars
               PROVE  NeedsFixBlocksApproval'
    OBVIOUS
  <2>1. CASE UNCHANGED events
    BY <2>1 DEF NeedsFixBlocksApproval, SameTarget, OtherConversion
  <2>2. ASSUME NEW input \in Inputs, NEW actor \in Actors \cup {None},
               RecordReviewEvent(input, actor)
        PROVE  NeedsFixBlocksApproval'
    BY <2>2, NeedsFixRecord
  <2>3. CASE Restart
    BY <2>3 DEF Restart, NeedsFixBlocksApproval
  <2> QED
    BY <2>1, <2>2, <2>3
       DEF Next, ConvertDirectly, StoreResult, RegisterStored, GetJobResult, vars
<1> QED
  BY <1>1, <1>2, ReviewTypeCorrect, PTL DEF Spec

-----------------------------------------------------------------------------
(***************************************************************************)
(* The OCR boundary.  RegistrationsConsistent is inductive; with it, an    *)
(* event past the boundary check contradicts no result a client holds.     *)
(***************************************************************************)
LEMMA RegisterConsistent ==
    ASSUME RegistrationsConsistent, NEW r, Register({r}),
           \/ r \in stored /\ delivered' \in {delivered, delivered \cup {r}}
           \/ delivered' = delivered \cup {r},
           stored' = stored
    PROVE  RegistrationsConsistent'
<1>1. /\ policies' = policies \cup PoliciesOf(r)
      /\ targets' = targets \cup TargetsOf(r)
      /\ blocked' = blocked \cup BlockedBy(PoliciesOf(r))
  BY DEF Register
<1>2. blocked' = BlockedBy(policies')
  BY <1>1 DEF RegistrationsConsistent, BlockedBy
<1>3. \A s \in delivered' : PoliciesOf(s) \subseteq policies' /\ TargetsOf(s) \subseteq targets'
  BY <1>1 DEF RegistrationsConsistent
<1>4. \A p \in policies' : \E s \in stored' \cup delivered' : p \in PoliciesOf(s)
  BY <1>1 DEF RegistrationsConsistent
<1>5. \A p \in targets' : \E s \in stored' \cup delivered' : p \in TargetsOf(s)
  BY <1>1 DEF RegistrationsConsistent
<1> QED
  BY <1>2, <1>3, <1>4, <1>5 DEF RegistrationsConsistent

LEMMA RegistrationsStep ==
    RegistrationsConsistent /\ [Next]_vars => RegistrationsConsistent'
<1> SUFFICES ASSUME RegistrationsConsistent, [Next]_vars
             PROVE  RegistrationsConsistent'
  OBVIOUS
<1>1. CASE \E r \in Results : ConvertDirectly(r)
  BY <1>1, RegisterConsistent DEF ConvertDirectly
<1>2. CASE \E r \in Results : StoreResult(r)
  BY <1>2 DEF StoreResult, RegistrationsConsistent
<1>3. CASE \E r \in Results : RegisterStored(r)
  BY <1>3, RegisterConsistent DEF RegisterStored
<1>4. CASE \E r \in Results : GetJobResult(r)
  BY <1>4, RegisterConsistent DEF GetJobResult, Servable
<1>5. CASE \E input \in Inputs, actor \in Actors \cup {None} :
                RecordReviewEvent(input, actor)
  BY <1>5 DEF RecordReviewEvent, RegistrationsConsistent
<1>6. CASE Restart
  BY <1>6 DEF Restart, Servable, RegistrationsConsistent
<1>7. CASE UNCHANGED vars
  BY <1>7 DEF vars, RegistrationsConsistent
<1> QED
  BY <1>1, <1>2, <1>3, <1>4, <1>5, <1>6, <1>7 DEF Next

(* What the store knows is what the results say, whichever of the three    *)
(* registration paths ran and however often the server restarted.          *)
THEOREM RegistrationsAreConsistent == Spec => []RegistrationsConsistent
<1>1. Init => RegistrationsConsistent
  BY DEF Init, RegistrationsConsistent, BlockedBy
<1> QED
  BY <1>1, RegistrationsStep, PTL DEF Spec

(***************************************************************************)
(* A step that records an edit or an approval of a block under the OCR     *)
(* boundary of a result some client holds is bound to a clean conversion   *)
(* whose registered digest and text it quotes.                             *)
(***************************************************************************)
LEMMA BoundaryStep ==
    ASSUME TypeOK, RegistrationsConsistent,
           NEW input \in Inputs, NEW actor \in Actors \cup {None},
           RecordReviewEvent(input, actor), NEW r \in delivered,
           Event(input, actor).action \in {"edit", "approve"},
           Event(input, actor).block \in r.ocr
    PROVE  \E s \in Results : BacksUp(s, Event(input, actor))
<1> DEFINE e == Event(input, actor)
<1>1. WithinOcrBoundary(e)
  BY DEF RecordReviewEvent
<1>2. e.block \in blocked
  <2>1. <<r.conversion, e.block, TRUE>> \in policies
    BY DEF PoliciesOf, RegistrationsConsistent
  <2> DEFINE p == <<r.conversion, e.block, TRUE>>
  <2>2. p \in {q \in policies : q[3]} /\ p[2] = e.block
    BY <2>1
  <2>3. e.block \in BlockedBy(policies)
    BY <2>2 DEF BlockedBy
  <2> QED
    BY <2>3 DEF RegistrationsConsistent
<1>3. /\ <<e.conversion, e.block, FALSE>> \in policies
      /\ <<e.conversion, e.block, e.hash, e.original>> \in targets
  BY <1>1, <1>2 DEF WithinOcrBoundary
<1>4. PICK p \in stored \cup delivered : <<e.conversion, e.block, FALSE>> \in PoliciesOf(p)
  BY <1>3 DEF RegistrationsConsistent
<1>5. /\ p.conversion = e.conversion
      /\ e.block \in DOMAIN p.texts \ p.ocr
  BY <1>4 DEF PoliciesOf
<1>6. PICK q \in stored \cup delivered :
            <<e.conversion, e.block, e.hash, e.original>> \in TargetsOf(q)
  BY <1>3 DEF RegistrationsConsistent
<1>7. /\ q.conversion = e.conversion
      /\ q.hash = e.hash
      /\ q.texts[e.block] = e.original
  BY <1>6 DEF TargetsOf
<1>8. p \in Results /\ q \in Results
  BY <1>4, <1>6 DEF TypeOK
<1>9. p = q
  BY <1>5, <1>7, <1>8, ResultsAssumption
<1> QED
  BY <1>5, <1>7, <1>8, <1>9 DEF BacksUp

(***************************************************************************)
(* The trusted OCR boundary is never crossed: from the moment a client can *)
(* know a result, _require_trusted_ocr_boundary_locked refuses every edit  *)
(* and approval of its OCR blocks that no clean conversion backs.          *)
(***************************************************************************)
THEOREM OcrBoundaryIsHeld == Spec => OcrBoundaryHeld
<1>1. TypeOK /\ RegistrationsConsistent /\ [Next]_vars => [StaysWithinBoundary]_vars
  <2> SUFFICES ASSUME TypeOK, RegistrationsConsistent, Next PROVE StaysWithinBoundary
    OBVIOUS
  <2>0. events \in Seq(ReviewEvents) /\ Len(events) \in Nat
    BY LenProperties DEF TypeOK
  <2>1. CASE UNCHANGED events
    BY <2>0, <2>1 DEF StaysWithinBoundary
  <2>2. ASSUME NEW input \in Inputs, NEW actor \in Actors \cup {None},
               RecordReviewEvent(input, actor)
        PROVE  StaysWithinBoundary
    <3>1. events' = Append(events, Event(input, actor))
      BY <2>2 DEF RecordReviewEvent
    <3>2. events'[Len(events')] = Event(input, actor)
      BY <2>0, <3>1, EventTyped, AppendProperties
    <3> QED
      BY <2>2, <3>2, BoundaryStep DEF StaysWithinBoundary
  <2>3. CASE Restart
    BY <2>0, <2>3, EmptySeq DEF Restart, StaysWithinBoundary
  <2> QED
    BY <2>1, <2>2, <2>3
       DEF Next, ConvertDirectly, StoreResult, RegisterStored, GetJobResult
<1> QED
  BY <1>1, ReviewTypeCorrect, RegistrationsAreConsistent, PTL DEF Spec, OcrBoundaryHeld

-----------------------------------------------------------------------------
(* Automatic validation.                                                   *)

LEMMA DecideAllowed ==
    ASSUME NEW failed, NEW review, Decide(failed, review).allowed
    PROVE  failed = {} /\ ~review
  BY Zenon DEF Decide

(* What a confirmed item passed.                                           *)
LEMMA ItemAllowed ==
    ASSUME NEW e, NEW a, ValidateItem(e, a).allowed
    PROVE  /\ ~RequiresReview(e) /\ ~RequiresReview(a) /\ ~IsHighRisk(e) /\ ~IsHighRisk(a)
           /\ ~CategoryRequiresReview(e) /\ ~CategoryRequiresReview(a)
           /\ ~ConfidenceRequiresReview(a.conf)
           /\ ConditionWarnings(e, a, FALSE) = {}
           /\ SameName(e.id, a.id) /\ SameName(e.label, a.label)
           /\ \A k \in ScopeKeys : SameName(e.scope[k], a.scope[k])
           /\ ValuesMatch(e.value, a.value) /\ EvidenceMatches(e, a)
           /\ ~MalformedRecords(e, a)
<1> DEFINE marked == RequiresReview(e) \/ RequiresReview(a)
           risky == IsHighRisk(e) \/ IsHighRisk(a)
           named == CategoryRequiresReview(e) \/ CategoryRequiresReview(a)
           doubted == ConfidenceRequiresReview(a.conf)
           review == \/ marked \/ risky \/ named \/ doubted
                     \/ ConditionWarnings(e, a, marked \/ risky \/ named) # {}
           unbound(k) == ~SameName(e.scope[k], a.scope[k])
           scopes == IF \/ ~SameName(e.id, a.id) \/ ~SameName(e.label, a.label)
                        \/ \E k \in ScopeKeys : /\ unbound(k)
                                                /\ e.scope[k] # Absent \/ ~(marked \/ risky \/ named)
                     THEN {"scope_binding"} ELSE {}
           risks == IF \/ a.auto = Wrong \/ (a.auto = "yes" /\ review)
                       \/ MalformedRecords(e, a) \/ e.risk = Absent \/ ~HasReviewFlag(e)
                    THEN {"risk_gate"} ELSE {}
           failed == scopes \cup (IF ValuesMatch(e.value, a.value) THEN {} ELSE {"value_non_modification"})
                     \cup (IF EvidenceMatches(e, a) THEN {} ELSE {"provenance"})
                     \cup (IF NumberExpected(e.value) /\ ~ValuesMatch(e.value, a.value)
                           THEN {"numeric"} ELSE {})
                     \cup risks
<1>1. ValidateItem(e, a) = Decide(failed, review)
  BY Zenon DEF ValidateItem
<1>2. failed = {} /\ ~review
  BY <1>1, DecideAllowed, Zenon
<1>3. ~marked /\ ~risky /\ ~named /\ ~doubted
  BY <1>2, Zenon
<1>4. (marked \/ risky \/ named) = FALSE
  BY <1>3, Zenon
<1>5. ConditionWarnings(e, a, FALSE) = {}
  BY <1>2, <1>4, Zenon
<1>6. /\ SameName(e.id, a.id) /\ SameName(e.label, a.label)
      /\ \A k \in ScopeKeys : ~unbound(k)
  BY <1>2, <1>3, Zenon
<1>7. ValuesMatch(e.value, a.value) /\ EvidenceMatches(e, a) /\ ~MalformedRecords(e, a)
  BY <1>2, Zenon
<1> QED BY <1>3, <1>5, <1>6, <1>7, Zenon

(* A record without a request to be looked at.                             *)
LEMMA NothingAsked ==
    ASSUME NEW r, ~RequiresReview(r), ~IsHighRisk(r), ~CategoryRequiresReview(r),
           ~HasMalformedCategory(r)
    PROVE  ~AsksForReview(r)
  BY Zenon DEF AsksForReview, CategoryRequiresReview, HasMalformedCategory

LEMMA NoWarnings ==
    ASSUME NEW e, NEW a, NEW important \in BOOLEAN, ConditionWarnings(e, a, important) = {}
    PROVE  ~OcrDerived(e) /\ ~OcrDerived(a)
  BY Zenon DEF ConditionWarnings

(* A source that is not OCR is named by none of the names the code reads.  *)
LEMMA NotOcrDerived ==
    ASSUME NEW r, ~OcrDerived(r)
    PROVE  r.origin \notin OcrNames /\ r.engine \notin OcrNames /\ r.extractor \notin OcrNames
  BY VocabularyAssumption DEF OcrDerived, NamedExtractor, Absent

LEMMA ConfidenceHigh ==
    ASSUME NEW conf \in Int, ~ConfidenceRequiresReview(conf)
    PROVE  conf \in 800..1000
  BY DEF ConfidenceRequiresReview

LEMMA ItemConfirmed ==
    ASSUME NEW e \in TableRecord, NEW a \in TableRecord, ValidateItem(e, a).allowed
    PROVE  ItemSound(e, a)
<1>1. e.id = a.id /\ e.label = a.label /\ \A k \in ScopeKeys : e.scope[k] = a.scope[k]
  BY ItemAllowed, Zenon DEF SameName
<1>2. e.scope = a.scope
  <2>1. e.scope \in [ScopeKeys -> STRING] /\ a.scope \in [ScopeKeys -> STRING]
    BY DEF TableRecord, RecordWith
  <2> QED BY <1>1, <2>1
<1>3. ~AsksForReview(e) /\ ~AsksForReview(a)
  BY ItemAllowed, NothingAsked, Zenon DEF MalformedRecords
<1>4. SameContent(e, a)
  BY <1>3, ItemAllowed, Zenon DEF SameContent, EvidenceMatches, ValuesMatch
<1>5. ~NamesOcr(e) /\ ~NamesOcr(a)
  BY ItemAllowed, NoWarnings, NotOcrDerived, Zenon DEF NamesOcr, SourceNames
<1>6. a.conf \in 800..1000
  <2>1. a.conf \in Int
    BY DEF TableRecord, RecordWith
  <2>2. ~ConfidenceRequiresReview(a.conf)
    BY ItemAllowed, Zenon
  <2> QED BY <2>1, <2>2, ConfidenceHigh
<1> QED BY <1>1, <1>2, <1>4, <1>5, <1>6 DEF ItemSound

(* The names a cell takes from its table.                                  *)
LEMMA InheritedSources ==
    ASSUME NEW t, NEW c \in CellRecord, NEW key \in SourceNames
    PROVE  Inherited(t, c)[key] = IF c[key] = Absent THEN t[key] ELSE c[key]
<1> DEFINE own(tables, value) == IF value = Absent THEN tables ELSE value
<1>1. Inherited(t, c) = [c EXCEPT !.origin = own(t.origin, c.origin),
                                  !.extractionEngine = own(t.extractionEngine, c.extractionEngine),
                                  !.engine = own(t.engine, c.engine),
                                  !.extractor = own(t.extractor, c.extractor),
                                  !.llm = own(t.llm, c.llm)]
  BY DEF Inherited
<1>2. /\ Inherited(t, c).origin = own(t.origin, c.origin)
      /\ Inherited(t, c).engine = own(t.engine, c.engine)
      /\ Inherited(t, c).extractor = own(t.extractor, c.extractor)
  BY <1>1 DEF CellRecord, RecordWith
<1> QED BY <1>2 DEF SourceNames

LEMMA InheritedFree ==
    ASSUME NEW t, NEW c \in CellRecord, ~OcrDerived(Inherited(t, c))
    PROVE  FreeOfOcr(t, c)
<1>1. ASSUME NEW key \in SourceNames
      PROVE  Inherited(t, c)[key] \notin OcrNames
  BY NotOcrDerived DEF SourceNames
<1>2. ASSUME NEW key \in SourceNames
      PROVE  /\ c[key] \notin OcrNames
             /\ c[key] = Absent => t[key] \notin OcrNames
  BY <1>1, InheritedSources, VocabularyAssumption
<1> QED BY <1>2, Zenon DEF FreeOfOcr, NamesOcr

(* What a cell of a confirmed table passed.                                *)
LEMMA CellAllowed ==
    ASSUME NEW te, NEW ta, NEW e, NEW a,
           ~ValidateCell(te, ta, e, a, FALSE, FALSE, FALSE).review,
           ValidateCell(te, ta, e, a, FALSE, FALSE, FALSE).failed = {}
    PROVE  /\ ~RequiresReview(e) /\ ~RequiresReview(a) /\ ~IsHighRisk(e) /\ ~IsHighRisk(a)
           /\ ~CategoryRequiresReview(e) /\ ~CategoryRequiresReview(a)
           /\ a.conf = NotANumber \/ ~ConfidenceRequiresReview(a.conf)
           /\ ConditionWarnings(Inherited(te, e), Inherited(ta, a), FALSE) = {}
           /\ EvidenceMatches(e, a) /\ ~MalformedRecords(e, a)
<1> DEFINE marked == FALSE \/ RequiresReview(e) \/ RequiresReview(a)
           risky == FALSE \/ IsHighRisk(e) \/ IsHighRisk(a)
           named == FALSE \/ CategoryRequiresReview(e) \/ CategoryRequiresReview(a)
           doubted == a.conf # NotANumber /\ ConfidenceRequiresReview(a.conf)
           review == \/ marked \/ risky \/ named \/ doubted
                     \/ ConditionWarnings(Inherited(te, e), Inherited(ta, a),
                                          marked \/ risky \/ named) # {}
           failed == (IF EvidenceMatches(e, a) THEN {} ELSE {"provenance"})
                     \cup (IF \/ a.auto = Wrong \/ (a.auto = "yes" /\ review)
                              \/ MalformedRecords(e, a) \/ ~HasReviewFlag(e)
                           THEN {"risk_gate"} ELSE {})
<1>1. ValidateCell(te, ta, e, a, FALSE, FALSE, FALSE) = [review |-> review, failed |-> failed]
  BY Zenon DEF ValidateCell
<1>2. failed = {} /\ ~review
  <2> HIDE DEF failed, review
  <2>1. /\ [review |-> review, failed |-> failed].review = review
        /\ [review |-> review, failed |-> failed].failed = failed
    OBVIOUS
  <2> QED BY <1>1, <2>1, Zenon
<1>3. ~marked /\ ~risky /\ ~named /\ ~doubted
  BY <1>2, Zenon
<1>4. (marked \/ risky \/ named) = FALSE
  BY <1>3, Zenon
<1>5. ConditionWarnings(Inherited(te, e), Inherited(ta, a), FALSE) = {}
  BY <1>2, <1>4, Zenon
<1>6. EvidenceMatches(e, a) /\ ~MalformedRecords(e, a)
  BY <1>2, Zenon
<1> QED BY <1>3, <1>5, <1>6, Zenon

(* A usable table finds each of its cells by its id.                       *)
LEMMA CellsFound ==
    ASSUME NEW cells \in Seq(CellRecord), CellsById(cells) # <<>>
    PROVE  /\ DOMAIN CellsById(cells) = {cells[i].id : i \in DOMAIN cells}
           /\ \A i, j \in DOMAIN cells : cells[i].id = cells[j].id => i = j
           /\ \A i \in DOMAIN cells : CellsById(cells)[cells[i].id] = cells[i]
<1> DEFINE usable == /\ cells # <<>>
                     /\ \A i \in DOMAIN cells : cells[i].id \notin {Absent, Wrong}
                     /\ \A i, j \in DOMAIN cells : cells[i].id = cells[j].id => i = j
           place(id) == CHOOSE i \in DOMAIN cells : cells[i].id = id
           found == [id \in {cells[i].id : i \in DOMAIN cells} |-> cells[place(id)]]
<1>1. CellsById(cells) = IF usable THEN found ELSE <<>>
  BY Zenon DEF CellsById
<1>2. usable /\ CellsById(cells) = found
  BY <1>1, Zenon
<1>3. DOMAIN CellsById(cells) = {cells[i].id : i \in DOMAIN cells}
  BY <1>2, Zenon
<1>4. ASSUME NEW i \in DOMAIN cells
      PROVE  CellsById(cells)[cells[i].id] = cells[i]
  <2>1. place(cells[i].id) \in DOMAIN cells /\ cells[place(cells[i].id)].id = cells[i].id
    OBVIOUS
  <2>2. place(cells[i].id) = i
    BY <1>2, <2>1, Zenon
  <2>3. cells[i].id \in {cells[k].id : k \in DOMAIN cells}
    OBVIOUS
  <2>4. found[cells[i].id] = cells[place(cells[i].id)]
    BY <2>3, Zenon
  <2> QED BY <1>2, <2>2, <2>4, Zenon
<1> QED BY <1>2, <1>3, <1>4, Zenon

(* Two usable tables with the same ids have the same number of cells.      *)
LEMMA SameLength ==
    ASSUME NEW s \in Seq(CellRecord), NEW t \in Seq(CellRecord),
           CellsById(s) # <<>>, CellsById(t) # <<>>,
           DOMAIN CellsById(s) = DOMAIN CellsById(t)
    PROVE  Len(s) = Len(t)
<1>1. ASSUME NEW c \in Seq(CellRecord), CellsById(c) # <<>>
      PROVE  Cardinality(DOMAIN CellsById(c)) = Len(c)
  <2> DEFINE ids == {c[i].id : i \in 1..Len(c)}
             f == [i \in 1..Len(c) |-> c[i].id]
  <2>1. DOMAIN c = 1..Len(c) /\ Len(c) \in Nat
    OBVIOUS
  <2>2. ids = DOMAIN CellsById(c)
    BY <1>1, <2>1, CellsFound, Zenon
  <2>3. \A i, j \in 1..Len(c) : c[i].id = c[j].id => i = j
    BY <1>1, <2>1, CellsFound, Zenon
  <2>4. f \in Bijection(1..Len(c), ids)
    BY <2>3 DEF Bijection, Injection, Surjection, IsInjective
  <2>5. IsFiniteSet(1..Len(c)) /\ Cardinality(1..Len(c)) = Len(c)
    <3>1. 1 \in Int /\ Len(c) \in Int
      BY <2>1
    <3>2. /\ IsFiniteSet(1..Len(c))
          /\ Cardinality(1..Len(c)) = IF 1 > Len(c) THEN 0 ELSE Len(c) - 1 + 1
      BY <3>1, FS_Interval, Zenon
    <3> QED BY <2>1, <3>2
  <2> HIDE DEF f, ids
  <2>6. Cardinality(ids) = Len(c)
    <3>1. ExistsBijection(1..Len(c), ids)
      BY <2>4, Zenon DEF ExistsBijection
    <3> QED BY <2>5, <3>1, FS_Bijection, Zenon
  <2> QED BY <2>2, <2>6
<1> QED BY <1>1

(* What a confirmed table passed.                                          *)
LEMMA TableAllowed ==
    ASSUME NEW e, NEW a, ValidateTable(e, a).allowed
    PROVE  LET es == CellsById(e.cells) as == CellsById(a.cells) IN
           /\ ~RequiresReview(e) /\ ~RequiresReview(a) /\ ~IsHighRisk(e) /\ ~IsHighRisk(a)
           /\ ~CategoryRequiresReview(e) /\ ~CategoryRequiresReview(a)
           /\ a.conf = NotANumber \/ ~ConfidenceRequiresReview(a.conf)
           /\ ~MalformedRecords(e, a) /\ SameName(e.id, a.id)
           /\ es # <<>> /\ as # <<>> /\ DOMAIN es = DOMAIN as
           /\ \A id \in DOMAIN es :
                 /\ as[id].value = es[id].value
                 /\ ~ValidateCell(e, a, es[id], as[id], FALSE, FALSE, FALSE).review
                 /\ ValidateCell(e, a, es[id], as[id], FALSE, FALSE, FALSE).failed = {}
<1> DEFINE doubted == a.conf # NotANumber /\ ConfidenceRequiresReview(a.conf)
           marked == RequiresReview(e) \/ RequiresReview(a)
           risky == IsHighRisk(e) \/ IsHighRisk(a)
           named == TableCategoryRequiresReview(e) \/ TableCategoryRequiresReview(a)
           es == CellsById(e.cells)
           as == CellsById(a.cells)
           both == DOMAIN es \cap DOMAIN as
           cell(id) == ValidateCell(e, a, es[id], as[id], marked \/ doubted, risky, named)
           review == marked \/ risky \/ named \/ doubted \/ \E id \in both : cell(id).review
           tables == IF \/ ~SameName(e.id, a.id) \/ ~e.fixture
                        \/ es = <<>> \/ as = <<>> \/ DOMAIN es # DOMAIN as
                        \/ \E id \in both : es[id].value.kind # "text" \/ as[id].value # es[id].value
                     THEN {"table_consistency"} ELSE {}
           risks == IF \/ MalformedRecords(e, a) \/ e.risk = Absent
                       \/ HasMalformedColumns(e) \/ HasMalformedColumns(a)
                       \/ a.auto = Wrong \/ (a.auto = "yes" /\ review)
                    THEN {"risk_gate"} ELSE {}
           cells == UNION {cell(id).failed : id \in both}
<1>1. ValidateTable(e, a) = Decide(tables \cup risks \cup cells, review)
  BY Zenon DEF ValidateTable
<1>2. tables \cup risks \cup cells = {} /\ ~review
  <2> HIDE DEF tables, risks, cells, review
  <2> QED BY <1>1, DecideAllowed, Zenon
<1>3. ~marked /\ ~risky /\ ~named /\ ~doubted /\ \A id \in both : ~cell(id).review
  BY <1>2, Zenon
<1>4. tables = {} /\ risks = {} /\ cells = {}
  <2> HIDE DEF tables, risks, cells
  <2> QED BY <1>2, Zenon
<1>5. /\ SameName(e.id, a.id) /\ es # <<>> /\ as # <<>> /\ DOMAIN es = DOMAIN as
      /\ \A id \in both : as[id].value = es[id].value
  <2> HIDE DEF es, as, both
  <2> QED BY <1>4, Zenon
<1>6. ~MalformedRecords(e, a)
  BY <1>4, Zenon
<1>7. (marked \/ doubted) = FALSE /\ risky = FALSE /\ named = FALSE
  BY <1>3, Zenon
<1>8. \A id \in both : cell(id).failed = {}
  <2> HIDE DEF cell, both
  <2> QED BY <1>4, Zenon
<1>9. ASSUME NEW id \in both
      PROVE  cell(id) = ValidateCell(e, a, es[id], as[id], FALSE, FALSE, FALSE)
  <2> HIDE DEF es, as
  <2> QED BY <1>7, Zenon
<1>10. both = DOMAIN es
  <2> HIDE DEF es, as
  <2> QED BY <1>5, Zenon
<1>11. ~CategoryRequiresReview(e) /\ ~CategoryRequiresReview(a)
  BY <1>3, Zenon DEF TableCategoryRequiresReview
<1>12. \A id \in DOMAIN es :
          /\ as[id].value = es[id].value
          /\ ~ValidateCell(e, a, es[id], as[id], FALSE, FALSE, FALSE).review
          /\ ValidateCell(e, a, es[id], as[id], FALSE, FALSE, FALSE).failed = {}
  <2> HIDE DEF cell, both, es, as
  <2> QED BY <1>3, <1>5, <1>8, <1>9, <1>10, Zenon
<1> QED BY <1>3, <1>5, <1>6, <1>11, <1>12, Zenon

LEMMA TableConfirmed ==
    ASSUME NEW e \in TableRecord, NEW a \in TableRecord, ValidateTable(e, a).allowed
    PROVE  TableSound(e, a)
<1> DEFINE es == CellsById(e.cells)
           as == CellsById(a.cells)
<1>1. /\ e.cells \in Seq(CellRecord) /\ a.cells \in Seq(CellRecord)
      /\ e.conf \in Int /\ a.conf \in Int
  BY DEF TableRecord, RecordWith
<1>2. es # <<>> /\ as # <<>> /\ DOMAIN es = DOMAIN as
  BY TableAllowed, Zenon
<1>3. e.id = a.id
  BY TableAllowed, Zenon DEF SameName
<1>4. ~AsksForReview(e) /\ ~AsksForReview(a)
  BY TableAllowed, NothingAsked, Zenon DEF MalformedRecords
<1>5. a.conf \in {NotANumber} \cup 800..1000
  <2>1. a.conf = NotANumber \/ ~ConfidenceRequiresReview(a.conf)
    BY TableAllowed, Zenon
  <2>2. a.conf \in Int
    BY <1>1, Zenon
  <2>3. ~ConfidenceRequiresReview(a.conf) => a.conf \in 800..1000
    BY ONLY <2>2 DEF ConfidenceRequiresReview
  <2> QED BY <2>1, <2>3
<1>6. Len(e.cells) = Len(a.cells)
  BY <1>1, <1>2, SameLength, Zenon
<1>7. ASSUME NEW i \in DOMAIN e.cells, NEW j \in DOMAIN a.cells,
             e.cells[i].id = a.cells[j].id
      PROVE  /\ SameContent(e.cells[i], a.cells[j])
             /\ FreeOfOcr(e, e.cells[i]) /\ FreeOfOcr(a, a.cells[j])
             /\ a.cells[j].conf \in {NotANumber} \cup 800..1000
  <2> DEFINE c == e.cells[i]
             d == a.cells[j]
  <2>1. c \in CellRecord /\ d \in CellRecord
    BY <1>1
  <2>2. es[c.id] = c /\ as[c.id] = d /\ c.id \in DOMAIN es
    <3>1. es[c.id] = c /\ as[d.id] = d
      BY <1>1, <1>2, CellsFound, Zenon
    <3>2. c.id \in DOMAIN es
      <4>1. DOMAIN es = {e.cells[k].id : k \in DOMAIN e.cells}
        BY <1>1, <1>2, CellsFound, Zenon
      <4> QED BY <4>1, Zenon
    <3> QED BY <1>7, <3>1, <3>2, Zenon
  <2> HIDE DEF es, as, c, d
  <2>3. /\ d.value = c.value
        /\ ~ValidateCell(e, a, c, d, FALSE, FALSE, FALSE).review
        /\ ValidateCell(e, a, c, d, FALSE, FALSE, FALSE).failed = {}
    <3>1. \A id \in DOMAIN es :
             /\ as[id].value = es[id].value
             /\ ~ValidateCell(e, a, es[id], as[id], FALSE, FALSE, FALSE).review
             /\ ValidateCell(e, a, es[id], as[id], FALSE, FALSE, FALSE).failed = {}
      BY TableAllowed, Zenon DEF es, as
    <3> QED BY <2>2, <3>1, Zenon
  <2>4. ~AsksForReview(c) /\ ~AsksForReview(d)
    BY <2>3, CellAllowed, NothingAsked, Zenon DEF MalformedRecords
  <2>5. SameContent(c, d)
    <3>1. EvidenceMatches(c, d)
      BY <2>3, CellAllowed, Zenon
    <3> QED BY <2>3, <2>4, <3>1, Zenon DEF SameContent, EvidenceMatches
  <2>6. FreeOfOcr(e, c) /\ FreeOfOcr(a, d)
    <3>1. ConditionWarnings(Inherited(e, c), Inherited(a, d), FALSE) = {}
      BY <2>3, CellAllowed, Zenon
    <3>2. ~OcrDerived(Inherited(e, c)) /\ ~OcrDerived(Inherited(a, d))
      BY <3>1, NoWarnings
    <3> QED BY <2>1, <3>2, InheritedFree, Zenon
  <2>7. d.conf \in {NotANumber} \cup 800..1000
    <3>1. d.conf \in Int
      BY <2>1 DEF CellRecord, RecordWith
    <3>2. d.conf = NotANumber \/ ~ConfidenceRequiresReview(d.conf)
      BY <2>3, CellAllowed, Zenon
    <3>3. ~ConfidenceRequiresReview(d.conf) => d.conf \in 800..1000
      BY <3>1, ConfidenceHigh
    <3> QED BY <3>2, <3>3
  <2> QED BY <2>5, <2>6, <2>7 DEF c, d
<1> HIDE DEF es, as
<1>8. \A i \in DOMAIN e.cells, j \in DOMAIN a.cells :
         e.cells[i].id = a.cells[j].id =>
             /\ SameContent(e.cells[i], a.cells[j])
             /\ FreeOfOcr(e, e.cells[i]) /\ FreeOfOcr(a, a.cells[j])
             /\ a.cells[j].conf \in {NotANumber} \cup 800..1000
  BY <1>7, Zenon
<1> QED BY ONLY <1>3, <1>4, <1>5, <1>6, <1>8 DEF TableSound

(***************************************************************************)
(* Whatever two records are compared, an item or a table is confirmed      *)
(* without a person only if nothing in either record, nor in a cell of the *)
(* table or what it takes from the table, asks for one                     *)
(* (validate_extracted_item, validate_table_consistency).                  *)
(***************************************************************************)
Decided ==
    /\ request.kind \in {"item", "table"}
    /\ request.expected \in TableRecord /\ request.actual \in TableRecord
    /\ \/ decision = NoDecision
       \/ /\ request.kind = "item"
          /\ decision = ValidateItem(request.expected, request.actual)
       \/ /\ request.kind = "table"
          /\ decision = ValidateTable(request.expected, request.actual)

THEOREM ConfirmationIsSound == ValidationSpec => []AutoConfirmSound
<1>1. ValidationInit => Decided
  BY RecordsAssumption, Zenon DEF ValidationInit, Decided
<1>2. Decided /\ [Validate]_validationVars => Decided'
  <2> SUFFICES ASSUME Decided, [Validate]_validationVars PROVE Decided'
    OBVIOUS
  <2>1. CASE UNCHANGED validationVars
    BY <2>1, Zenon DEF Decided, validationVars
  <2>2. CASE Validate /\ request.kind = "item"
    BY <2>2, Zenon DEF Decided, Validate
  <2>3. CASE Validate /\ request.kind = "table"
    <3>1. "table" # "item"
      OBVIOUS
    <3> QED BY <2>3, <3>1, Zenon DEF Decided, Validate
  <2> QED BY <2>1, <2>2, <2>3, Zenon DEF Decided
<1>3. Decided => AutoConfirmSound
  <2> SUFFICES ASSUME Decided, decision.allowed PROVE
                 /\ request.kind = "item" => ItemSound(request.expected, request.actual)
                 /\ request.kind = "table" => TableSound(request.expected, request.actual)
    BY Zenon DEF AutoConfirmSound
  <2>1. decision # NoDecision
    BY DEF NoDecision
  <2>2. ("table" # "item")
    OBVIOUS
  <2> QED BY <2>1, <2>2, ItemConfirmed, TableConfirmed, Zenon DEF Decided
<1> QED BY <1>1, <1>2, <1>3, PTL DEF ValidationSpec

-----------------------------------------------------------------------------
(* The study evidence gate.                                                *)

LEMMA ErrorIfEmpty ==
    ASSUME NEW name, NEW condition, ErrorIf(name, condition) = {}
    PROVE  ~condition
  BY Zenon DEF ErrorIf

LEMMA UnionEmpty ==
    ASSUME NEW S, UNION S = {}, NEW T \in S
    PROVE  T = {}
  OBVIOUS

(* A record without errors has none in any of its parts.                   *)
LEMMA RecordParts ==
    ASSUME NEW s, ValidateRecord(s) = {}
    PROVE  /\ ApprovalOrderErrors(s) = {} /\ StudySealErrors(s) = {}
           /\ \A r \in Range(s.runs) : RunErrors(s, r) = {}
           /\ \A p \in Range(s.participants) :
                /\ ParticipantErrors(s, p) = {} /\ PracticeErrors(s, p) = {}
                /\ ConsentErrors(s, p) = {} /\ WithdrawalErrors(s, p) = {}
                /\ OverlapErrors(s, p) = {} /\ CoverageErrors(s, p) = {}
                /\ ArmOrderErrors(s, p) = {}
<1> DEFINE whole == {StudyPinnedErrors(s), StudyErrors(s), ApprovalErrors(s), CohortErrors(s),
                     ApprovalOrderErrors(s), AttemptOrderErrors(s), DuplicateErrors(s),
                     StudySealErrors(s),
                     ErrorIf("unaccounted",
                             Len(s.runs) < 2 * Cardinality(Completed(s)) * Len(s.cases))}
           ofRun(r) == RunErrors(s, r)
           listed(p) == {ParticipantErrors(s, p), PracticeErrors(s, p), ConsentErrors(s, p),
                         WithdrawalErrors(s, p), OverlapErrors(s, p), CoverageErrors(s, p),
                         ArmOrderErrors(s, p)}
           all == whole \cup {ofRun(r) : r \in Range(s.runs)}
                        \cup {UNION listed(p) : p \in Range(s.participants)}
<1>1. ValidateRecord(s) = UNION all
  BY Zenon DEF ValidateRecord
<1>2. \A T \in all : T = {}
  <2> HIDE DEF all
  <2> QED BY <1>1, UnionEmpty, Zenon
<1>3. ApprovalOrderErrors(s) \in whole /\ StudySealErrors(s) \in whole
  BY Zenon
<1>4. ApprovalOrderErrors(s) = {} /\ StudySealErrors(s) = {}
  <2> HIDE DEF whole
  <2> QED BY <1>2, <1>3, Zenon
<1>5. \A r \in Range(s.runs) : ofRun(r) = {}
  <2> HIDE DEF whole, ofRun, listed
  <2> QED BY <1>2, Zenon
<1>6. \A p \in Range(s.participants) : UNION listed(p) = {}
  <2> HIDE DEF whole, ofRun, listed
  <2> QED BY <1>2, Zenon
<1>7. ASSUME NEW p \in Range(s.participants), NEW T \in listed(p)
      PROVE  T = {}
  <2> HIDE DEF listed
  <2> QED BY <1>6, <1>7, UnionEmpty, Zenon
<1>8. ASSUME NEW p \in Range(s.participants)
      PROVE  /\ ParticipantErrors(s, p) = {} /\ PracticeErrors(s, p) = {}
             /\ ConsentErrors(s, p) = {} /\ WithdrawalErrors(s, p) = {}
             /\ OverlapErrors(s, p) = {} /\ CoverageErrors(s, p) = {}
             /\ ArmOrderErrors(s, p) = {}
  BY <1>7, Zenon
<1> QED BY <1>4, <1>5, <1>8, Zenon

LEMMA RunParts ==
    ASSUME NEW s, NEW r, RunErrors(s, r) = {}
    PROVE  /\ RunIdentityErrors(s, r) = {} /\ ArmErrors(r) = {} /\ TimingErrors(r) = {}
           /\ OutcomeErrors(r) = {} /\ SealErrors(r) = {}
<1> DEFINE listed == {RunIdentityErrors(s, r), PinnedErrors(r), ArmErrors(r), AttemptErrors(r),
                      AssessorErrors(r), ExclusionErrors(r), TimingErrors(r),
                      AttestationErrors(r), OutcomeErrors(r), SealErrors(r), ConductErrors(r)}
<1>1. UNION listed = {}
  BY Zenon DEF RunErrors
<1>2. \A T \in listed : T = {}
  <2> HIDE DEF listed
  <2> QED BY <1>1, UnionEmpty, Zenon
<1> QED BY <1>2, Zenon

(* The gate compares each run with what was retained under its seal.       *)
LEMMA RunUnchanged ==
    ASSUME NEW s, NEW r, RunErrors(s, r) = {}
    PROVE  /\ retained.sealed[r.sealId] = <<RunClaims(r)>>
           /\ r.kind = "output_artifact" => retained.files[r.sealId] = r.output
<1>1. r.sealId # NoId
  <2>1. ErrorIf("seal_id", r.sealId = NoId) = {}
    BY RunParts, Zenon DEF RunIdentityErrors
  <2> QED BY <2>1, ErrorIfEmpty, Zenon
<1>2. r.envelope = <<RunClaims(r)>>
  <2>1. ErrorIf("envelope", r.envelope # <<RunClaims(r)>> \/ r.seal # r.envelope) = {}
    BY RunParts, Zenon DEF SealErrors
  <2> QED BY <2>1, ErrorIfEmpty, Zenon
<1>3. retained.sealed[r.sealId] = r.envelope
  <2> DEFINE wrong == /\ r.sealId # NoId
                      /\ \/ ~Held(retained.sealed, r.sealId, r.envelope)
                         \/ r.seal # r.envelope
  <2>1. ErrorIf("sealed", wrong) = {}
    BY RunParts, Zenon DEF SealErrors
  <2>2. ~wrong
    <3> HIDE DEF wrong
    <3> QED BY <2>1, ErrorIfEmpty, Zenon
  <2> QED BY <1>1, <2>2, Zenon DEF Held
<1>4. r.kind = "output_artifact" => retained.files[r.sealId] = r.output
  <2> DEFINE wrong == IF r.kind = "output_artifact"
                      THEN r.output = Nil \/ ~OutputHeld(r)
                      ELSE r.path # NoId \/ r.output # Nil
  <2>1. ErrorIf("artifact", wrong) = {}
    BY RunParts, Zenon DEF OutcomeErrors
  <2>2. ~wrong
    <3> HIDE DEF wrong
    <3> QED BY <2>1, ErrorIfEmpty, Zenon
  <2> QED BY <2>2, Zenon DEF OutputHeld, Held
<1> QED BY <1>2, <1>3, <1>4, Zenon

(***************************************************************************)
(* Whatever is changed after the sealing, in whatever study, a record is   *)
(* accepted only if its runs, participants and approvals agree with what   *)
(* was retained elsewhere: validate_record recomputes the digests of every *)
(* envelope and looks each one up in the independent store.                *)
(***************************************************************************)
THEOREM AcceptedEditsAreNone == StudySpec => []EditsDetected
<1>1. StudyInit => EditsDetected
  BY DEF StudyInit, EditsDetected, Accepted
<1>2. EditsDetected /\ [StudyNext]_studyVars => EditsDetected'
  <2> SUFFICES ASSUME EditsDetected, [StudyNext]_studyVars PROVE EditsDetected'
    OBVIOUS
  <2>1. CASE UNCHANGED studyVars
    BY <2>1, Zenon DEF EditsDetected, Accepted, studyVars
  <2>2. CASE Seal \/ \E e \in Edits : Edit(e[1], e[2], e[3], e[4])
    <3>1. phase' # "validated"
      <4>1. phase' = "sealed" \/ phase' = "edited"
        BY <2>2, Zenon DEF Seal, Edit
      <4> QED BY <4>1
    <3> QED BY <3>1, Zenon DEF EditsDetected, Accepted
  <2>3. CASE ValidateStudy
    <3>1. UNCHANGED <<study, retained>> /\ verdict'.errors = ValidateRecord(study)
      BY <2>3, Zenon DEF ValidateStudy
    <3> SUFFICES ASSUME ValidateRecord(study) = {}
                 PROVE  /\ \A r \in Range(study.runs) :
                             /\ retained.sealed[r.sealId] = <<RunClaims(r)>>
                             /\ r.kind = "output_artifact" => retained.files[r.sealId] = r.output
                        /\ retained.study = <<StudyClaims(study)>>
      BY <3>1, Zenon DEF EditsDetected, Accepted, RunClaims, StudyClaims
    <3>2. ASSUME NEW r \in Range(study.runs)
          PROVE  /\ retained.sealed[r.sealId] = <<RunClaims(r)>>
                 /\ r.kind = "output_artifact" => retained.files[r.sealId] = r.output
      BY RecordParts, RunUnchanged, Zenon
    <3>3. retained.study = <<StudyClaims(study)>>
      <4>1. /\ ErrorIf("study_envelope", \/ study.envelope # <<StudyClaims(study)>>
                                         \/ study.seal # study.envelope) = {}
            /\ ErrorIf("study_sealed", \/ retained.study # study.envelope
                                       \/ retained.study # study.seal) = {}
        BY RecordParts, Zenon DEF StudySealErrors
      <4> QED BY <4>1, ErrorIfEmpty, Zenon
    <3> QED BY <3>2, <3>3, Zenon
  <2> QED BY <2>1, <2>2, <2>3, Zenon DEF StudyNext
<1> QED BY <1>1, <1>2, PTL DEF StudySpec

(* The record stays well typed whatever is sealed and edited.              *)
LEMMA SealedRunTyped ==
    ASSUME NEW r, RunTyped(r)
    PROVE  RunTyped(SealedRun(r))
<1> DEFINE attested == [r EXCEPT !.attestHash = <<Attestation(r)>>]
           claims == <<RunClaims(attested)>>
<1>1. SealedRun(r) = [attested EXCEPT !.envelope = claims, !.seal = claims]
  BY DEF SealedRun
<1>2. RunTyped(attested)
  BY DEF RunTyped
<1> HIDE DEF attested, claims
<1> QED BY <1>1, <1>2 DEF RunTyped

LEMMA SealedStudyTyped ==
    ASSUME NEW s, StudyTyped(s)
    PROVE  StudyTyped(SealedStudy(s))
<1> DEFINE claims == <<StudyClaims(s)>>
           t == SealedStudy(s)
<1>1. t = [s EXCEPT !.envelope = claims, !.seal = claims]
  BY DEF SealedStudy
<1> HIDE DEF claims, t
<1>2. /\ DOMAIN t = DOMAIN s /\ t.approved = s.approved /\ t.quality = s.quality
      /\ t.participants = s.participants /\ t.runs = s.runs
  BY <1>1 DEF StudyTyped
<1> QED BY <1>2, Zenon DEF StudyTyped, t

LEMMA FunctionIsSequence ==
    ASSUME NEW S, NEW n \in Nat, NEW s \in [1..n -> S]
    PROVE  s \in Seq(S)
  OBVIOUS

LEMMA RangeOfSequence ==
    ASSUME NEW S, NEW s \in Seq(S)
    PROVE  s \in Seq(Range(s)) /\ Range(s) \subseteq S
<1>1. Len(s) \in Nat /\ DOMAIN s = 1..Len(s) /\ \A i \in 1..Len(s) : s[i] \in S
  OBVIOUS
<1>2. \A i \in 1..Len(s) : s[i] \in Range(s)
  BY <1>1 DEF Range
<1>3. s \in Seq(Range(s))
  BY <1>1, <1>2
<1> QED BY <1>1, <1>3 DEF Range

LEMMA RunsReplaced ==
    ASSUME NEW s, StudyTyped(s), NEW S, NEW runs \in Seq(S), \A r \in S : RunTyped(r)
    PROVE  StudyTyped([s EXCEPT !.runs = runs])
<1> DEFINE t == [s EXCEPT !.runs = runs]
<1>1. /\ DOMAIN t = DOMAIN s /\ t.approved = s.approved /\ t.quality = s.quality
      /\ t.participants = s.participants /\ t.runs = runs
  BY DEF StudyTyped
<1>2. runs \in Seq(Range(runs)) /\ \A r \in Range(runs) : RunTyped(r)
  BY RangeOfSequence
<1> HIDE DEF t
<1> QED BY <1>1, <1>2, Zenon DEF StudyTyped, t

LEMMA ParticipantsReplaced ==
    ASSUME NEW s, StudyTyped(s), NEW S, NEW list \in Seq(S), \A p \in S : ParticipantTyped(p)
    PROVE  StudyTyped([s EXCEPT !.participants = list])
<1> DEFINE t == [s EXCEPT !.participants = list]
<1>1. /\ DOMAIN t = DOMAIN s /\ t.approved = s.approved /\ t.quality = s.quality
      /\ t.participants = list /\ t.runs = s.runs
  BY DEF StudyTyped
<1>2. list \in Seq(Range(list)) /\ \A p \in Range(list) : ParticipantTyped(p)
  BY RangeOfSequence
<1> HIDE DEF t
<1> QED BY <1>1, <1>2, Zenon DEF StudyTyped, t

LEMMA RangeIndexed ==
    ASSUME NEW s, s \in Seq(Range(s))
    PROVE  /\ Len(s) \in Nat /\ DOMAIN s = 1..Len(s)
           /\ \A i \in 1..Len(s) : s[i] \in Range(s)
           /\ \A x \in Range(s) : \E i \in 1..Len(s) : x = s[i]
<1>1. Len(s) \in Nat /\ DOMAIN s = 1..Len(s)
  OBVIOUS
<1> QED BY <1>1 DEF Range

LEMMA SealTyped ==
    ASSUME StudyTyped(study), Seal
    PROVE  StudyTyped(study')
<1> DEFINE runs == [i \in DOMAIN study.runs |-> SealedRun(study.runs[i])]
           S == {SealedRun(r) : r \in Range(study.runs)}
<1>1. study' = SealedStudy([study EXCEPT !.runs = runs])
  BY Zenon DEF Seal
<1>2. runs \in Seq(S)
  <2>1. study.runs \in Seq(Range(study.runs))
    BY DEF StudyTyped
  <2>2. /\ Len(study.runs) \in Nat /\ DOMAIN study.runs = 1..Len(study.runs)
        /\ \A i \in 1..Len(study.runs) : study.runs[i] \in Range(study.runs)
    BY <2>1, RangeIndexed, Zenon
  <2>3. \A i \in 1..Len(study.runs) : SealedRun(study.runs[i]) \in S
    BY <2>2, Zenon
  <2> HIDE DEF S
  <2> QED BY <2>2, <2>3
<1>3. \A r \in S : RunTyped(r)
  BY SealedRunTyped, Zenon DEF StudyTyped
<1> HIDE DEF runs, S
<1>4. StudyTyped([study EXCEPT !.runs = runs])
  BY <1>2, <1>3, RunsReplaced
<1> QED BY <1>1, <1>4, SealedStudyTyped, Zenon

LEMMA EditTyped ==
    ASSUME StudyTyped(study), NEW e \in Edits, Edit(e[1], e[2], e[3], e[4])
    PROVE  StudyTyped(study')
<1> DEFINE of == e[2]
           field == e[3]
           value == e[4]
           rs == study.runs
           ps == study.participants
<1>1. of \in DOMAIN rs
  BY Zenon DEF Edit
<1>2. /\ rs \in Seq(Range(rs)) /\ \A r \in Range(rs) : RunTyped(r)
      /\ ps \in Seq(Range(ps)) /\ \A p \in Range(ps) : ParticipantTyped(p)
  BY DEF StudyTyped
<1>3. /\ Len(rs) \in Nat /\ DOMAIN rs = 1..Len(rs)
      /\ \A i \in 1..Len(rs) : rs[i] \in Range(rs)
  BY <1>2, RangeIndexed, Zenon
<1>4. /\ Len(ps) \in Nat /\ DOMAIN ps = 1..Len(ps)
      /\ \A i \in 1..Len(ps) : ps[i] \in Range(ps)
  BY <1>2, RangeIndexed, Zenon
<1>5. CASE e[1] = "run"
  <2> DEFINE q == [rs[of] EXCEPT ![field] = value]
             runs == [rs EXCEPT ![of] = SealedRun(q)]
             S == Range(rs) \cup {SealedRun(q)}
  <2>1. study' = SealedStudy([study EXCEPT !.runs = runs])
    BY <1>5, Zenon DEF Edit
  <2>2. RunTyped(rs[of])
    BY <1>1, <1>2, <1>3
  <2>3. field \in {"start", "end", "pause"} => value \in Int
    BY <1>5, EditsAssumption, Zenon
  <2>4. RunTyped(q)
    <3> HIDE DEF rs, of, field, value
    <3> QED BY <2>2, <2>3 DEF RunTyped
  <2>5. RunTyped(SealedRun(q))
    <3> HIDE DEF q
    <3> QED BY <2>4, SealedRunTyped
  <2>6. runs \in Seq(S)
    <3>1. /\ runs = [i \in 1..Len(rs) |-> runs[i]]
          /\ \A i \in 1..Len(rs) : runs[i] \in S
      <4> HIDE DEF q, rs, of
      <4> QED BY <1>1, <1>3
    <3>2. runs \in [1..Len(rs) -> S]
      BY <3>1, Zenon
    <3> QED BY <1>3, <3>2, FunctionIsSequence, Zenon
  <2>7. \A r \in S : RunTyped(r)
    <3> HIDE DEF q, rs
    <3> QED BY <1>2, <2>5
  <2> HIDE DEF runs, S, q
  <2>8. StudyTyped([study EXCEPT !.runs = runs])
    BY <2>6, <2>7, RunsReplaced
  <2> QED BY <2>1, <2>8, SealedStudyTyped, Zenon
<1>6. CASE e[1] = "drop"
  <2>1. study' = SealedStudy([study EXCEPT !.runs = RemoveAt(rs, of)])
    <3>1. "drop" # "run"
      OBVIOUS
    <3> QED BY <1>6, <3>1, Zenon DEF Edit
  <2>2. RemoveAt(rs, of) \in Seq(Range(rs))
    <3> HIDE DEF rs, of
    <3> QED BY <1>1, <1>2, <1>3 DEF RemoveAt
  <2>3. StudyTyped([study EXCEPT !.runs = RemoveAt(rs, of)])
    BY <1>2, <2>2, RunsReplaced
  <2> QED BY <2>1, <2>3, SealedStudyTyped, Zenon
<1>7. CASE e[1] = "participant"
  <2> DEFINE q == [ps[1] EXCEPT ![field] = value]
             list == [ps EXCEPT ![1] = q]
             S == Range(ps) \cup {list[i] : i \in DOMAIN list}
  <2>1. study' = SealedStudy([study EXCEPT !.participants = list])
    <3>1. "participant" # "run" /\ "participant" # "drop"
      OBVIOUS
    <3> QED BY <1>7, <3>1, Zenon DEF Edit
  <2>2. list \in Seq(S)
    <3>1. list = [i \in 1..Len(ps) |-> list[i]]
      <4> HIDE DEF q, ps
      <4> QED BY <1>4
    <3>2. DOMAIN list = 1..Len(ps)
      BY <1>4
    <3>3. \A i \in 1..Len(ps) : list[i] \in S
      <4> HIDE DEF list
      <4> QED BY <3>2
    <3>4. list \in [1..Len(ps) -> S]
      <4> HIDE DEF list, S
      <4> QED BY <3>1, <3>3, Zenon
    <3> QED BY <1>4, <3>4, FunctionIsSequence, Zenon
  <2>3. 1 \in DOMAIN ps => ParticipantTyped(q)
    <3> SUFFICES ASSUME 1 \in DOMAIN ps PROVE ParticipantTyped(q)
      OBVIOUS
    <3>1. ParticipantTyped(ps[1])
      BY <1>2, <1>4
    <3>2. /\ field \in {"consented", "withdrawn"} => value \in Int
          /\ field = "practice" => \A a \in ARMS : value[a].at \in Int
      BY <1>7, EditsAssumption, Zenon
    <3> HIDE DEF ps, field, value
    <3> QED BY <3>1, <3>2 DEF ParticipantTyped
  <2>4. \A p \in S : ParticipantTyped(p)
    <3> SUFFICES ASSUME NEW i \in DOMAIN list PROVE ParticipantTyped(list[i])
      BY <1>2
    <3>1. i \in DOMAIN ps /\ list[i] = IF i = 1 THEN q ELSE ps[i]
      BY <1>4
    <3> HIDE DEF q, list
    <3> QED BY <1>2, <1>4, <2>3, <3>1
  <2> HIDE DEF list, S
  <2>5. StudyTyped([study EXCEPT !.participants = list])
    BY <2>2, <2>4, ParticipantsReplaced
  <2> QED BY <2>1, <2>5, SealedStudyTyped, Zenon
<1>8. CASE e[1] \notin {"run", "drop", "participant"}
  <2> DEFINE t == [study EXCEPT ![field] = value]
  <2>1. study' = SealedStudy(t)
    <3>1. e[1] # "run" /\ e[1] # "drop" /\ e[1] # "participant"
      BY <1>8
    <3> QED BY <3>1, Zenon DEF Edit
  <2>2. /\ field \in {"approved", "quality"} => value \in Int
        /\ field \notin {"participants", "runs"}
    BY <1>8, EditsAssumption, Zenon
  <2>3. StudyTyped(t)
    <3> HIDE DEF field, value
    <3>1. /\ DOMAIN t = DOMAIN study /\ t.participants = ps /\ t.runs = rs
          /\ t.approved \in Int /\ t.quality \in Int
      BY <2>2 DEF StudyTyped
    <3> HIDE DEF t
    <3> QED BY <3>1, Zenon DEF StudyTyped
  <2> HIDE DEF t
  <2> QED BY <2>1, <2>3, SealedStudyTyped, Zenon
<1> QED BY <1>5, <1>6, <1>7, <1>8

(* What the gate finds out about the times of a run.                       *)
LEMMA TimesAccepted ==
    ASSUME NEW s, NEW r, RunErrors(s, r) = {}, RunTyped(r)
    PROVE  /\ r.arm \in ARMS /\ TimesKnown(r)
           /\ ~InvalidTiming(r) => /\ Usable(r) /\ r.start < r.end
                                   /\ CorrectionTime(r) > 0
<1>1. r.arm \in ARMS
  <2> DEFINE wrong == r.arm \notin ARMS \/ {"arm_contract", "build"} \cap r.unpinned # {}
  <2>1. ErrorIf("arm", wrong) = {}
    BY RunParts, Zenon DEF ArmErrors
  <2>2. ~wrong
    <3> HIDE DEF wrong
    <3> QED BY <2>1, ErrorIfEmpty, Zenon
  <2> QED BY <2>2, Zenon
<1> DEFINE untimed == ~TimesKnown(r) \/ r.pause < 0
           empty == /\ TimesKnown(r) /\ ~InvalidTiming(r)
                    /\ r.end <= r.start \/ r.pause >= r.end - r.start
<1>2. ErrorIf("times", untimed) = {} /\ ErrorIf("interval", empty) = {}
  BY RunParts, Zenon DEF TimingErrors
<1>3. ~untimed /\ ~empty
  <2> HIDE DEF untimed, empty
  <2> QED BY <1>2, ErrorIfEmpty, Zenon
<1>4. TimesKnown(r)
  BY <1>3, Zenon
<1>5. ASSUME ~InvalidTiming(r)
      PROVE  Usable(r) /\ r.start < r.end /\ CorrectionTime(r) > 0
  <2>1. ~(r.end <= r.start) /\ ~(r.pause >= r.end - r.start)
    BY <1>3, <1>4, <1>5, Zenon
  <2>2. r.start \in Int /\ r.end \in Int /\ r.pause \in Int
    BY DEF RunTyped
  <2> QED BY <1>4, <1>5, <2>1, <2>2 DEF Usable, CorrectionTime
<1> QED BY <1>1, <1>4, <1>5

(* A participant goes through the protocol in order.                       *)
LEMMA ProtocolKept ==
    ASSUME NEW s, StudyTyped(s), ValidateRecord(s) = {},
           NEW p \in Range(s.participants), NEW r \in RunsOf(s, p)
    PROVE  /\ s.approved < p.consented /\ s.quality < r.start
           /\ \A a \in ARMS : p.consented < p.practice[a].at /\ p.practice[a].at < r.start
           /\ \A q \in RunsOf(s, p) :
                 (r.arm = p.order[1] /\ q.arm = p.order[2]) =>
                     r.start <= q.start /\ (Usable(r) => r.end <= q.start)
           /\ p.status = "withdrawn" => /\ r.start < p.withdrawn
                                        /\ Usable(r) => r.end <= p.withdrawn
<1>1. ASSUME NEW q \in RunsOf(s, p)
      PROVE  q \in ActiveRuns(s, p) /\ q.start \in Int /\ q.end \in Int
  <2>1. q \in Range(s.runs)
    BY Zenon DEF RunsOf
  <2>2. RunErrors(s, q) = {} /\ RunTyped(q)
    BY <2>1, RecordParts, Zenon DEF StudyTyped
  <2>3. TimesKnown(q)
    BY <2>2, TimesAccepted, Zenon
  <2> QED BY <2>2, <2>3, Zenon DEF ActiveRuns, RunTyped
<1>2. /\ s.approved \in Int /\ s.quality \in Int /\ p.consented \in Int /\ p.withdrawn \in Int
      /\ \A a \in ARMS : p.practice[a].at \in Int
  BY Zenon DEF StudyTyped, ParticipantTyped
<1>3. p.consented # NoTime
  <2> DEFINE wrong == ~p.attested \/ p.consented = NoTime
  <2>1. ErrorIf("consent", wrong) = {}
    BY RecordParts, Zenon DEF ParticipantErrors
  <2>2. ~wrong
    <3> HIDE DEF wrong
    <3> QED BY <2>1, ErrorIfEmpty, Zenon
  <2> QED BY <2>2, Zenon
<1>4. p.status = "withdrawn" => p.withdrawn # NoTime
  <2> DEFINE wrong == IF p.status = "completed" THEN p.withdrawn # NoTime
                      ELSE p.status = "withdrawn" /\ p.withdrawn = NoTime
  <2>1. ErrorIf("withdrawn_at", wrong) = {}
    BY RecordParts, ZenonT(60) DEF ParticipantErrors
  <2>2. ~wrong
    <3> HIDE DEF wrong
    <3> QED BY <2>1, ErrorIfEmpty, Zenon
  <2> QED BY <2>2
<1>5. \A a \in ARMS : p.practice[a].done => p.practice[a].at # NoTime
  <2> DEFINE wrong == \E a \in ARMS :
                        \/ ~p.practice[a].pinned
                        \/ p.status = "completed" /\ ~p.practice[a].done
                        \/ p.practice[a].done /\ p.practice[a].at = NoTime
                        \/ ~p.practice[a].done /\ p.practice[a].at # NoTime
  <2>1. ErrorIf("practice", wrong) = {}
    BY RecordParts, Zenon DEF ParticipantErrors
  <2>2. ~wrong
    <3> HIDE DEF wrong
    <3> QED BY <2>1, ErrorIfEmpty, Zenon
  <2> QED BY <2>2, Zenon
<1>6. /\ p.order \in Orders
      /\ \A a \in ARMS : p.practice[a].done /\ ~(p.practice[a].at >= r.start)
  <2> DEFINE wrong == \E q \in ActiveRuns(s, p) :
                        \/ p.order \notin Orders
                        \/ \E a \in ARMS : ~p.practice[a].done \/ p.practice[a].at >= q.start
  <2>1. ErrorIf("practice_order", wrong) = {}
    BY RecordParts, Zenon DEF PracticeErrors
  <2>2. ~wrong
    <3> HIDE DEF wrong
    <3> QED BY <2>1, ErrorIfEmpty, Zenon
  <2> QED BY <1>1, <2>2, Zenon
<1>7. /\ ~(p.consented <= s.approved)
      /\ \A a \in ARMS : ~(p.consented >= p.practice[a].at)
  <2> DEFINE wrong == /\ p.consented # NoTime
                      /\ \/ p.consented <= s.approved
                         \/ \E a \in ARMS : /\ p.practice[a].done /\ p.practice[a].at # NoTime
                                            /\ p.consented >= p.practice[a].at
                         \/ \E q \in ActiveRuns(s, p) : p.consented >= q.start
  <2>1. ErrorIf("consent_order", wrong) = {}
    BY RecordParts, Zenon DEF ConsentErrors
  <2>2. ~wrong
    <3> HIDE DEF wrong
    <3> QED BY <2>1, ErrorIfEmpty, Zenon
  <2> QED BY <1>3, <1>5, <1>6, <2>2, Zenon
<1>8. ~(s.quality >= r.start)
  <2> DEFINE starts == UNION {{q.start : q \in ActiveRuns(s, s.participants[i])} :
                                i \in DOMAIN s.participants}
             wrong == \E t \in starts : s.approved >= t \/ s.quality >= t
  <2>1. ErrorIf("approved_late", wrong) = {}
    BY RecordParts, Zenon DEF ApprovalOrderErrors
  <2>2. ~wrong
    <3> HIDE DEF wrong
    <3> QED BY <2>1, ErrorIfEmpty, Zenon
  <2>3. PICK i \in DOMAIN s.participants : p = s.participants[i]
    BY DEF Range
  <2>4. r.start \in starts
    <3>1. r.start \in {q.start : q \in ActiveRuns(s, p)}
      BY <1>1, Zenon
    <3>2. {q.start : q \in ActiveRuns(s, p)}
            \in {{q.start : q \in ActiveRuns(s, s.participants[j])} : j \in DOMAIN s.participants}
      BY <2>3, Zenon
    <3> QED BY <3>1, <3>2
  <2> HIDE DEF starts
  <2> QED BY <2>2, <2>4, Zenon
<1>9. ASSUME NEW q \in RunsOf(s, p), r.arm = p.order[1], q.arm = p.order[2]
      PROVE  ~(r.start > q.start) /\ (Usable(r) => ~(r.end > q.start))
  <2> DEFINE runs(a) == {x \in ActiveRuns(s, p) : x.arm = a}
             boundaries == {x.start : x \in runs(p.order[1])}
                           \cup {x.end : x \in {x \in runs(p.order[1]) : Usable(x)}}
             wrong == /\ p.order \in Orders
                      /\ \E x \in runs(p.order[2]) :
                            boundaries = {} \/ \E t \in boundaries : t > x.start
  <2>1. ErrorIf("arm_order_followed", wrong) = {}
    BY RecordParts, Zenon DEF ArmOrderErrors
  <2>2. ~wrong
    <3> HIDE DEF wrong
    <3> QED BY <2>1, ErrorIfEmpty, Zenon
  <2>3. q \in runs(p.order[2]) /\ r \in runs(p.order[1])
    BY <1>1, <1>9, Zenon
  <2> HIDE DEF runs
  <2>4. r.start \in boundaries /\ (Usable(r) => r.end \in boundaries)
    BY <2>3, Zenon
  <2> HIDE DEF boundaries
  <2> QED BY <1>6, <2>2, <2>3, <2>4, Zenon
<1>10. p.status = "withdrawn" => /\ ~(r.start >= p.withdrawn)
                                 /\ Usable(r) => ~(r.end > p.withdrawn)
  <2> DEFINE wrong == /\ p.status = "withdrawn" /\ p.withdrawn # NoTime
                      /\ \/ p.consented # NoTime /\ p.consented >= p.withdrawn
                         \/ \E a \in ARMS : p.practice[a].done /\ p.practice[a].at > p.withdrawn
                         \/ \E q \in ActiveRuns(s, p) :
                              \/ q.start >= p.withdrawn
                              \/ Usable(q) /\ q.end > p.withdrawn
                              \/ q.excluded /\ q.reason = "participant_withdrew"
                                            /\ q.end # p.withdrawn
  <2>1. ErrorIf("withdrawal_order", wrong) = {}
    BY RecordParts, Zenon DEF WithdrawalErrors
  <2>2. ~wrong
    <3> HIDE DEF wrong
    <3> QED BY <2>1, ErrorIfEmpty, Zenon
  <2> QED BY <1>1, <1>4, <2>2, Zenon
<1>11. s.approved < p.consented /\ s.quality < r.start
  BY <1>1, <1>2, <1>7, <1>8
<1>12. \A a \in ARMS : p.consented < p.practice[a].at /\ p.practice[a].at < r.start
  BY <1>1, <1>2, <1>6, <1>7
<1>13. ASSUME NEW q \in RunsOf(s, p), r.arm = p.order[1], q.arm = p.order[2]
       PROVE  r.start <= q.start /\ (Usable(r) => r.end <= q.start)
  BY <1>1, <1>9, <1>13
<1>14. p.status = "withdrawn" => r.start < p.withdrawn /\ (Usable(r) => r.end <= p.withdrawn)
  BY <1>1, <1>2, <1>10
<1> QED BY <1>11, <1>12, <1>13, <1>14, Zenon

LEMMA AtMostOne ==
    ASSUME NEW S, IsFiniteSet(S), ~(Cardinality(S) > 1), NEW x \in S, NEW y \in S
    PROVE  x = y
<1> SUFFICES ASSUME x # y PROVE FALSE
  OBVIOUS
<1>1. IsFiniteSet({x}) /\ Cardinality({x}) = 1
  BY FS_Singleton, Zenon
<1>2. Cardinality({x} \cup {y}) = 2
  <2>1. Cardinality({x} \cup {y}) = IF y \in {x} THEN Cardinality({x}) ELSE Cardinality({x}) + 1
    BY <1>1, FS_AddElement, Zenon
  <2>2. y \notin {x}
    OBVIOUS
  <2> QED BY <1>1, <2>1, <2>2
<1>3. {x} \cup {y} \in SUBSET S
  OBVIOUS
<1>4. Cardinality({x} \cup {y}) <= Cardinality(S)
  BY <1>3, FS_Subset, Zenon
<1>5. Cardinality(S) \in Nat
  BY FS_CardinalityType, Zenon
<1> QED BY <1>2, <1>4, <1>5

(* The runs of a participant that count for a case and an arm.             *)
Included(s, p, c, a) == {r \in RunsOf(s, p) : r.case = c /\ r.arm = a /\ ~r.excluded}

(* In an accepted record there is at most one of them.                     *)
LEMMA IncludedOnce ==
    ASSUME NEW s, StudyTyped(s), ValidateRecord(s) = {},
           NEW p \in Range(s.participants), NEW c \in Range(s.cases), NEW a \in ARMS,
           NEW q \in Included(s, p, c, a), NEW r \in Included(s, p, c, a)
    PROVE  q = r
<1> DEFINE included(d, b) == Cardinality({x \in RunsOf(s, p) : x.case = d /\ x.arm = b
                                                               /\ ~x.excluded})
           wrong == \E d \in Range(s.cases), b \in ARMS :
                      IF p.status = "completed" THEN included(d, b) # 1 ELSE included(d, b) > 1
           left == /\ p.status = "completed"
                   /\ \E x \in RunsOf(s, p) : x.excluded /\ x.reason = "participant_withdrew"
<1>1. ErrorIf("coverage", wrong) = {}
  <2>1. CoverageErrors(s, p) = ErrorIf("coverage", wrong) \cup ErrorIf("withdrew", left)
    BY DEF CoverageErrors
  <2>2. CoverageErrors(s, p) = {}
    BY RecordParts, Zenon
  <2> HIDE DEF wrong, left
  <2> QED BY <2>1, <2>2
<1>2. ~wrong
  <2> HIDE DEF wrong
  <2> QED BY <1>1, ErrorIfEmpty, Zenon
<1>3. ~(included(c, a) > 1)
  <2>1. included(c, a) = 1 \/ ~(included(c, a) > 1)
    <3> HIDE DEF included
    <3> QED BY <1>2, Zenon
  <2> HIDE DEF included
  <2> QED BY <2>1
<1>4. included(c, a) = Cardinality(Included(s, p, c, a))
  BY Zenon DEF Included
<1>5. IsFiniteSet(Included(s, p, c, a))
  <2>1. /\ s.runs \in Seq(Range(s.runs))
        /\ \A x \in Range(s.runs) : \E i \in 1..Len(s.runs) : x = s.runs[i]
    BY RangeIndexed, Zenon DEF StudyTyped
  <2>2. IsFiniteSet(Range(s.runs))
    BY <2>1 DEF IsFiniteSet
  <2>3. Included(s, p, c, a) \in SUBSET Range(s.runs)
    BY DEF Included, RunsOf
  <2> QED BY <2>2, <2>3, FS_Subset, Zenon
<1> HIDE DEF included
<1> QED BY <1>3, <1>4, <1>5, AtMostOne, Zenon

(* Two of a participant's usable runs do not overlap.                      *)
LEMMA RunsApart ==
    ASSUME NEW s, ValidateRecord(s) = {}, NEW p \in Range(s.participants),
           NEW q \in RunsOf(s, p), NEW r \in RunsOf(s, p), q # r, Usable(q), Usable(r),
           RunTyped(q), RunTyped(r)
    PROVE  q.end <= r.start \/ r.end <= q.start
<1> DEFINE wrong == \E x, y \in RunsOf(s, p) : /\ x # y /\ Usable(x) /\ Usable(y)
                                               /\ x.start <= y.start /\ y.start < x.end
<1>1. ErrorIf("overlap", wrong) = {}
  BY RecordParts, Zenon DEF OverlapErrors
<1>2. ~wrong
  <2> HIDE DEF wrong
  <2> QED BY <1>1, ErrorIfEmpty, Zenon
<1>3. /\ ~(q.start <= r.start /\ r.start < q.end)
      /\ ~(r.start <= q.start /\ q.start < r.end)
  BY <1>2, Zenon
<1> QED BY <1>3 DEF RunTyped

(* What the summary says of a pair whose times can be computed.            *)
PairSound(s, x) ==
    x.calculable =>
        /\ x.manual > 0 /\ x.veridoc > 0
        /\ \E m, v \in Range(s.runs) :
              /\ m.arm = "manual" /\ v.arm = "veridoc"
              /\ {m.participant, v.participant} = {x.participant}
              /\ {m.case, v.case} = {x.case}
              /\ m.end <= v.start \/ v.end <= m.start
              /\ x.manual = m.end - m.start - m.pause
              /\ x.veridoc = v.end - v.start - v.pause
              /\ \A r \in Range(s.runs) \ {m, v} :
                    (r.participant = x.participant /\ r.case = x.case) => r.excluded

LEMMA PairAccepted ==
    ASSUME NEW s, StudyTyped(s), ValidateRecord(s) = {},
           NEW p \in Range(s.participants), NEW c \in Range(s.cases)
    PROVE  PairSound(s, PairResult(s, p, c))
<1> DEFINE included(a) == {r \in RunsOf(s, p) : r.case = c /\ r.arm = a /\ ~r.excluded}
           calculable == \A a \in ARMS : \E r \in included(a) : r.outcome = "approved" /\ r.complete
           chosen(a) == CHOOSE r \in included(a) : TRUE
           m == chosen("manual")
           v == chosen("veridoc")
           x == PairResult(s, p, c)
<1>1. /\ x.participant = p.id /\ x.case = c /\ (x.calculable <=> calculable)
      /\ calculable => x.manual = CorrectionTime(m) /\ x.veridoc = CorrectionTime(v)
  BY DEF PairResult
<1> SUFFICES ASSUME calculable
             PROVE  PairSound(s, x)
  <2> HIDE DEF x, calculable
  <2>1. ~x.calculable => PairSound(s, x)
    BY Zenon DEF PairSound
  <2>2. x.calculable => PairSound(s, x)
    BY <1>1, Zenon
  <2>3. PairSound(s, x)
    BY <2>1, <2>2, Zenon
  <2> QED BY <2>3, Zenon DEF x
<1>2. ASSUME NEW a \in ARMS
      PROVE  /\ chosen(a) \in Included(s, p, c, a)
             /\ chosen(a) \in RunsOf(s, p) /\ chosen(a) \in Range(s.runs)
             /\ chosen(a).participant = p.id /\ chosen(a).case = c /\ chosen(a).arm = a
             /\ ~chosen(a).excluded
             /\ RunTyped(chosen(a)) /\ Usable(chosen(a)) /\ CorrectionTime(chosen(a)) > 0
  <2>1. chosen(a) \in included(a)
    BY Zenon
  <2>2. /\ chosen(a) \in Included(s, p, c, a)
        /\ chosen(a) \in RunsOf(s, p) /\ chosen(a) \in Range(s.runs)
        /\ chosen(a).participant = p.id /\ chosen(a).case = c /\ chosen(a).arm = a
        /\ ~chosen(a).excluded
    <3> HIDE DEF chosen
    <3> QED BY <2>1, Zenon DEF Included, RunsOf
  <2> HIDE DEF chosen
  <2>3. RunErrors(s, chosen(a)) = {} /\ RunTyped(chosen(a)) /\ ~InvalidTiming(chosen(a))
    BY <2>2, RecordParts, Zenon DEF StudyTyped, InvalidTiming
  <2> QED BY <2>2, <2>3, TimesAccepted, Zenon
<1>3. "manual" \in ARMS /\ "veridoc" \in ARMS /\ "manual" # "veridoc"
  BY DEF ARMS
<1> HIDE DEF chosen, x, calculable, included
<1>4. m # v
  BY <1>2, <1>3, Zenon
<1>5. m.end <= v.start \/ v.end <= m.start
  BY <1>2, <1>3, <1>4, RunsApart, Zenon
<1>6. ASSUME NEW r \in Range(s.runs) \ {m, v}, r.participant = x.participant, r.case = x.case
      PROVE  r.excluded
  <2> SUFFICES ASSUME ~r.excluded PROVE FALSE
    OBVIOUS
  <2>1. r \in RunsOf(s, p) /\ r.case = c
    BY <1>1, <1>6, Zenon DEF RunsOf
  <2>2. r.arm \in ARMS
    BY <2>1, RecordParts, TimesAccepted, Zenon DEF StudyTyped, RunsOf
  <2>3. r \in Included(s, p, c, r.arm)
    BY <2>1, Zenon DEF Included
  <2>4. chosen(r.arm) \in Included(s, p, c, r.arm)
    BY <1>2, <2>2, Zenon
  <2>5. r = chosen(r.arm)
    BY <2>2, <2>3, <2>4, IncludedOnce, Zenon
  <2> QED BY <1>6, <2>2, <2>5, Zenon DEF ARMS
<1>7. /\ x.manual = m.end - m.start - m.pause
      /\ x.veridoc = v.end - v.start - v.pause
  BY <1>1, Zenon DEF CorrectionTime
<1>8. x.manual > 0 /\ x.veridoc > 0
  BY <1>1, <1>2, <1>3, Zenon
<1>9. /\ m \in Range(s.runs) /\ v \in Range(s.runs) /\ m.arm = "manual" /\ v.arm = "veridoc"
      /\ {m.participant, v.participant} = {x.participant} /\ {m.case, v.case} = {x.case}
  <2>1. /\ m \in Range(s.runs) /\ v \in Range(s.runs) /\ m.arm = "manual" /\ v.arm = "veridoc"
        /\ m.participant = x.participant /\ v.participant = x.participant
        /\ m.case = x.case /\ v.case = x.case
    BY <1>1, <1>2, <1>3, Zenon
  <2> HIDE DEF m, v
  <2> QED BY <2>1
<1> HIDE DEF m, v
<1> QED BY <1>5, <1>6, <1>7, <1>8, <1>9, Zenon DEF PairSound

(* What holds of an accepted record and of its summary.                    *)
RecordSound(s, pairs) ==
    /\ \A p \in Range(s.participants) : \A r \in RunsOf(s, p) :
          /\ s.approved < p.consented /\ s.quality < r.start
          /\ \A a \in ARMS : /\ p.consented < p.practice[a].at
                             /\ p.practice[a].at < r.start
          /\ \A q \in RunsOf(s, p) :
                (r.arm = p.order[1] /\ q.arm = p.order[2]) =>
                    r.start <= q.start /\ (Usable(r) => r.end <= q.start)
          /\ p.status = "withdrawn" => /\ r.start < p.withdrawn
                                       /\ Usable(r) => r.end <= p.withdrawn
    /\ \A x \in pairs : PairSound(s, x)

LEMMA RecordAccepted ==
    ASSUME NEW s, StudyTyped(s), ValidateRecord(s) = {}
    PROVE  RecordSound(s, Summary(s))
<1>1. ASSUME NEW p \in Range(s.participants), NEW r \in RunsOf(s, p)
      PROVE  /\ s.approved < p.consented /\ s.quality < r.start
             /\ \A a \in ARMS : /\ p.consented < p.practice[a].at
                                /\ p.practice[a].at < r.start
             /\ \A q \in RunsOf(s, p) :
                   (r.arm = p.order[1] /\ q.arm = p.order[2]) =>
                       r.start <= q.start /\ (Usable(r) => r.end <= q.start)
             /\ p.status = "withdrawn" => /\ r.start < p.withdrawn
                                          /\ Usable(r) => r.end <= p.withdrawn
  BY ProtocolKept, Zenon
<1>2. ASSUME NEW x \in Summary(s)
      PROVE  PairSound(s, x)
  <2>1. PICK p \in Range(s.participants), c \in Range(s.cases) : x = PairResult(s, p, c)
    BY DEF Summary
  <2> QED BY <2>1, PairAccepted, Zenon
<1> QED BY <1>1, <1>2, Zenon DEF RecordSound

(***************************************************************************)
(* Whatever the study and whatever is edited after the sealing, a record   *)
(* that validate_record accepts has taken every participant through the    *)
(* protocol in order, and the pairs summarize_record computes correction   *)
(* times from are of two disjoint runs, each the only one included for its *)
(* arm.  The records compared are well typed (StudyTyped): the gate parses *)
(* every time before it compares two.                                      *)
(***************************************************************************)
THEOREM AcceptedStudiesAreSound == StudySpec => []AcceptedStudySound
<1> DEFINE IInv == StudyTyped(study) /\ (Accepted => RecordSound(study, verdict.pairs))
<1>1. StudyInit => IInv
  <2> SUFFICES ASSUME StudyInit PROVE IInv
    OBVIOUS
  <2>1. StudyTyped(study)
    BY StudiesAssumption, Zenon DEF StudyInit
  <2>2. phase # "validated"
    BY DEF StudyInit
  <2> QED BY <2>1, <2>2, Zenon DEF Accepted
<1>2. IInv /\ [StudyNext]_studyVars => IInv'
  <2> SUFFICES ASSUME IInv, [StudyNext]_studyVars PROVE IInv'
    OBVIOUS
  <2>1. CASE UNCHANGED studyVars
    BY <2>1, Zenon DEF Accepted, studyVars
  <2>2. CASE Seal \/ \E e \in Edits : Edit(e[1], e[2], e[3], e[4])
    <3>1. phase' # "validated"
      <4>1. phase' = "sealed" \/ phase' = "edited"
        BY <2>2, Zenon DEF Seal, Edit
      <4> QED BY <4>1
    <3>2. StudyTyped(study')
      BY <2>2, SealTyped, EditTyped, Zenon
    <3> QED BY <3>1, <3>2, Zenon DEF Accepted
  <2>3. CASE ValidateStudy
    <3>1. /\ UNCHANGED study /\ verdict'.errors = ValidateRecord(study)
          /\ ValidateRecord(study) = {} => verdict'.pairs = Summary(study)
      BY <2>3, Zenon DEF ValidateStudy
    <3> QED BY <3>1, RecordAccepted, Zenon DEF Accepted
  <2> QED BY <2>1, <2>2, <2>3, Zenon DEF StudyNext
<1>3. IInv => AcceptedStudySound
  BY Zenon DEF AcceptedStudySound, RecordSound, PairSound
<1> QED BY <1>1, <1>2, <1>3, PTL DEF StudySpec
==============================================================================
