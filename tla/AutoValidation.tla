--------------------------- MODULE AutoValidation ---------------------------
(***************************************************************************)
(* Automatic validation (core/validate/automatic.py): whether an extracted *)
(* item or table may be confirmed without a person, given the record it is *)
(* expected to be.                                                         *)
(*                                                                         *)
(* A record is                                                             *)
(*   [id, label, scope, value, evidence, source, metaSource, auto, conf,   *)
(*    flag, metaFlag, risk, category, gmpName, columns, origin,            *)
(*    extractionEngine, engine, extractor, metaExtractor, llm, cells,      *)
(*    fixture]                                                             *)
(* Names starting with "meta" are keys of value_metadata; Absent stands    *)
(* for a key that is not there and Malformed for one with a value of the   *)
(* wrong type.  gmpName says whether a field name, a label or a value type *)
(* names a GMP category; names and engines are tokens, those of OCR and of *)
(* language models in two sets; a confidence is in thousandths; a source   *)
(* anchor is a token, and ValidAnchors are those with a page and a box;    *)
(* fixture says whether a table names itself as its fixture table.         *)
(***************************************************************************)
EXTENDS Integers, Sequences, FiniteSets

CONSTANTS
    Requests,       \* the validations a run asks for
    ValidAnchors,   \* anchors with a page number and a box within the page
    OcrNames,       \* names of OCR sources and engines
    LlmNames        \* names of language models

VARIABLES request, decision

validationVars == <<request, decision>>

Absent == "absent"
Wrong == "malformed"
NotANumber == -1

ScopeKeys == {"fixture_id", "document_id", "block_id"}

RecordWith(Cells) ==
    [id : STRING, label : STRING, scope : [ScopeKeys -> STRING],
     value : [kind : STRING, v : STRING], evidence : STRING, source : STRING,
     metaSource : STRING, auto : STRING, conf : Int, flag : STRING, metaFlag : STRING,
     risk : STRING, category : STRING, gmpName : BOOLEAN, columns : STRING,
     origin : STRING, extractionEngine : STRING, engine : STRING, extractor : STRING,
     metaExtractor : STRING, llm : STRING, cells : Cells, fixture : BOOLEAN]
CellRecord == RecordWith({<<>>})
TableRecord == RecordWith(Seq(CellRecord))

ASSUME RecordsAssumption ==
    \A i \in DOMAIN Requests : \A q \in Requests[i] :
        /\ q.kind \in {"item", "table"}
        /\ q.expected \in TableRecord /\ q.actual \in TableRecord

ASSUME VocabularyAssumption == Absent \notin OcrNames

-----------------------------------------------------------------------------
SUPPORTED_RISK_LEVELS == {"low", "medium", "high", "critical"}
REVIEW_REQUIRED_RISK_LEVELS == {"high", "critical"}

\* Values are [kind, v]; "huge" is a number no float holds, "blank" a text
\* without a character.
ValuesMatch(e, a) == e.kind \in {"bool", "number", "text"} /\ e = a

NumberExpected(v) == v.kind \in {"number", "huge"}

SourceAnchor(r) ==
    CASE r.evidence # Absent -> r.evidence
      [] r.evidence = Absent /\ r.source # Absent -> r.source
      [] OTHER -> r.metaSource

EvidenceMatches(e, a) == SourceAnchor(e) \in ValidAnchors /\ SourceAnchor(a) = SourceAnchor(e)

ConfidenceRequiresReview(conf) == conf < 800 \/ conf > 1000

IsHighRisk(r) == r.risk \in REVIEW_REQUIRED_RISK_LEVELS
HasMalformedRiskLevel(r) == r.risk \notin SUPPORTED_RISK_LEVELS \cup {Absent}

RequiresReview(r) == "yes" \in {r.flag, r.metaFlag}
HasReviewFlag(r) == {r.flag, r.metaFlag} \cap {"yes", "no"} # {}
HasMalformedFlag(r) == Wrong \in {r.flag, r.metaFlag}

\* An explicit category is malformed unless it is one that demands review.
HasMalformedCategory(r) == r.category \notin {Absent, "gmp"}
CategoryRequiresReview(r) == r.category = "gmp" \/ r.gmpName \/ NumberExpected(r.value)

\* Required columns: absent, malformed, or a set of names of which some ("gmp")
\* name a category.
TableCategoryRequiresReview(t) ==
    CategoryRequiresReview(t) \/ t.columns \in {"gmp", "not_a_list"}
HasMalformedColumns(t) == t.columns \in {"not_a_list", "empty", "blank_name"}

\* The checks of both records' shape that items, tables and cells share.
MalformedRecords(e, a) ==
    \E r \in {e, a} : HasMalformedFlag(r) \/ HasMalformedRiskLevel(r) \/ HasMalformedCategory(r)

-----------------------------------------------------------------------------
NamedExtractor(r) == IF r.extractor # Absent THEN r.extractor ELSE r.metaExtractor

OcrDerived(r) == {r.origin, r.engine, NamedExtractor(r)} \cap OcrNames # {}

ExtractionEngine(r) ==
    CASE r.extractionEngine # Absent -> r.extractionEngine
      [] r.extractionEngine = Absent /\ r.engine # Absent -> r.engine
      [] OTHER -> NamedExtractor(r)

EngineMismatch(e, a) ==
    ExtractionEngine(e) # Absent /\ ExtractionEngine(a) # ExtractionEngine(e)

LlmInvolved(r) == r.llm = "yes" \/ NamedExtractor(r) \in LlmNames

\* _gmp_condition_review_warnings
ConditionWarnings(e, a, important) ==
    (IF OcrDerived(e) \/ OcrDerived(a) THEN {"ocr"} ELSE {})
    \cup (IF EngineMismatch(e, a) THEN {"engine"} ELSE {})
    \cup (IF EvidenceMatches(e, a) THEN {} ELSE {"source"})
    \cup (IF important /\ (LlmInvolved(e) \/ LlmInvolved(a)) THEN {"llm"} ELSE {})

\* A cell without a key of its own takes it from its table.
Inherited(t, c) ==
    LET own(tables, value) == IF value = Absent THEN tables ELSE value
    IN  [c EXCEPT !.origin = own(t.origin, @),
                  !.extractionEngine = own(t.extractionEngine, @),
                  !.engine = own(t.engine, @), !.extractor = own(t.extractor, @),
                  !.llm = own(t.llm, @)]

-----------------------------------------------------------------------------
Decide(failed, review) ==
    [failed |-> failed,
     status |-> CASE failed # {} -> "block_auto_confirm"
                  [] failed = {} /\ review -> "requires_review"
                  [] OTHER -> "pass",
     allowed |-> failed = {} /\ ~review]

SameName(e, a) == e \notin {Absent, Wrong} /\ e = a

\* A variant that forgets the reasons for review that come from the conditions.
ValidateItemFlags(e, a) ==
    Decide(IF a.auto # "no" /\ RequiresReview(e) THEN {"risk_gate"} ELSE {}, RequiresReview(e))

\* validate_extracted_item: an item confirmed already fails the risk gate if
\* anything asks for review; an item that nothing does must be bound to its
\* fixture, document and block.
ValidateItem(e, a) ==
    LET marked == RequiresReview(e) \/ RequiresReview(a)
        risky == IsHighRisk(e) \/ IsHighRisk(a)
        named == CategoryRequiresReview(e) \/ CategoryRequiresReview(a)
        doubted == ConfidenceRequiresReview(a.conf)
        review == \/ marked \/ risky \/ named \/ doubted
                  \/ ConditionWarnings(e, a, marked \/ risky \/ named) # {}
        unbound(k) == ~SameName(e.scope[k], a.scope[k])
        failed ==
            (IF \/ ~SameName(e.id, a.id) \/ ~SameName(e.label, a.label)
                \/ \E k \in ScopeKeys : /\ unbound(k)
                                        /\ e.scope[k] # Absent \/ ~(marked \/ risky \/ named)
             THEN {"scope_binding"} ELSE {})
            \cup (IF ValuesMatch(e.value, a.value) THEN {} ELSE {"value_non_modification"})
            \cup (IF EvidenceMatches(e, a) THEN {} ELSE {"provenance"})
            \cup (IF NumberExpected(e.value) /\ ~ValuesMatch(e.value, a.value)
                  THEN {"numeric"} ELSE {})
            \cup (IF \/ a.auto = Wrong \/ (a.auto = "yes" /\ review)
                     \/ MalformedRecords(e, a) \/ e.risk = Absent \/ ~HasReviewFlag(e)
                  THEN {"risk_gate"} ELSE {})
    IN  Decide(failed, review)

\* What one cell adds: its failures, and whether it asks for review.
ValidateCell(te, ta, e, a, tableMarked, tableRisky, tableNamed) ==
    LET marked == tableMarked \/ RequiresReview(e) \/ RequiresReview(a)
        risky == tableRisky \/ IsHighRisk(e) \/ IsHighRisk(a)
        named == tableNamed \/ CategoryRequiresReview(e) \/ CategoryRequiresReview(a)
        doubted == a.conf # NotANumber /\ ConfidenceRequiresReview(a.conf)
        review == \/ marked \/ risky \/ named \/ doubted
                  \/ ConditionWarnings(Inherited(te, e), Inherited(ta, a),
                                       marked \/ risky \/ named) # {}
    IN  [review |-> review,
         failed |->
            (IF EvidenceMatches(e, a) THEN {} ELSE {"provenance"})
            \cup (IF \/ a.auto = Wrong \/ (a.auto = "yes" /\ review)
                     \/ MalformedRecords(e, a) \/ ~HasReviewFlag(e)
                  THEN {"risk_gate"} ELSE {})]

\* _cells_by_id: no cells at all, a cell without an id or two with the same one
\* make the table unusable.
CellsById(cells) ==
    IF /\ cells # <<>>
       /\ \A i \in DOMAIN cells : cells[i].id \notin {Absent, Wrong}
       /\ \A i, j \in DOMAIN cells : cells[i].id = cells[j].id => i = j
    THEN [id \in {cells[i].id : i \in DOMAIN cells} |->
            cells[CHOOSE i \in DOMAIN cells : cells[i].id = id]]
    ELSE <<>>

\* validate_table_consistency
ValidateTable(e, a) ==
    LET doubted == a.conf # NotANumber /\ ConfidenceRequiresReview(a.conf)
        marked == RequiresReview(e) \/ RequiresReview(a)
        risky == IsHighRisk(e) \/ IsHighRisk(a)
        named == TableCategoryRequiresReview(e) \/ TableCategoryRequiresReview(a)
        es == CellsById(e.cells)
        as == CellsById(a.cells)
        both == DOMAIN es \cap DOMAIN as
        cell(id) == ValidateCell(e, a, es[id], as[id], marked \/ doubted, risky, named)
        review == marked \/ risky \/ named \/ doubted \/ \E id \in both : cell(id).review
        failed ==
            (IF \/ ~SameName(e.id, a.id) \/ ~e.fixture
                \/ es = <<>> \/ as = <<>> \/ DOMAIN es # DOMAIN as
                \/ \E id \in both : es[id].value.kind # "text" \/ as[id].value # es[id].value
             THEN {"table_consistency"} ELSE {})
            \cup (IF \/ MalformedRecords(e, a) \/ e.risk = Absent
                     \/ HasMalformedColumns(e) \/ HasMalformedColumns(a)
                     \/ a.auto = Wrong \/ (a.auto = "yes" /\ review)
                  THEN {"risk_gate"} ELSE {})
            \cup UNION {cell(id).failed : id \in both}
    IN  Decide(failed, review)

-----------------------------------------------------------------------------
NoDecision == [failed |-> {}, status |-> "pending", allowed |-> FALSE]

ValidationInit == \E i \in DOMAIN Requests : request \in Requests[i]
                  /\ decision = NoDecision

Validate == /\ decision = NoDecision
            /\ request.kind # "none"
            /\ decision' = IF request.kind = "item"
                           THEN ValidateItem(request.expected, request.actual)
                           ELSE ValidateTable(request.expected, request.actual)
            /\ UNCHANGED request

ValidationSpec == ValidationInit /\ [][Validate]_validationVars

-----------------------------------------------------------------------------
\* The record's own request to be looked at: a mark, a risk, or a category.
AsksForReview(r) ==
    RequiresReview(r) \/ IsHighRisk(r) \/ r.gmpName \/ r.category # Absent

SourceNames == {"origin", "engine", "extractor"}
NamesOcr(r) == \E key \in SourceNames : r[key] \in OcrNames

\* Neither the cell names OCR as its source, nor the table for a cell that
\* names nothing.
FreeOfOcr(t, c) ==
    ~NamesOcr(c) /\ \A key \in SourceNames : c[key] = Absent => t[key] \notin OcrNames

SameContent(e, a) ==
    /\ e.value = a.value
    /\ SourceAnchor(a) = SourceAnchor(e) /\ SourceAnchor(a) \in ValidAnchors
    /\ ~AsksForReview(e) /\ ~AsksForReview(a)

ItemSound(e, a) ==
    /\ e.id = a.id /\ e.label = a.label /\ e.scope = a.scope
    /\ SameContent(e, a)
    /\ ~NamesOcr(e) /\ ~NamesOcr(a)
    /\ a.conf \in 800..1000

TableSound(e, a) ==
    /\ e.id = a.id
    /\ ~AsksForReview(e) /\ ~AsksForReview(a)
    /\ a.conf \in {NotANumber} \cup 800..1000
    /\ Len(e.cells) = Len(a.cells)
    /\ \A i \in DOMAIN e.cells, j \in DOMAIN a.cells :
          e.cells[i].id = a.cells[j].id =>
              /\ SameContent(e.cells[i], a.cells[j])
              /\ FreeOfOcr(e, e.cells[i]) /\ FreeOfOcr(a, a.cells[j])
              /\ a.cells[j].conf \in {NotANumber} \cup 800..1000

\* An item or a table is confirmed without a person only if it is the expected
\* one, read from the expected place, with the expected content, and neither
\* record, nor any cell of a table, carries a mark, a risk, a category or a
\* source that asks for review, and no confidence is below the limit.
AutoConfirmSound ==
    decision.allowed =>
        /\ request.kind = "item" => ItemSound(request.expected, request.actual)
        /\ request.kind = "table" => TableSound(request.expected, request.actual)
=============================================================================
