---------------------------- MODULE MCValidation ----------------------------
(***************************************************************************)
(* Requests for model checking AutoValidation: an item and a table, each   *)
(* of their two records changed in every way that matters to a rule.       *)
(***************************************************************************)
EXTENDS AutoValidation

Scope == [fixture_id |-> "f", document_id |-> "d", block_id |-> "b"]
Text(v) == [kind |-> "text", v |-> v]
Plain == [id |-> "r1", label |-> "remark", scope |-> Scope, value |-> Text("x"),
          evidence |-> "p1", source |-> Absent, metaSource |-> Absent, auto |-> "no",
          conf |-> 900, flag |-> "no", metaFlag |-> Absent, risk |-> "low",
          category |-> Absent, gmpName |-> FALSE, columns |-> Absent, origin |-> Absent,
          extractionEngine |-> Absent, engine |-> Absent, extractor |-> Absent,
          metaExtractor |-> Absent, llm |-> Absent, cells |-> <<>>, fixture |-> TRUE]

\* The ways to differ that records of every level share.
Marked(r) ==
    {r} \cup {[r EXCEPT !.id = x] : x \in {"r2", Absent, Wrong}}
    \cup {[r EXCEPT !.flag = x, !.metaFlag = y] :
            x \in {Absent, "no", "yes", Wrong}, y \in {Absent, "yes", Wrong}}
    \cup {[r EXCEPT !.risk = x] : x \in {Absent, "medium", "high", Wrong}}
    \cup {[r EXCEPT !.category = x] : x \in {"gmp", Wrong}}
    \cup {[r EXCEPT !.gmpName = TRUE]}
    \cup {[r EXCEPT !.auto = x] : x \in {"yes", Wrong}}
    \cup {[r EXCEPT !.auto = "yes", !.risk = "critical"]}
    \cup {[r EXCEPT !.conf = x] : x \in {-2, NotANumber, 799, 800, 1000, 1001}}
    \cup {[r EXCEPT !.llm = x, !.extractor = y] :
            x \in {Absent, "no", "yes"}, y \in {Absent, "gpt"}}
    \cup {[r EXCEPT !.origin = "scan_ocr"]}
    \cup {[r EXCEPT !.engine = x, !.extractor = y, !.metaExtractor = z] :
            x \in {Absent, "plumber"}, y \in {Absent, "plumber", "tesseract"},
            z \in {Absent, "tesseract"}}
    \cup {[r EXCEPT !.extractionEngine = "plumber"]}

Placed(r) ==
    {[r EXCEPT !.evidence = x, !.source = y, !.metaSource = z] :
        x \in {"p1", "bad", Absent}, y \in {"p1", "p2", Absent}, z \in {"p1", Absent}}
    \cup {[r EXCEPT !.value = v] :
            v \in {Text("y"), [kind |-> "blank", v |-> ""], [kind |-> "number", v |-> "1"],
                   [kind |-> "bool", v |-> "t"], [kind |-> "huge", v |-> "1"]}}

Items == Marked(Plain) \cup Placed(Plain)
    \cup {[Plain EXCEPT !.label = x] : x \in {"note", Absent}}
    \cup {[Plain EXCEPT !.scope.block_id = x, !.flag = f] :
            x \in {"c", Absent}, f \in {"no", "yes"}}

NoTable == [Plain EXCEPT !.value.kind = "none", !.evidence = Absent, !.conf = NotANumber]
CellLists == {<<c>> : c \in Marked(Plain) \cup Placed(Plain)}
    \cup {<<>>, <<Plain, Plain>>, <<Plain, [Plain EXCEPT !.id = "r2"]>>}
Tables == {[t EXCEPT !.cells = <<Plain>>] : t \in Marked(NoTable)}
    \cup {[NoTable EXCEPT !.cells = c] : c \in CellLists}
    \cup {[NoTable EXCEPT !.cells = <<Plain>>, !.columns = x] :
            x \in {"gmp", "plain", "not_a_list", "empty", "blank_name"}}
    \cup {[NoTable EXCEPT !.cells = <<Plain>>, !.fixture = FALSE]}
    \cup {[NoTable EXCEPT !.extractor = x, !.cells = <<[Plain EXCEPT !.metaExtractor = y]>>] :
            x, y \in {"plumber", "tesseract"}}
    \cup {[NoTable EXCEPT !.origin = "scan_ocr", !.engine = x,
                          !.cells = <<[Plain EXCEPT !.origin = y, !.engine = z]>>] :
            x \in {Absent, "tesseract"}, y \in {Absent, "text"}, z \in {Absent, "plumber"}}

Request(k, e, a) == [kind |-> k, expected |-> e, actual |-> a]
NoRequest == Request("none", Plain, Plain)
MCRequests == <<{Request("item", e, a) : e, a \in Items},
                {Request("table", e, a) : e, a \in Tables}>>
MCValidAnchors == {"p1", "p2"}
MCOcrNames == {"scan_ocr", "tesseract"}
MCLlmNames == {"gpt"}
=============================================================================
