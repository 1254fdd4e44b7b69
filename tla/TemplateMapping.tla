--------------------------- MODULE TemplateMapping ---------------------------
(***************************************************************************)
(* Applying a template to a document (core/ir/template_fingerprint.py):    *)
(* match_template_fingerprint decides whether the document is of the       *)
(* template, apply_template_field_mapping reads its fields, validates them *)
(* and writes those that need no review to the output.                     *)
(*                                                                         *)
(* A template is [anchors, tables, fields, rules, risk, tableKeys]:        *)
(*   table [anchor, required], field [id, label, key, required, risk,      *)
(*   vtype, rules, anchor, direction]; rules maps a rule's id to [type,    *)
(*   expected, min, max, allowed, target, op] (a bound is a set, empty     *)
(*   when absent); risk is [declared, levels, review]; an output key is    *)
(*   the sequence of its parts.                                            *)
(***************************************************************************)
EXTENDS TemplateTables

CONSTANTS
    Numbers,    \* the words that parse as a number, and their value
    Dates       \* the words that parse as a date, and their day

ALWAYS_REVIEW_RISK_LEVELS == {"high", "critical"}

-----------------------------------------------------------------------------
AnchorScope(anchor, b) ==
    /\ anchor.kind = "table_header" => b.type = "table"
    /\ anchor.page # NoNumber => b.page = anchor.page
    /\ anchor.types = {} \/ b.type \in anchor.types

BlocksOfAnchor(ir, anchor) ==
    LET matches(b) ==
            IF anchor.kind = "table_header"
            THEN \E i \in DOMAIN TableRows(b.text, ir.source) :
                    RowMatchesAnchor(TableRows(b.text, ir.source)[i], anchor)
            ELSE TextMatches(anchor.text, Words(b.text), anchor.mode)
    IN  Picked(ir.blocks, {i \in DOMAIN ir.blocks :
                             AnchorScope(anchor, ir.blocks[i]) /\ matches(ir.blocks[i])})

\* The anchors of tables and of required fields; the others only if no field
\* uses them and they are headings or table headers.
RequiredAnchors(t) ==
    ({t.tables[i].anchor : i \in DOMAIN t.tables}
     \cup {t.fields[i].anchor : i \in {i \in DOMAIN t.fields : t.fields[i].required}})
    \ {None}

OptionalAnchors(t) ==
    {t.fields[i].anchor : i \in {i \in DOMAIN t.fields : ~t.fields[i].required}}
    \ RequiredAnchors(t)

AnchorRequired(t, anchor) ==
    \/ anchor.id \in RequiredAnchors(t)
    \/ anchor.id \notin OptionalAnchors(t) /\ anchor.kind \in {"heading", "table_header"}

\* Of each table: found, and with all its required columns in one of its blocks.
TableVerdict(ir, t, table) ==
    LET anchors == {i \in DOMAIN t.anchors : t.anchors[i].id = table.anchor}
        anchor == t.anchors[FirstOf(anchors)]
        blocks == IF anchors = {} THEN <<>> ELSE BlocksOfAnchor(ir, anchor)
    IN  CASE blocks = <<>> -> "missing"
          [] blocks # <<>> /\ \E i \in DOMAIN blocks :
                RequiredColumnScore(TableRows(blocks[i].text, ir.source), anchor,
                                    table.required, Merges(ir.source))
                = Cardinality(table.required) -> "complete"
          [] OTHER -> "incomplete"

\* _document_ir_review_warnings
DocumentReviewWarnings(ir) ==
    {<<"document", w>> : w \in ir.warnings}
    \cup {<<"block", i>> : i \in {i \in DOMAIN ir.blocks : ir.blocks[i].review}}

\* match_template_fingerprint.  Without a reason to fail closed and with all
\* columns present, the score is 0.6 for the anchors found, 0.2 for the pages
\* and 0.2 for the share of tables found: it reaches 0.95 when some anchor
\* was found and at most a quarter of the tables is missing.
MatchFingerprint(ir, t) ==
    LET found(i) == BlocksOfAnchor(ir, t.anchors[i]) # <<>>
        needed == {i \in DOMAIN t.anchors : AnchorRequired(t, t.anchors[i])}
        scoped == {t.anchors[i].page : i \in needed} \ {NoNumber}
        failures ==
            (IF ir.pages = <<>> THEN {<<"pages", 0>>} ELSE {})
            \cup (IF t.anchors = <<>> THEN {<<"anchors", 0>>} ELSE {})
            \cup {<<"undefined", a>> :
                    a \in RequiredAnchors(t) \ {t.anchors[i].id : i \in DOMAIN t.anchors}}
            \cup {<<"anchor", i>> : i \in {i \in needed : ~found(i)}}
            \cup {<<"page", p>> :
                    p \in scoped \ {ir.pages[i].number : i \in DOMAIN ir.pages}}
        tables(verdicts, v) == {i \in DOMAIN verdicts : verdicts[i] = v}
        known(missing, incomplete) ==
            /\ failures = {}
            /\ incomplete = {}
            /\ \E i \in DOMAIN t.anchors : found(i)
            /\ 4 * Cardinality(missing) <= Len(t.tables)
        match(isKnown, warnings) ==
            [known |-> isKnown, review |-> warnings # {} \/ ~isKnown, warnings |-> warnings]
        judged(missing, incomplete) ==
            match(known(missing, incomplete),
                  failures \cup {<<"table", i>> : i \in missing \cup incomplete}
                      \cup DocumentReviewWarnings(ir))
        given(verdicts) == judged(tables(verdicts, "missing"), tables(verdicts, "incomplete"))
    IN  given([i \in DOMAIN t.tables |-> TableVerdict(ir, t, t.tables[i])])

-----------------------------------------------------------------------------
\* _template_field_risk_warnings, for a field with a value and without one.
RiskDoubt(t, f) ==
    \/ f.risk \in ALWAYS_REVIEW_RISK_LEVELS
    \/ t.risk.declared /\ f.risk \notin t.risk.levels \ t.risk.review

AbsentRiskDoubt(t, f) ==
    IF f.required THEN RiskDoubt(t, f)
    ELSE t.risk.declared /\ f.risk \notin t.risk.levels

-----------------------------------------------------------------------------
\* The number or the date a value spells, as a set that is empty if it does not.
Spelled(words, value) ==
    IF Len(value) = 1 /\ value[1] \in DOMAIN words THEN {words[value[1]]} ELSE {}

Truth(value) ==
    CASE value \in {<<"true">>, <<"yes">>, <<"1">>} -> {TRUE}
      [] value \in {<<"false">>, <<"no">>, <<"0">>} -> {FALSE}
      [] OTHER -> {}

Coerced(value, vtype) ==
    CASE vtype = "number" -> Spelled(Numbers, value)
      [] vtype = "date" -> Spelled(Dates, value)
      [] vtype = "boolean" -> Truth(value)
      [] OTHER -> {}

MatchesType(value, vtype) ==
    \/ vtype \in {None, "string", "enum"}
    \/ vtype \in {"number", "date", "boolean"} /\ Coerced(value, vtype) # {}

Compare(a, b, op) ==
    CASE op \in {"before", "less_than"} -> a < b
      [] op \in {"before_or_equal", "less_than_or_equal"} -> a <= b
      [] op \in {"after", "greater_than"} -> a > b
      [] OTHER -> a >= b

DateOperators == {"before", "before_or_equal", "after", "after_or_equal"}
NumberOperators == {"less_than", "less_than_or_equal", "greater_than", "greater_than_or_equal"}

\* A rule on two fields fails closed when the other has no usable value.
CrossField(value, rule, vtype, values) ==
    LET other == values[rule.target]
        left == Coerced(value, vtype)
        right == Coerced(other, vtype)
        ordered(words) == \E a \in Spelled(words, value), b \in Spelled(words, other) :
                              Compare(a, b, rule.op)
        equal == IF left = {} /\ right = {} THEN value = other ELSE left = right
        comparable == left # {} <=> right # {}
    IN  /\ rule.target \in DOMAIN values
        /\ CASE rule.op \in DateOperators -> ordered(Dates)
             [] rule.op \in NumberOperators -> ordered(Numbers)
             [] rule.op = "equals" -> comparable /\ equal
             [] rule.op = "not_equals" -> comparable /\ ~equal
             [] OTHER -> FALSE

Satisfies(value, rule, vtype, values) ==
    CASE rule.type = "required" -> value # <<>>
      [] rule.type = "type" -> MatchesType(value, rule.expected)
      [] rule.type = "range" ->
            /\ rule.min \cup rule.max # {}
            /\ \E n \in Spelled(Numbers, value) : /\ \A m \in rule.min : n >= m
                                                  /\ \A m \in rule.max : n <= m
      [] rule.type = "allowed_values" ->
            \E a \in rule.allowed :
                IF Coerced(value, vtype) = {} THEN a = value
                ELSE Coerced(a, vtype) = Coerced(value, vtype)
      [] rule.type = "cross_field" -> CrossField(value, rule, vtype, values)
      [] OTHER -> FALSE

\* The rules of a field its value breaks, an undefined rule among them.
Broken(t, f, value, values, kinds) ==
    {r \in f.rules : \/ r \notin DOMAIN t.rules
                     \/ /\ (IF t.rules[r].type = "cross_field" THEN "cross" ELSE "own") \in kinds
                        /\ ~Satisfies(value, t.rules[r], f.vtype, values)}

\* _template_field_value_validation_warnings: a value of the wrong type is not
\* held against the rules.
ValidationDoubt(t, f, value, values, kinds) ==
    \/ "own" \in kinds /\ ~MatchesType(value, f.vtype)
    \/ Broken(t, f, value, values, kinds) # {}

-----------------------------------------------------------------------------

\* Two output keys conflict when one is the other or a prefix of it.
KeysConflict(p, q) == p # <<>> /\ q # <<>> /\ (IsPrefix(p, q) \/ IsPrefix(q, p))

\* The fields whose output key conflicts with that of a field or a table.
KeyConflicts(t) ==
    {i \in DOMAIN t.fields :
        \/ \E j \in DOMAIN t.fields \ {i} : KeysConflict(t.fields[i].key, t.fields[j].key)
        \/ \E k \in DOMAIN t.tableKeys : KeysConflict(t.fields[i].key, t.tableKeys[k])}

\* _set_output_value: a value replaces what its path leads to and every value
\* its path passes through.
SetOutput(output, path, value) ==
    IF path = <<>> THEN output
    ELSE {o \in output : ~(IsPrefix(o.path, path) \/ IsPrefix(path, o.path))} \cup {[path |-> path, value |-> value]}

-----------------------------------------------------------------------------
StopMarkers(t, f, anchor) ==
    LET others == {i \in DOMAIN t.fields : t.fields[i].id # f.id}
    IN  ({t.fields[i].label : i \in others} \cup {<<t.fields[i].id>> : i \in others}
         \cup {t.anchors[i].text : i \in {i \in DOMAIN t.anchors : t.anchors[i].id # anchor.id}})
        \ {<<>>}

\* _extract_template_field_value
ExtractField(ir, t, f) ==
    LET anchors == {i \in DOMAIN t.anchors : t.anchors[i].id = f.anchor}
        anchor == t.anchors[FirstOf(anchors)]
        blocks == BlocksOfAnchor(ir, anchor)
        tables == {i \in DOMAIN t.tables : t.tables[i].anchor = anchor.id}
        required == IF tables = {} THEN {} ELSE t.tables[FirstOf(tables)].required
    IN  CASE anchors = {} -> NoValue
          [] anchors # {} /\ f.direction = "table_cell" ->
                TableCell(ir, f, anchor, blocks, required)
          [] OTHER -> NearbyField(ir.blocks, f, anchor, blocks, StopMarkers(t, f, anchor))

\* A field of a clean match with no doubt of its own, cross-field rules aside.
Undoubted(ir, t, i, value) ==
    LET f == t.fields[i]
    IN  /\ value.value # <<>>
        /\ ~ir.blocks[value.block].review
        /\ ~RiskDoubt(t, f)
        /\ ~ValidationDoubt(t, f, value.value, <<>>, {"own"})
        /\ i \notin KeyConflicts(t)

ValuesOf(t, extracted, S) ==
    [id \in {t.fields[i].id : i \in S} |->
        extracted[CHOOSE i \in S : t.fields[i].id = id].value]

\* A variant that drops failed fields only once.
ReviewedOnce(t, extracted, base) ==
    {i \in base : ~ValidationDoubt(t, t.fields[i], extracted[i].value,
                                   ValuesOf(t, extracted, base), {"cross"})}

\* _reviewed_template_field_values_by_id: fields that fail a cross-field rule
\* are dropped, and the rest checked again without them, until none fails.
ReviewedFields(t, extracted, base) ==
    LET holds(S) == {i \in S : ~ValidationDoubt(t, t.fields[i], extracted[i].value,
                                                ValuesOf(t, extracted, S), {"cross"})}
        round[n \in 0..Len(t.fields)] == IF n = 0 THEN base ELSE holds(round[n - 1])
    IN  round[Len(t.fields)]

\* The fields of the template, read when the document is of the template.
ExtractedFields(ir, t, match) ==
    [i \in DOMAIN t.fields |->
        IF match.known THEN ExtractField(ir, t, t.fields[i]) ELSE NoValue]

\* Whether a field is held for review, given the values that passed.
FieldDoubt(ir, t, match, i, v, values) ==
    LET f == t.fields[i]
    IN  \/ i \in KeyConflicts(t)
        \/ v.value = <<>> /\ (f.required \/ AbsentRiskDoubt(t, f))
        \/ /\ v.value # <<>>
           /\ \/ match.review
              \/ ir.blocks[v.block].review
              \/ RiskDoubt(t, f)
              \/ ValidationDoubt(t, f, v.value, values, {"own", "cross"})

\* A field's value is written unless it is held for review.
WriteField(output, f, key) ==
    IF f.review \/ f.found.value = <<>> THEN output
    ELSE SetOutput(output, key, f.found.value)

\* The output once all fields have been written, one after the other.
WrittenOutput(fields, t) ==
    LET written[n \in 0..Len(fields)] ==
            IF n = 0 THEN {}
            ELSE WriteField(written[n - 1], fields[n], t.fields[n].key)
    IN  written[Len(fields)]

\* apply_template_field_mapping
ApplyMapping(ir, t) ==
    LET base(match, extracted) ==
            IF match.review THEN {}
            ELSE {i \in DOMAIN t.fields : Undoubted(ir, t, i, extracted[i])}
        passed(match, extracted) ==
            ValuesOf(t, extracted, ReviewedFields(t, extracted, base(match, extracted)))
        verdicts(match, extracted, values) ==
            [i \in DOMAIN t.fields |->
                [id |-> t.fields[i].id, found |-> extracted[i],
                 review |-> FieldDoubt(ir, t, match, i, extracted[i], values)]]
        mapped(match, fields) ==
            [fields |-> fields,
             output |-> WrittenOutput(fields, t),
             known |-> match.known,
             review |-> \/ match.warnings # {} \/ ~match.known
                        \/ \E i \in DOMAIN fields : fields[i].review
                        \/ \E j, k \in DOMAIN t.tableKeys :
                              j # k /\ KeysConflict(t.tableKeys[j], t.tableKeys[k])]
        judged(match, extracted) ==
            mapped(match, verdicts(match, extracted, passed(match, extracted)))
        matched(match) == judged(match, ExtractedFields(ir, t, match))
    IN  matched(MatchFingerprint(ir, t))
=============================================================================
