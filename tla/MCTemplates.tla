---------------------------- MODULE MCTemplates ----------------------------
(***************************************************************************)
(* Texts, places, templates and documents for model checking the template  *)
(* mapping: fields beside their label, to its right, below it and in       *)
(* tables with and without a title in the header row.                      *)
(***************************************************************************)
EXTENDS TemplateMapping

Line(ws) == <<ws>>
Lot == <<"Lot", "No">>
Title == <<"Batch", "Record">>
Yield == <<"Yield", "Summary">>

\* A line of labelled values; a date that is None is left out.
Labelled(lot, start, end, expiry) ==
    Line(Lot \o <<":", lot, "Start", ":", start>>
         \o (IF end = None THEN <<>> ELSE <<"End", ":", end>>)
         \o <<"Expiry", ":", expiry>>)

MCTextContents ==
    [t1 |-> <<Line(<<"plain">>)>>, t2 |-> <<Line(<<"other">>)>>,
     r1 |-> <<<<<<"a">>, <<"b">>>>>>, r2 |-> <<<<<<"c">>, <<"d">>>>>>,
     text |-> <<Line(<<"plain">>)>>, page_without_text |-> <<Line(<<"empty">>)>>,
     title |-> <<Line(Title)>>, lot |-> <<Line(Lot)>>, value |-> <<Line(<<"b-1">>)>>,
     name |-> <<Line(<<"Jane", "Doe">>)>>, start |-> <<Line(<<"Start", ":", "d1">>)>>,
     note |-> <<Line(<<"Lot", ":", "see">>)>>,
     broken |-> <<Line(Lot \o <<":">>), Line(<<"b-1", "Start", "d1">>)>>,
     good |-> <<Labelled("b-1", "d1", "d2", "d3")>>,
     late |-> <<Labelled("b-1", "d3", "d2", "d1")>>,
     partial |-> <<Labelled("b-1", "d1", None, "d3")>>,
     odd |-> <<Labelled("7-1", "soon", "d2", "d3")>>,
     own |-> <<<<Yield>>, <<<<"step">>, <<"status">>>>, <<<<"blend">>, <<"released">>>>>>,
     same |-> <<<<Yield, <<"step">>, <<"status">>>>, <<<<"blend">>, <<"released">>>>>>,
     led |-> <<<<Yield, <<"step">>, <<"status">>>>, <<<<>>, <<"blend">>, <<"released">>>>>>,
     filled |-> <<<<Yield, <<"step">>, <<"status">>>>,
                  <<<<"plain">>, <<"blend">>, <<"released">>>>>>,
     ruled |-> <<<<Yield>>, <<<<"step">>, <<"status">>>>, <<<<":---:">>, <<":---:">>>>,
                 <<<<>>, <<"released">>>>, <<<<"blend">>, <<"held">>>>>>,
     repeated |-> <<<<Yield>>, <<<<"step">>, <<"status">>>>, <<<<"step">>, <<"status">>>>,
                    <<<<"blend">>, <<"released">>>>>>,
     short |-> <<<<Yield>>, <<<<"step">>>>, <<<<"blend">>>>>>]

Spot(x, y) == [x |-> x, y |-> y, w |-> 10, h |-> 8]
MCBoxPlaces == [a |-> Spot(0, 0), b |-> Spot(20, 0), text |-> Spot(0, 0), head |-> Spot(0, 0),
                here |-> Spot(0, 20), beside |-> Spot(20, 22), farther |-> Spot(40, 20),
                under |-> Spot(2, 40), aside |-> Spot(30, 40)]
MCDigitWords == {"7-1", "d1", "d2", "d3"}
MCShortMarkers == {<<"End">>}
MCNumericWords == {"b-1", "7-1", "d1", "d2", "d3"}
MCCapitalWords == {"Batch", "Record", "Lot", "No", "Start", "End", "Expiry", "Yield",
                   "Summary", "Jane", "Doe"}
MCLabelTokens == {"Batch", "Lot", "No", "Expiry", "Yield", "status"}
MCNameWords == {"Operator"}
MCNumbers == [n \in {"7-1"} |-> 7]
MCDates == [d1 |-> 1, d2 |-> 2, d3 |-> 3]

-----------------------------------------------------------------------------
Anchor(id, kind, text, mode) ==
    [id |-> id, kind |-> kind, text |-> text, mode |-> mode, page |-> NoNumber, types |-> {}]

Field(id, label, anchor, direction) ==
    [id |-> id, label |-> label, key |-> <<id>>, required |-> TRUE, risk |-> "low",
     vtype |-> "string", rules |-> {}, anchor |-> anchor, direction |-> direction]

Rule(type) == [type |-> type, expected |-> None, min |-> {}, max |-> {}, allowed |-> {},
               target |-> None, op |-> None]
Cross(target, op) == [Rule("cross_field") EXCEPT !.target = target, !.op = op]
MCRules ==
    [filled |-> Rule("required"), dated |-> [Rule("type") EXCEPT !.expected = "date"],
     small |-> [Rule("range") EXCEPT !.max = {5}], open |-> Rule("range"),
     listed |-> [Rule("allowed_values") EXCEPT !.allowed = {<<"b-1">>, <<"7-1">>}],
     first |-> Cross("end_on", "before_or_equal"), last |-> Cross("start_on", "after"),
     next |-> Cross("expires_on", "before"), same |-> Cross("start_on", "equals"),
     differs |-> Cross("lot_no", "not_equals"), ghost |-> Cross("absent", "equals"),
     vague |-> Cross("start_on", "near")]

Risk(declared, levels, review) == [declared |-> declared, levels |-> levels, review |-> review]
Quiet == Risk(FALSE, {}, {})

NoTemplate == [anchors |-> <<>>, tables |-> <<>>, fields |-> <<>>, rules |-> MCRules,
               risk |-> Quiet, tableKeys |-> <<>>]

HeadAnchor == Anchor("head", "heading", Title, "normalized")
LotAnchor == Anchor("lot", "label", Lot, "contains")

\* Values beside their labels in one block.
Record == [NoTemplate EXCEPT
    !.anchors = <<HeadAnchor, LotAnchor>>,
    !.fields = <<Field("lot_no", Lot, "lot", "same_block"),
                 [Field("start_on", <<"Start">>, "lot", "same_block") EXCEPT !.vtype = "date"],
                 [Field("end_on", <<"End">>, "lot", "same_block") EXCEPT !.vtype = "date"],
                 [Field("expires_on", <<"Expiry">>, "lot", "same_block") EXCEPT !.vtype = "date"]>>]

RuleChoices ==
    {[Record EXCEPT !.fields[1].rules = l, !.fields[2].rules = s,
                    !.fields[3].rules = e, !.fields[4].rules = x] :
        l \in {{}, {"filled", "listed"}, {"small"}, {"open"}, {"unwritten"}},
        s \in {{}, {"first"}, {"first", "dated"}}, e \in {{}, {"last"}, {"next"}},
        x \in {{}, {"ghost"}, {"same"}, {"differs"}, {"vague"}}}
RiskChoices ==
    {[Record EXCEPT !.risk = r, !.fields[1].risk = k, !.fields[3].required = q,
                    !.fields[3].risk = j] :
        r \in {Quiet, Risk(TRUE, {"low", "high"}, {}), Risk(TRUE, {"low"}, {"low"}),
               Risk(TRUE, {}, {})},
        k \in {None, "low", "high", "malformed"}, j \in {None, "low", "critical"},
        q \in BOOLEAN}
KeyChoices ==
    {[Record EXCEPT !.fields[1].key = p, !.fields[2].key = q, !.tableKeys = ks,
                    !.fields[2].vtype = v] :
        p \in {<<"lot">>, <<"dates">>, <<"dates", "start">>, <<>>},
        q \in {<<"dates">>, <<"dates", "start">>, <<"dates", "start", "day">>},
        ks \in {<<>>, <<<<"lot">>>>, <<<<"rows">>, <<"rows", "a">>>>},
        v \in {"date", "number", "string", "currency"}}
AnchorChoices ==
    {[Record EXCEPT !.anchors = a, !.fields[1].anchor = n] :
        a \in {<<HeadAnchor, LotAnchor>>, <<LotAnchor>>, <<HeadAnchor>>, <<>>,
               <<[HeadAnchor EXCEPT !.page = 2], LotAnchor>>,
               <<[HeadAnchor EXCEPT !.page = 3], LotAnchor>>,
               <<[HeadAnchor EXCEPT !.types = {"paragraph"}], LotAnchor>>},
        n \in {"lot", "head", None}}

\* A value to the right of its label or below it, with other fields around.
Beside(direction, required) ==
    [NoTemplate EXCEPT
        !.anchors = <<HeadAnchor, [LotAnchor EXCEPT !.mode = "normalized"]>>,
        !.fields = <<[Field("lot_no", Lot, "lot", direction) EXCEPT !.required = required],
                     [Field("start_on", <<"Start">>, "head", "below") EXCEPT !.required = FALSE]>>]

\* Columns of a table.
YieldAnchor == Anchor("yield", "table_header", Yield, "normalized")
Tabular(required) ==
    [NoTemplate EXCEPT
        !.anchors = <<YieldAnchor>>,
        !.tables = <<[anchor |-> "yield", required |-> required]>>,
        !.fields = <<Field("step", <<"step">>, "yield", "table_cell"),
                     Field("status", <<"status">>, "yield", "table_cell")>>]
TableTexts == {"own", "same", "led", "filled", "ruled", "repeated", "short", "r1"}
=============================================================================
