------------------------------ MODULE PdfTables ------------------------------
(***************************************************************************)
(* PDF input: the text parser's pages and blocks, the comparison of the    *)
(* three table extractors, and how the selected extractor's tables replace *)
(* the table fragments of the text parser                                  *)
(* (core/parsers/pdf_text_extraction.py, core/parsers/                     *)
(* pdf_table_extraction.py, services/api/poc_web.py).                      *)
(*                                                                         *)
(* A candidate is [name, ok, tables]; a table is [page, rows, cells], rows *)
(* a token for its cell texts (None when it has no text) and cells one of  *)
(* "all", "some", "none": which of its cells have a bounding box.          *)
(***************************************************************************)
EXTENDS DocumentIR

NoOutput == [pages |-> <<>>, blocks |-> <<>>, sheets |-> <<>>,
             candidates |-> <<>>, selected |-> None, mismatched |-> FALSE,
             extractor |-> None]

\* A text layer is a sequence of pages, each a sequence of the line groups
\* found on it: <<type, text>>.  A page without lines gets a placeholder block
\* that covers it and is marked for review, and so is every table heuristic.
ParseTextPdf(layer) ==
    LET block(p, kind, text, conf) ==
            [Fragment(kind, text, [at |-> text, unit |-> None, fits |-> TRUE], conf)
                EXCEPT !.page = p, !.review = kind = "table" \/ conf = 0,
                       !.extractor = IF kind = "table" THEN "table-heuristic" ELSE "pymupdf"]
        blocks(p) ==
            IF layer[p] = <<>>
            THEN <<block(p, "paragraph", EMPTY_PAGE_REVIEW_TEXT, 0)>>
            ELSE [i \in DOMAIN layer[p] |->
                     block(p, layer[p][i][1], layer[p][i][2],
                           IF layer[p][i][1] = "table" THEN 600 ELSE 900)]
    IN  [NoOutput EXCEPT !.pages = [p \in DOMAIN layer |-> DefaultPage(p, <<>>)],
                         !.blocks = FlattenSeq([p \in DOMAIN layer |-> blocks(p)])]

-----------------------------------------------------------------------------
PreferredCandidates == <<"camelot:lattice", "pdfplumber:table", "camelot:stream">>

\* Two extractors disagree when they found a different number of tables or
\* their k-th tables differ in page, shape or text.
Disagree(c, d) ==
    \/ Len(c.tables) # Len(d.tables)
    \/ \E k \in DOMAIN c.tables \cap DOMAIN d.tables :
          \/ c.tables[k].page # d.tables[k].page
          \/ c.tables[k].rows # d.tables[k].rows

\* build_table_extraction_report without an expected shape, the way the server
\* calls it: each mismatch blocks the candidates it names.
BlockedCandidates(candidates) ==
    LET ok == {i \in DOMAIN candidates : candidates[i].ok}
    IN  {i \in ok :
           \/ candidates[i].tables = <<>>
           \/ \E k \in DOMAIN candidates[i].tables : candidates[i].tables[k].cells # "all"
           \/ \E j \in ok \ {i} : Disagree(candidates[i], candidates[j])}

Mismatched(candidates) == BlockedCandidates(candidates) # {}

SelectCandidate(candidates) ==
    LET free == {candidates[i].name : i \in
                    {i \in DOMAIN candidates : candidates[i].ok}
                        \ BlockedCandidates(candidates)}
        ranked == SelectSeq(PreferredCandidates, LAMBDA n : n \in free)
    IN  IF ranked = <<>> THEN None ELSE Head(ranked)

\* compare_pdf_table_extractors
ExtractionReport(candidates) ==
    [candidates |-> candidates,
     mismatched |-> Mismatched(candidates),
     selected |-> SelectCandidate(candidates)]

\* A variant that only reports an outage of every extractor.
AllUnavailable(report) == \A i \in DOMAIN report.candidates : ~report.candidates[i].ok

SomeUnavailable(report) == \E i \in DOMAIN report.candidates : ~report.candidates[i].ok

\* Every warning here contains "requires review".
PdfTableWarnings(report) ==
    LET chosen == SelectSeq(report.candidates,
                            LAMBDA c : c.ok /\ c.name = report.selected)
        unbounded(c) == \/ c.tables = <<>>
                        \/ \E k \in DOMAIN c.tables : c.tables[k].cells # "all"
    IN  {w \in {"tables_none_selected", "tables_disagree", "tables_unbounded",
                "tables_unavailable"} :
           CASE w = "tables_none_selected" -> report.selected = None
             [] w = "tables_disagree" -> report.mismatched
             [] w = "tables_unbounded" -> chosen # <<>> /\ unbounded(Head(chosen))
             [] w = "tables_unavailable" -> SomeUnavailable(report)}

-----------------------------------------------------------------------------
\* What identifies a table: its page and its cell texts, read from the rows or,
\* failing that, from the text.  NoKey when it has none.
NoKey == <<0, None>>
FragmentKey(f, page) ==
    LET content == IF f.rows # None THEN f.rows ELSE f.text
        on == PageNumber(f.page, PageNumber(page.number, 0))
    IN  IF f.kind # "table" \/ content = None THEN NoKey ELSE <<on, content>>

TableKey(t) == IF t.rows = None THEN NoKey ELSE <<PageNumber(t.page, 1), t.rows>>

\* A fragment takes over a table's text, rows and, if every cell is bounded,
\* its box; otherwise it is marked for review.
MergeTable(f, t) ==
    LET box == TableBox(t, {"all"})
    IN  [f EXCEPT !.text = t.rows, !.rows = t.rows, !.extractor = t.candidate,
                  !.conf = IF box # NoBox THEN 900 ELSE 0,
                  !.box = box,
                  !.review = box = NoBox,
                  !.missing = box = NoBox,
                  !.low = IF box # NoBox THEN FALSE ELSE f.low]

\* The places of fragments, and the order the code lists them in: page by page,
\* the fragments before the regions.
Places(pages) ==
    UNION {{<<p, c, k>> : k \in DOMAIN pages[p][c]} :
             p \in DOMAIN pages, c \in {"fragments", "regions"}}

NotAfter(pl, q) ==
    \/ pl[1] < q[1]
    \/ pl[1] = q[1] /\ pl[2] = "fragments" /\ q[2] = "regions"
    \/ pl[1] = q[1] /\ pl[2] = q[2] /\ pl[3] <= q[3]

At(pages, place) == pages[place[1]][place[2]][place[3]]
KeyAt(pages, place) == FragmentKey(At(pages, place), pages[place[1]])

\* A table merged into a fragment, which is then taken.
MergedAt(acc, pl, t) ==
    [pages |-> [acc.pages EXCEPT ![pl[1]][pl[2]][pl[3]] = MergeTable(@, t)],
     free |-> acc.free \ {pl},
     keys |-> acc.keys \cup {TableKey(t)}]

\* A page with a table, appended if need be.
WithTable(pages, number, fresh) ==
    LET on == {p \in DOMAIN pages : pages[p].number = number}
        last == CHOOSE p \in on : \A q \in on : q <= p
    IN  IF on = {} THEN Append(pages, DefaultPage(number, <<fresh>>))
        ELSE [pages EXCEPT ![last].fragments = Append(@, fresh)]

Appended(acc, t) ==
    LET number == PageNumber(t.page, 1)
        fresh == MergeTable([Fragment("table", None, NoBox, NoNumber)
                                EXCEPT !.page = number], t)
    IN  [acc EXCEPT !.pages = WithTable(@, number, fresh),
                    !.keys = @ \cup ({TableKey(t)} \ {NoKey})]

\* One selected table: merged into the first fragment of the same key that
\* another extractor produced, else appended.
PlaceTable(acc, t) ==
    LET pages == acc.pages
        hits == {pl \in acc.free : /\ TableKey(t) # NoKey
                                   /\ KeyAt(pages, pl) = TableKey(t)
                                   /\ At(pages, pl).extractor # t.candidate}
        first == CHOOSE pl \in hits : \A q \in hits : NotAfter(pl, q)
    IN  IF hits = {} THEN Appended(acc, t) ELSE MergedAt(acc, first, t)

\* The tables of one candidate, one after the other.
PlaceTables(start, tables) ==
    LET after[n \in 0..Len(tables)] ==
            IF n = 0 THEN start ELSE PlaceTable(after[n - 1], tables[n])
    IN  after[Len(tables)]

\* The n-th candidate's tables, if it has the selected name.
PlaceCandidate(acc, report, n) ==
    LET c == report.candidates[n]
    IN  IF c.ok /\ c.name = report.selected THEN PlaceTables(acc, CandidateTables(c)) ELSE acc

PlaceSelected(start, report) ==
    LET after[n \in 0..Len(report.candidates)] ==
            IF n = 0 THEN start ELSE PlaceCandidate(after[n - 1], report, n)
    IN  after[Len(report.candidates)]

\* A variant that leaves them in the document.
KeepStale(acc) == acc.pages

\* The fragments left over under the key of a selected table are dropped.
DropStale(acc) ==
    LET stale == {pl \in acc.free : KeyAt(acc.pages, pl) \in acc.keys}
        kept(p, c) == Picked(acc.pages[p][c],
                             {k \in DOMAIN acc.pages[p][c] : <<p, c, k>> \notin stale})
    IN  [p \in DOMAIN acc.pages |->
            [acc.pages[p] EXCEPT !.fragments = kept(p, "fragments"),
                                 !.regions = kept(p, "regions")]]

\* _parser_output_with_pdf_tables
WithPdfTables(output, report) ==
    LET keyed(pages) == {pl \in Places(pages) : KeyAt(pages, pl) # NoKey}
        start(pages) == [pages |-> pages, free |-> keyed(pages), keys |-> {}]
        placed(pages) == DropStale(PlaceSelected(start(pages), report))
    IN  IF report.selected = None THEN output
        ELSE [output EXCEPT !.pages = placed(AdaptV0Blocks(output).pages)]
=============================================================================
