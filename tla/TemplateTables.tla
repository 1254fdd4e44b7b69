--------------------------- MODULE TemplateTables ---------------------------
(***************************************************************************)
(* Reading a template field from a table: the header row that carries the  *)
(* required columns, the column of the field's label, and the first value  *)
(* below it (core/ir/template_fingerprint.py).                             *)
(*                                                                         *)
(* An anchor is [id, kind, text, mode, page, types]; its text may share    *)
(* its row with the column names.  Cells read from a workbook keep their   *)
(* physical column; cells of a document may be parts of one column name    *)
(* (merged), except in a PDF, whose extractors split columns themselves.   *)
(* Columns count from 1; an offset of 0 means the header starts at 1.      *)
(***************************************************************************)
EXTENDS TemplateText

Alignment == <<":---:">>
Blank(row) == \A i \in DOMAIN row : row[i] = <<>>

\* The rows of a table text; a workbook's rows are padded to the same width.
TableRows(text, source) ==
    LET written(lines) == Picked(lines, {i \in DOMAIN lines : ~Blank(lines[i])})
        width(rows) == CHOOSE n \in {Len(rows[i]) : i \in DOMAIN rows} :
                          \A i \in DOMAIN rows : Len(rows[i]) <= n
        padded(rows, columns) ==
            [i \in DOMAIN rows |->
                [c \in 1..columns |-> IF c <= Len(rows[i]) THEN rows[i][c] ELSE <<>>]]
        aligned(rows) == IF source # "xlsx" \/ rows = <<>> THEN rows
                         ELSE padded(rows, width(rows))
    IN  aligned(written(LinesOf(text)))

Merges(source) == source \notin {"pdf", "xlsx"}

RowMatchesAnchor(row, anchor) ==
    \/ TextMatches(anchor.text, FlattenSeq(row), anchor.mode)
    \/ \E i \in DOMAIN row : TextMatches(anchor.text, row[i], anchor.mode)

\* The first row with the anchor; the first row if there is none.
AnchorRow(rows, anchor) ==
    LET hits == {i \in DOMAIN rows : RowMatchesAnchor(rows[i], anchor)}
    IN  IF hits = {} THEN 1 ELSE FirstOf(hits)

\* The columns after the anchor's cell, or after the cells that make up its
\* text, and by how many columns they are shifted against the body: a title in
\* the first cell is taken to have no column of its own, unless the cells keep
\* their physical place.
ExcludingAnchor(row, anchor, keeps) ==
    LET cell == {i \in DOMAIN row : TextMatches(anchor.text, row[i], anchor.mode)}
        joined(i, j) == FlattenSeq(SubSeq(row, i, j))
        spans == {s \in DOMAIN row : \E e \in s..Len(row) :
                    TextMatches(anchor.text, joined(s, e), anchor.mode)}
        from == IF cell # {} THEN FirstOf(cell) ELSE FirstOf(spans)
        to == IF cell # {} THEN from
              ELSE FirstOf({e \in from..Len(row) :
                              TextMatches(anchor.text, joined(from, e), anchor.mode)})
    IN  CASE anchor.text = <<>> -> [columns |-> row, offset |-> 0]
          [] anchor.text # <<>> /\ cell \cup spans = {} -> [columns |-> <<>>, offset |-> 0]
          [] OTHER -> [columns |-> SubSeq(row, to + 1, Len(row)),
                       offset |-> IF keeps \/ from > 1 THEN to ELSE 0]

ColumnsAfterAnchor(row, anchor) ==
    LET unlessBlank(columns) == IF Blank(columns) THEN <<>> ELSE columns
    IN  unlessBlank(ExcludingAnchor(row, anchor, FALSE).columns)

-----------------------------------------------------------------------------
\* The column of a label and how many cells its name takes: a cell of that
\* name or, where cells may be merged, the first run of cells that spells it.
\* (0 when there is none.)
ColumnSpan(row, label, merges) ==
    LET exact == {i \in DOMAIN row : row[i] = label}
        step(acc, i) ==
            LET start == IF acc.name = <<>> THEN i ELSE acc.start
                name == acc.name \o row[i]
            IN  CASE acc.count > 0 -> acc
                  [] acc.count = 0 /\ name = label ->
                        [start |-> start, name |-> name, count |-> i - start + 1]
                  [] acc.count = 0 /\ name # label /\ HasPart(label, name) ->
                        [start |-> start, name |-> name, count |-> 0]
                  [] OTHER -> [start |-> i, name |-> row[i], count |-> 0]
        run == FoldLeft(step, [start |-> 0, name |-> <<>>, count |-> 0], [i \in DOMAIN row |-> i])
    IN  CASE exact # {} -> [at |-> FirstOf(exact), count |-> 1]
          [] exact = {} /\ merges /\ run.count > 0 -> [at |-> run.start, count |-> run.count]
          [] OTHER -> [at |-> 0, count |-> 0]

\* How many of the required columns a row names.
RowColumnScore(row, required, merges) ==
    LET names == {row[i] : i \in DOMAIN row} \ {<<>>}
        joined == {FlattenSeq(SubSeq(row, i, j)) : i \in DOMAIN row, j \in DOMAIN row}
    IN  Cardinality(required \cap (names \cup (IF merges THEN joined ELSE {})))

\* A cell broken over two rows: the last cell of one joined with the first of
\* the next.
WrappedRow(rows, i) ==
    LET row == rows[i] next == rows[i + 1]
    IN  Front(row) \o <<Last(row) \o Head(next)>> \o Tail(next)

Wrappable(rows, anchor) ==
    {i \in AnchorRow(rows, anchor)..(Len(rows) - 1) :
        Len(rows[i]) >= 2 /\ Len(rows[i + 1]) >= 2}

\* The rows that may hold the required columns: the anchor's row after the
\* anchor, and the first row below it when that one has nothing but a note.
HeaderRows(rows, anchor, required, merges) ==
    LET at == AnchorRow(rows, anchor)
        note(same) == Len(same) = 1 /\ same[1] \notin required /\ Len(same[1]) > 1
        below == {i \in (at + 1)..Len(rows) : ~(Len(rows[i]) = 1 /\ Cardinality(required) > 1)}
        whole(row) == IF RowMatchesAnchor(row, anchor)
                      THEN ColumnsAfterAnchor(row, anchor) ELSE row
        atOrBelow(same) ==
            (IF same = <<>> THEN {} ELSE {same})
            \cup (IF same # <<>> /\ (RowColumnScore(same, required, merges) = Cardinality(required)
                                     \/ ~note(same))
                  THEN {} ELSE IF below = {} THEN {} ELSE {rows[FirstOf(below)]})
        broken == {i \in Wrappable(rows, anchor) :
                     Last(rows[i]) \o Head(rows[i + 1]) \in required}
    IN  atOrBelow(IF rows = <<>> THEN <<>> ELSE ColumnsAfterAnchor(rows[at], anchor))
        \cup (IF merges THEN {whole(WrappedRow(rows, i)) : i \in broken} ELSE {})

\* The best number of required columns among those rows.
RequiredColumnScore(rows, anchor, required, merges) ==
    Max({RowColumnScore(r, required, merges) :
           r \in HeaderRows(rows, anchor, required, merges)} \cup {0})

-----------------------------------------------------------------------------
\* A header candidate: the row it ends at, its columns, their offset and the
\* rows that repeat it.
HeaderCandidate(row, header, offset, repeats) ==
    [row |-> row, header |-> header, offset |-> offset, repeats |-> repeats]

HeaderFragment(rows, i) == Len(rows[i]) = 1 /\ i < Len(rows) /\ Len(rows[i + 1]) > 1

\* The header at a given row, without the anchor in the anchor's own row.
HeaderAt(rows, i, anchor, keeps) ==
    LET header(cut) ==
            IF i = AnchorRow(rows, anchor) /\ cut.columns # <<>>
            THEN HeaderCandidate(i, cut.columns, cut.offset, <<cut.columns, rows[i]>>)
            ELSE HeaderCandidate(i, rows[i], 0, <<rows[i]>>)
    IN  header(ExcludingAnchor(rows[i], anchor, keeps))

WrappedCandidate(rows, i, anchor, keeps) ==
    LET whole == WrappedRow(rows, i)
        without(cut) == HeaderCandidate(i + 1, cut.columns, cut.offset,
                                        <<cut.columns, whole, rows[i], rows[i + 1]>>)
    IN  IF RowMatchesAnchor(whole, anchor)
        THEN without(ExcludingAnchor(whole, anchor, keeps))
        ELSE HeaderCandidate(i + 1, whole, 0, <<whole, rows[i], rows[i + 1]>>)

NoHeader == HeaderCandidate(0, <<>>, 0, <<>>)

\* _table_header_candidate: with required columns, the first candidate that
\* has them all, if it also has the label; otherwise the anchor's row or the
\* first row below it that is no fragment, if that has the label.
HeaderFor(rows, anchor, label, required, merges, keeps) ==
    LET at == AnchorRow(rows, anchor)
        below == {i \in (at + 1)..Len(rows) : ~HeaderFragment(rows, i)}
        wrapped == Ascending(IF merges THEN Wrappable(rows, anchor) ELSE {})
        whole == [k \in DOMAIN wrapped |-> WrappedCandidate(rows, wrapped[k], anchor, keeps)]
        plain(i) == HeaderCandidate(i, rows[i], 0, <<rows[i]>>)
        all == <<HeaderAt(rows, at, anchor, keeps)>>
               \o Picked(whole, {k \in DOMAIN whole : whole[k].header # <<>>})
               \o [k \in 1..Cardinality(below) |-> plain(Ascending(below)[k])]
        full(c) == /\ \/ c.row = at
                      \/ ~(Len(c.header) = 1 /\ c.row < Len(rows) /\ Len(rows[c.row + 1]) > 1)
                   /\ RowColumnScore(c.header, required, merges) = Cardinality(required)
        names(c) == ColumnSpan(c.header, label, merges).at > 0
        named(c) == IF names(c) THEN c ELSE NoHeader
        firstOf(candidates) ==
            LET hits == {k \in DOMAIN candidates : full(candidates[k])}
            IN  IF hits = {} THEN NoHeader ELSE named(candidates[FirstOf(hits)])
        sameRow == ColumnsAfterAnchor(rows[at], anchor)
    IN  CASE rows = <<>> -> NoHeader
          [] rows # <<>> /\ required # {} -> firstOf(all)
          [] OTHER ->
                IF ColumnSpan(sameRow, label, merges).at > 0
                THEN HeaderAt(rows, at, anchor, keeps)
                ELSE IF below # {} /\ ColumnSpan(rows[FirstOf(below)], label, merges).at > 0
                THEN HeaderAt(rows, FirstOf(below), anchor, keeps)
                ELSE NoHeader

-----------------------------------------------------------------------------
\* How many cells the anchor takes in front of the header, in its own row.
LeadingColumns(repeats) ==
    IF Len(repeats) < 2 THEN 0
    ELSE LET header == repeats[1] whole == repeats[2]
             n == Len(whole) - Len(header)
         IN  IF header # <<>> /\ n > 0 /\ SubSeq(whole, n + 1, Len(whole)) = header THEN n ELSE 0

\* A variant that takes the anchor's cells in a body row for empty.
ShiftedColumn(row, column, repeats) ==
    IF Len(row) >= column + LeadingColumns(repeats) THEN column + LeadingColumns(repeats)
    ELSE column

\* The place of a header's column in a body row, which may leave the anchor's
\* cells empty in front.
PhysicalColumn(row, column, repeats) ==
    LET n == LeadingColumns(repeats)
    IN  IF n > 0 /\ Len(row) >= column + n /\ Blank(SubSeq(row, 1, n))
        THEN column + n ELSE column

IsBodyRow(row, repeats) ==
    /\ ~(~Blank(row) /\ \A i \in DOMAIN row : row[i] \in {<<>>, Alignment})
    /\ \A k \in DOMAIN repeats :
          LET header == repeats[k] n == Len(row) - Len(header)
          IN  header = <<>> \/ n < 0 \/ SubSeq(row, n + 1, Len(row)) # header

CellValue(row, column, count) ==
    IF column > Len(row) THEN <<>>
    ELSE FlattenSeq(SubSeq(row, column, IF column + count - 1 < Len(row)
                                        THEN column + count - 1 ELSE Len(row)))

\* _first_table_body_value_at_physical_column_span
BodyValue(rows, h, column, count) ==
    LET place(i) == PhysicalColumn(rows[i], column, h.repeats)
        hits == {i \in (h.row + 1)..Len(rows) :
                   /\ IsBodyRow(rows[i], h.repeats)
                   /\ CellValue(rows[i], place(i), count) # <<>>}
    IN  IF hits = {} THEN NoValue
        ELSE [value |-> CellValue(rows[FirstOf(hits)], place(FirstOf(hits)), count),
              block |-> 0, row |-> FirstOf(hits), column |-> place(FirstOf(hits))]

\* _extract_template_table_cell, over the blocks that have all required columns.
TableCell(ir, field, anchor, anchorBlocks, required) ==
    LET rows(b) == TableRows(b.text, ir.source)
        merges == Merges(ir.source)
        complete(b) ==
            RequiredColumnScore(rows(b), anchor, required, merges) = Cardinality(required)
        usable == Picked(anchorBlocks, {i \in DOMAIN anchorBlocks :
                                          required = {} \/ complete(anchorBlocks[i])})
        found(b, v) == IF v.value = <<>> THEN NoValue ELSE [v EXCEPT !.block = b.id]
        under(b, h, span) ==
            IF h = NoHeader \/ span.at = 0 THEN NoValue
            ELSE found(b, BodyValue(rows(b), h, h.offset + span.at, span.count))
        below(b, h) == under(b, h, ColumnSpan(h.header, field.label, merges))
        read(b) == below(b, HeaderFor(rows(b), anchor, field.label, required, merges,
                                    ir.source = "xlsx"))
    IN  FirstFound([i \in DOMAIN usable |-> read(usable[i])])
=============================================================================
