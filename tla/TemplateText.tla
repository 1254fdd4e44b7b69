---------------------------- MODULE TemplateText ----------------------------
(***************************************************************************)
(* Reading a template field from the text near its anchor                  *)
(* (core/ir/template_fingerprint.py).                                      *)
(*                                                                         *)
(* A text is a sequence of lines, a line a sequence of cells (one cell     *)
(* where nothing separates columns), a cell a sequence of words; words are *)
(* compared without regard to case, as the code does.  What the code asks  *)
(* of a word's characters is given by the sets below.  The empty sequence  *)
(* stands for a missing value.                                             *)
(***************************************************************************)
EXTENDS DocumentIR

CONSTANTS
    TextContents,   \* the text behind a text token, as lines of cells of words
    BoxPlaces,      \* the rectangle behind a box token: [x, y, w, h]
    NumericWords,   \* words with a digit
    DigitWords,     \* those that start with one
    CapitalWords,   \* words that start with a capital letter
    LabelTokens,    \* the words that make a line a label (lot, date, ...)
    ShortMarkers,   \* labels and anchor texts of fewer than five letters
    NameWords       \* the words of labels whose value may be a proper name

IsSequence(s) == s \in Seq(Range(s))

ASSUME ContentsAssumption ==
    \A text \in DOMAIN TextContents :
        /\ IsSequence(TextContents[text])
        /\ \A l \in DOMAIN TextContents[text] : IsSequence(TextContents[text][l])

Colon == ":"

\* A text without contents, None among them, has no lines.
LinesOf(text) ==
    LET at(contents) == IF text \in DOMAIN contents THEN contents[text] ELSE <<>>
    IN  at(TextContents)
LineWords(line) == FlattenSeq(line)
Words(text) ==
    LET words(lines) == FlattenSeq([i \in DOMAIN lines |-> LineWords(lines[i])])
    IN  words(LinesOf(text))

NoPlace == [x |-> 0, y |-> 0, w |-> 0, h |-> 0]
PlaceOf(b) == IF b.box.at = None THEN NoPlace ELSE BoxPlaces[b.box.at]

HasPart(words, part) ==
    \E i \in 0..(Len(words) - Len(part)) : SubSeq(words, i + 1, i + Len(part)) = part

\* How a text matches an anchor.  Exact and normalized differ only in the line
\* breaks and separators they tolerate.
TextMatches(expected, line, mode) ==
    /\ expected # <<>> /\ line # <<>>
    /\ IF mode = "contains" THEN HasPart(line, expected) ELSE line = expected

-----------------------------------------------------------------------------
Occurs(marker, words, i) ==
    /\ marker # <<>>
    /\ i + Len(marker) - 1 <= Len(words)
    /\ SubSeq(words, i, i + Len(marker) - 1) = marker

\* An occurrence of a marker ends a value, or starts one, only where it looks
\* like a label: before a colon, at the start, after a colon or a number, or,
\* if long enough and capitalised, before a capitalised word or a number.
LabelLike(marker, words, i) ==
    LET next == i + Len(marker)
    IN  \/ next <= Len(words) /\ words[next] = Colon
        \/ i = 1
        \/ i > 1 /\ words[i - 1] \in NumericWords \cup {Colon}
        \/ /\ marker \notin ShortMarkers
           /\ marker[1] \in CapitalWords
           /\ next <= Len(words)
           /\ words[next] \in CapitalWords \cup NumericWords

LabelPositions(marker, words) ==
    {i \in DOMAIN words : Occurs(marker, words, i) /\ LabelLike(marker, words, i)}

FirstOf(S) == CHOOSE i \in S : \A j \in S : i <= j

WithoutColonsAtEnd(words) ==
    LET kept == {i \in DOMAIN words : words[i] # Colon}
    IN  IF kept = {} THEN <<>> ELSE SubSeq(words, 1, CHOOSE i \in kept : \A j \in kept : j <= i)

WithoutColonsAtStart(words) ==
    LET kept == {i \in DOMAIN words : words[i] # Colon}
    IN  IF kept = {} THEN <<>> ELSE SubSeq(words, FirstOf(kept), Len(words))

\* The value before the next label of another field or anchor.
BeforeNextMarker(words, stops) ==
    LET ends == UNION {LabelPositions(m, words) : m \in stops}
    IN  IF ends = {} THEN words
        ELSE WithoutColonsAtEnd(SubSeq(words, 1, FirstOf(ends) - 1))

HasLabelToken(words) == \E i \in DOMAIN words : words[i] \in LabelTokens

\* "Some Label: value", "note: value".
LooksLikeLabelOrNote(words) ==
    \E k \in 2..(Len(words) - 1) :
        LET label == SubSeq(words, 1, k - 1)
        IN  /\ words[k] = Colon /\ ~HasPart(label, <<Colon>>)
            /\ label[1] \notin DigitWords
            /\ \/ Len(label) > 1 /\ label[1] \in CapitalWords
               \/ HasLabelToken(label)

LooksLikeStandaloneLabel(words) ==
    /\ Len(words) \in 1..5
    /\ \A i \in DOMAIN words : words[i] \notin NumericWords \cup {Colon}
    /\ HasLabelToken(words)

LooksLikeSectionHeading(words) ==
    /\ Len(words) >= 2
    /\ \A i \in DOMAIN words : words[i] \in CapitalWords \ NumericWords

\* A label at the end of its line takes its value from the next line.
NextLineValue(lines, l, stops) ==
    IF l = Len(lines) THEN <<>>
    ELSE LET value == BeforeNextMarker(LineWords(lines[l + 1]), stops)
         IN  IF LooksLikeLabelOrNote(value) \/ LooksLikeStandaloneLabel(value)
             THEN <<>> ELSE value

\* _value_after_marker: the first occurrence that has a value.
ValueAfterMarker(lines, label, stops) ==
    LET value(l, i) ==
            LET words == LineWords(lines[l])
                rest == BeforeNextMarker(
                          WithoutColonsAtStart(SubSeq(words, i + Len(label), Len(words))), stops)
            IN  IF rest # <<>> THEN rest ELSE NextLineValue(lines, l, stops)
        at(l) == {i \in LabelPositions(label, LineWords(lines[l])) : value(l, i) # <<>>}
        places == UNION {{<<l, i>> : i \in at(l)} : l \in DOMAIN lines}
        first(S) == CHOOSE p \in S : \A q \in S :
                        p[1] < q[1] \/ (p[1] = q[1] /\ p[2] <= q[2])
        valueAt(p) == value(p[1], p[2])
        read(S) == IF S = {} THEN <<>> ELSE valueAt(first(S))
    IN  read(places)

StartsWith(words, markers) == \E m \in markers : Occurs(m, words, 1)

-----------------------------------------------------------------------------
NoValue == [value |-> <<>>, block |-> 0, row |-> 0, column |-> 0]
Found(value, b) == [NoValue EXCEPT !.value = value, !.block = b.id]

Stop == <<"stop">>

\* A block to the right of the anchor: a labelled value, else its own text.  A
\* block that starts with another label ends the search in this row.
RightValue(b, label, anchorText, stops) ==
    LET words == Words(b.text)
        plain == BeforeNextMarker(words, stops)
        value(labelled) ==
          CASE b.type \in {"heading", "table"} -> <<>>
            [] b.type \notin {"heading", "table"} /\ labelled # <<>> -> labelled
            [] OTHER -> CASE StartsWith(words, {label, anchorText}) -> <<>>
                          [] ~StartsWith(words, {label, anchorText})
                                /\ StartsWith(words, stops) -> Stop
                          [] OTHER -> IF LooksLikeLabelOrNote(plain) THEN <<>> ELSE plain
    IN  value(ValueAfterMarker(LinesOf(b.text), label, stops))

\* A block below the anchor: a labelled value or, when the anchor is the label
\* itself, one line of text that is neither a label nor a heading.
BelowValue(b, label, anchorText, stops) ==
    LET lines == LinesOf(b.text)
        value == BeforeNextMarker(Words(b.text), stops)
        titled == \E i \in DOMAIN label : label[i] \in NameWords
        unlabelled == /\ label = anchorText
                      /\ ~StartsWith(Words(b.text), stops)
                      /\ b.type \in {"paragraph", "field"}
                      /\ Len(value) <= Len(lines[1][1])
                      /\ ~LooksLikeLabelOrNote(value)
                      /\ value # label
                      /\ (LooksLikeSectionHeading(value) => titled)
        among(labelled) == CASE labelled # <<>> -> labelled
                             [] labelled = <<>> /\ lines # <<>> /\ unlabelled -> value
                             [] OTHER -> <<>>
    IN  among(ValueAfterMarker(lines, label, stops))

-----------------------------------------------------------------------------
Overlap(a, lenA, b, lenB) ==
    (IF a + lenA < b + lenB THEN a + lenA ELSE b + lenB) > (IF a > b THEN a ELSE b)

\* The same row of text: overlapping, their tops at most half the smaller
\* height, or 4 points, apart.
ShareTextRow(p, q) ==
    LET dy == IF p.y > q.y THEN p.y - q.y ELSE q.y - p.y
        h == IF p.h < q.h THEN p.h ELSE q.h
    IN  /\ Overlap(p.y, p.h, q.y, q.h)
        /\ dy <= 4 \/ 2 * dy <= h

RightSideBlocks(blocks, a) ==
    LET p == PlaceOf(a)
        right(b) == /\ b.id # a.id /\ b.page = a.page
                    /\ PlaceOf(b).x >= p.x + p.w
                    /\ ShareTextRow(PlaceOf(b), p)
        before(b, c) ==
            LET u == PlaceOf(b) v == PlaceOf(c)
            IN  \/ u.x < v.x
                \/ u.x = v.x /\ (u.y < v.y \/ (u.y = v.y /\ b.id <= c.id))
    IN  SortSeq(SelectSeq(blocks, right), before)

\* Below a heading or table anchor: everything up to the next heading or table;
\* below a label: the first block in its column, unless it is one of those.
BelowBlocks(blocks, a, anchor) ==
    LET p == PlaceOf(a)
        before(b, c) ==
            LET u == PlaceOf(b) v == PlaceOf(c)
            IN  \/ u.y < v.y
                \/ u.y = v.y /\ (u.x < v.x \/ (u.x = v.x /\ b.id <= c.id))
        below == SortSeq(SelectSeq(blocks, LAMBDA b : /\ b.id # a.id /\ b.page = a.page
                                                      /\ PlaceOf(b).y > p.y), before)
        column == SelectSeq(below, LAMBDA b : Overlap(PlaceOf(b).x, PlaceOf(b).w, p.x, p.w))
        ends(s) == {i \in DOMAIN s : s[i].type \in {"heading", "table"}}
        section(s) == IF ends(s) = {} THEN s ELSE SubSeq(s, 1, FirstOf(ends(s)) - 1)
    IN  IF anchor.kind # "label" THEN section(below)
        ELSE section(IF column = <<>> THEN <<>> ELSE <<column[1]>>)

FirstFound(s) ==
    LET hits == {i \in DOMAIN s : s[i].value # <<>>}
    IN  IF hits = {} THEN NoValue ELSE s[FirstOf(hits)]

\* _extract_template_nearby_field
NearbyField(blocks, field, anchor, anchorBlocks, stops) ==
    LET same == [i \in DOMAIN anchorBlocks |->
                    Found(ValueAfterMarker(LinesOf(anchorBlocks[i].text), field.label, stops),
                          anchorBlocks[i])]
        right(a) ==
            LET s == RightSideBlocks(blocks, a)
                ended(v) == {i \in DOMAIN v : v[i].value = Stop}
                upTo(v) == IF ended(v) = {} THEN v ELSE SubSeq(v, 1, FirstOf(ended(v)) - 1)
            IN  FirstFound(upTo([i \in DOMAIN s |->
                    Found(RightValue(s[i], field.label, anchor.text, stops), s[i])]))
        below(a) ==
            LET s == BelowBlocks(blocks, a, anchor)
            IN  FirstFound([i \in DOMAIN s |->
                    Found(BelowValue(s[i], field.label, anchor.text, stops), s[i])])
        orElse(v, w) == IF v.value # <<>> THEN v ELSE w
        each(op(_)) == FirstFound([i \in DOMAIN anchorBlocks |-> op(anchorBlocks[i])])
    IN  CASE field.direction = "same_block" -> FirstFound(same)
          [] field.direction = "right" -> orElse(FirstFound(same), each(right))
          [] field.direction = "below" -> each(below)
          [] OTHER -> NoValue
=============================================================================
