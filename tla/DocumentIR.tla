----------------------------- MODULE DocumentIR -----------------------------
(***************************************************************************)
(* Document IR v1 (core/ir/document_ir_v1.py): how the output of a parser  *)
(* becomes pages and blocks with a review state, and how the result is     *)
(* validated.  Everything here is a pure function of the parser output.    *)
(*                                                                         *)
(* A parser output is a record                                             *)
(*   [pages, blocks, sheets, candidates, selected, mismatched, extractor]  *)
(* whose sequences are empty when the key is absent.  A page holds two     *)
(* sequences, fragments and regions; a fragment, a region, a Word block    *)
(* and a top-level v0 block share one record shape, Fragment.  Texts, rows *)
(* and extractor names are tokens, None when the key is absent; a bounding *)
(* box keeps its position, its unit (None: not given) and whether it lies  *)
(* within its page with finite coordinates.  A confidence is in            *)
(* thousandths.  A table of an extraction report keeps its candidate and   *)
(* how many of its cells are bounded: all, some or none.                   *)
(***************************************************************************)
EXTENDS Integers, Sequences, SequencesExt, FiniteSets, TLC

None == "none"
NoNumber == -1          \* an absent page number or confidence
Malformed == -2         \* a value that does not parse as a confidence

SOURCE_TYPES == {"pdf", "docx", "xlsx", "unknown"}
BLOCK_TYPES == {"heading", "paragraph", "table", "field", "footnote", "list_item"}
UNITS == {"pt", "px", "mm"}

\* The text the PDF parser gives to a page without a text layer.
EMPTY_PAGE_REVIEW_TEXT == "page_without_text"

NoBox == [at |-> None, unit |-> None, fits |-> TRUE]
Unit(box) == IF box.unit = None THEN "pt" ELSE box.unit

Fragment(kind, text, box, conf) ==
    [kind |-> kind, keep |-> FALSE, text |-> text, page |-> NoNumber,
     box |-> box, conf |-> conf, missing |-> FALSE, low |-> FALSE,
     review |-> FALSE, warnings |-> {}, extractor |-> None,
     engine |-> None, rows |-> None]

-----------------------------------------------------------------------------
\* The k-th smallest number of a set, for each k.
Ascending(S) ==
    [k \in 1..Cardinality(S) |-> CHOOSE n \in S : Cardinality({m \in S : m <= n}) = k]

\* The elements of a sequence at some of its places, in order.
Picked(s, places) ==
    LET at == Ascending(places) IN [k \in 1..Cardinality(places) |-> s[at[k]]]

\* Page numbers: an absent one takes the default; a malformed one is 0 already.
PageNumber(value, default) == IF value = NoNumber THEN default ELSE value

\* The declared name, or the fallback when there is none.
ExtractorName(f, fallback) ==
    CASE f.extractor # None -> f.extractor
      [] f.extractor = None /\ f.engine # None -> f.engine
      [] OTHER -> fallback

\* Confidence, in thousandths; an OCR engine reports percents.
Confidence(value, engine) ==
    CASE value = NoNumber  -> 950
      [] value = Malformed -> 0
      [] OTHER -> IF engine # None THEN value \div 100 ELSE value

-----------------------------------------------------------------------------
\* A top-level v0 block read as a page fragment: its page defaults to 0, a
\* missing confidence is recorded as such, and a box without a unit takes that
\* of its page (the last page of that number).
V0BlockFragment(b, pages) ==
    LET on == {i \in DOMAIN pages : PageNumber(pages[i].number, i) = PageNumber(b.page, 0)}
        page == pages[CHOOSE i \in on : \A j \in on : j <= i]
    IN
    [b EXCEPT !.box.unit = IF b.box.at = None \/ b.box.unit # None \/ on = {}
                           THEN b.box.unit ELSE page.unit,
              !.kind = IF b.kind = None THEN "paragraph" ELSE b.kind,
              !.keep = b.kind # None /\ b.kind \notin BLOCK_TYPES,
              !.page = PageNumber(b.page, 0),
              !.missing = (b.conf = NoNumber),
              !.engine = IF b.extractor # None THEN None ELSE b.engine]

\* A variant that overlooks a low confidence.
HasMetadataNotLow(f) == f.review \/ f.warnings # {} \/ f.rows # None

HasMergeMetadata(f) ==
    f.review \/ f.low \/ f.warnings # {} \/ f.rows # None

\* None when no type is given.
ExplicitType(f) ==
    CASE f.kind = None -> None
      [] f.kind \in BLOCK_TYPES -> f.kind
      [] f.kind # None /\ f.kind \notin BLOCK_TYPES /\ f.keep -> f.kind
      [] OTHER -> "paragraph"

V0Type(f) == IF ExplicitType(f) = None THEN "paragraph" ELSE ExplicitType(f)

NoMatch == 9

\* How well a v0 block matches a page fragment (0 is best): the same type,
\* text and extractor, and the same box if both have one.
MatchRank(target, source, fallback) ==
    LET typed == IF ExplicitType(target) = None
                 THEN V0Type(source) \in BLOCK_TYPES
                 ELSE ExplicitType(target) = V0Type(source)
        mine  == ExtractorName(target, fallback)
        yours == ExtractorName(source, fallback)
        boxed == target.box.at # None /\ source.box.at # None
    IN  IF /\ typed
           /\ target.text = source.text
           /\ mine = yours \/ mine = fallback
           /\ boxed => /\ target.box.at = source.box.at
                       /\ Unit(target.box) = Unit(source.box)
        THEN (IF boxed THEN 0 ELSE 2) + (IF mine = yours THEN 0 ELSE 1)
        ELSE NoMatch

\* The fragment with the review metadata of the matching v0 block.
WithV0Metadata(f, source) ==
    LET anonymous == f.extractor = None /\ f.engine = None
        takeConf == ~source.missing /\ source.conf # NoNumber
                    /\ (source.low \/ f.conf = NoNumber)
        named == IF anonymous
                 THEN [f EXCEPT !.extractor = source.extractor, !.engine = source.engine]
                 ELSE f
    IN  [named EXCEPT
           !.rows = IF f.rows = None THEN source.rows ELSE f.rows,
           !.review = f.review \/ source.review,
           !.low = f.low \/ source.low,
           !.kind = IF f.kind = None /\ V0Type(source) \in BLOCK_TYPES \ {"paragraph"}
                    THEN V0Type(source) ELSE f.kind,
           !.missing = f.missing \/ source.missing,
           !.conf = CASE source.missing -> NoNumber
                      [] takeConf -> source.conf
                      [] OTHER -> f.conf,
           !.extractor = IF takeConf /\ named.engine # None /\ named.extractor = None
                         THEN ExtractorName(source, named.engine) ELSE named.extractor,
           !.engine = IF takeConf THEN None ELSE named.engine,
           !.warnings = f.warnings \cup source.warnings]

\* Each fragment in turn takes the best of the blocks still unmatched.
MergeStep(fallback, acc, f) ==
    LET left == acc.left
        take(i) == [out |-> Append(acc.out, WithV0Metadata(f, left[i])),
                    left |-> RemoveAt(left, i)]
        best(rank, hits) == CHOOSE i \in hits : \A j \in hits :
                    rank[i] < rank[j] \/ (rank[i] = rank[j] /\ i <= j)
        merge(rank, hits) ==
            IF hits = {}
            THEN [acc EXCEPT !.out = Append(@, f)]
            ELSE take(best(rank, hits))
        ranked(rank) == merge(rank, {i \in DOMAIN left : rank[i] # NoMatch})
    IN  ranked([i \in DOMAIN left |-> MatchRank(f, left[i], fallback)])

MergeList(fs, blocks, fallback) ==
    LET after[n \in 0..Len(fs)] ==
            IF n = 0 THEN [out |-> <<>>, left |-> blocks]
            ELSE MergeStep(fallback, after[n - 1], fs[n])
    IN  after[Len(fs)]

\* Fragments first, then regions with the blocks that are left.
MergePage(page, blocks, fallback) ==
    LET marked == Picked(blocks, {i \in DOMAIN blocks : HasMergeMetadata(blocks[i])})
        regions(a) == [page EXCEPT !.fragments = a.out,
                          !.regions = MergeList(page.regions, a.left, fallback).out]
    IN  regions(MergeList(page.fragments, marked, fallback))

\* The blocks of a page; the first page also takes those of unknown pages.
BlocksOfPage(data, index) ==
    LET number(i) == PageNumber(data.pages[i].number, i)
        known == {number(i) : i \in DOMAIN data.pages}
        converted == [i \in DOMAIN data.blocks |-> V0BlockFragment(data.blocks[i], data.pages)]
        mine == {i \in DOMAIN converted : converted[i].page = number(index)}
        homeless == {i \in DOMAIN converted : converted[i].page \notin known}
    IN  Picked(converted, mine)
        \o (IF index = 1 THEN Picked(converted, homeless) ELSE <<>>)

AdaptPage(data, index) ==
    LET page == data.pages[index]
        blocks == BlocksOfPage(data, index)
        fallback == IF data.extractor = None THEN "unknown" ELSE data.extractor
    IN  IF page.fragments \o page.regions # <<>>
        THEN MergePage(page, blocks, fallback)
        ELSE IF blocks # <<>> THEN [page EXCEPT !.fragments = blocks] ELSE page

\* adapt_document_ir_v0_blocks
AdaptV0Blocks(data) ==
    IF data.pages = <<>> \/ data.blocks = <<>> THEN data
    ELSE [data EXCEPT !.pages = [i \in DOMAIN data.pages |-> AdaptPage(data, i)]]

-----------------------------------------------------------------------------
DefaultPage(number, fragments) ==
    [number |-> number, sized |-> TRUE, unit |-> "pt",
     fragments |-> fragments, regions |-> <<>>]

\* A sheet is one page holding one table without a bounding box.
SheetPage(sheet, number) ==
    DefaultPage(number,
        <<[Fragment("table", sheet, NoBox, NoNumber)
              EXCEPT !.extractor = "xlsx", !.rows = sheet]>>)

\* The box around the bounded cells of a table, when enough are bounded.
TableBox(t, enough) ==
    IF t.cells \in enough THEN [at |-> t.rows, unit |-> "pt", fits |-> TRUE] ELSE NoBox

\* The tables of a candidate, each with its name.
CandidateTables(c) ==
    [k \in DOMAIN c.tables |->
        [page |-> c.tables[k].page, rows |-> c.tables[k].rows, cells |-> c.tables[k].cells,
         candidate |-> c.name]]

\* The tables of some candidates, one after the other.
TablesOf(candidates) ==
    FlattenSeq([i \in DOMAIN candidates |-> CandidateTables(candidates[i])])

\* The candidates a bare table report is read from: the selected one, or every
\* one that succeeded when none is selected.
Readable(data, c) == c.ok /\ (data.selected = None \/ c.name = data.selected)

ReportNumbers(data) ==
    UNION {{PageNumber(data.candidates[i].tables[k].page, 1) :
              k \in DOMAIN data.candidates[i].tables} :
            i \in {i \in DOMAIN data.candidates : Readable(data, data.candidates[i])}}

\* A bare table report, page by page.
ReportPages(data) ==
    LET chosen == TablesOf(SelectSeq(data.candidates, LAMBDA c : Readable(data, c)))
        number(t) == PageNumber(t.page, 1)
        fragment(t) == [Fragment("table", t.rows, TableBox(t, {"all", "some"}), NoNumber)
                           EXCEPT !.page = number(t), !.extractor = t.candidate]
        on(n) == LET here == SelectSeq(chosen, LAMBDA t : number(t) = n)
                 IN  [i \in DOMAIN here |-> fragment(here[i])]
        pages(numbers) == [i \in DOMAIN numbers |-> DefaultPage(numbers[i], on(numbers[i]))]
    IN  pages(Ascending(ReportNumbers(data)))

\* _parser_pages
ParserPages(data, sourceType) ==
    CASE data.pages # <<>> -> AdaptV0Blocks(data).pages
      [] data.pages = <<>> /\ sourceType = "docx" /\ data.blocks # <<>> ->
            <<DefaultPage(1, data.blocks)>>
      [] data.pages = <<>> /\ sourceType = "xlsx" ->
            [i \in DOMAIN data.sheets |-> SheetPage(data.sheets[i], i)]
      [] data.pages = <<>> /\ sourceType = "pdf" -> ReportPages(data)
      [] OTHER -> <<>>

-----------------------------------------------------------------------------
\* The reasons for which a block is marked for review.
ReviewWarnings(f) ==
    {w \in {"bbox_missing", "text_empty", "confidence_missing",
            "confidence_invalid", "low_confidence", "parser_marked"} :
        CASE w = "bbox_missing" -> f.box.at = None
          [] w = "text_empty" -> f.text = None
          [] w = "confidence_missing" ->
                f.missing \/ (f.conf = NoNumber /\ f.engine # None)
          [] w = "confidence_invalid" -> f.conf = Malformed
          [] w = "low_confidence" -> f.low
          [] w = "parser_marked" -> f.review}
    \cup f.warnings

\* _block_from_fragment
BlockFromFragment(f, id, pageNumber, fallback) ==
    LET warnings == ReviewWarnings(f)
        zeroed == {"bbox_missing", "text_empty", "confidence_missing",
                   "confidence_invalid"}
    IN  [id |-> id,
         type |-> IF f.kind \in BLOCK_TYPES \/ f.keep THEN f.kind ELSE "paragraph",
         text |-> f.text,
         page |-> PageNumber(f.page, pageNumber),
         box |-> [at |-> f.box.at, unit |-> Unit(f.box), fits |-> f.box.fits],
         extractor |-> ExtractorName(f, fallback),
         conf |-> IF warnings \cap zeroed # {} THEN 0 ELSE Confidence(f.conf, f.engine),
         review |-> warnings # {},
         warnings |-> warnings,
         rows |-> f.rows]

\* The fragments of the pages in order, each with the number of its page.
ListedFragments(pages) ==
    FlattenSeq([i \in DOMAIN pages |->
        LET fs == pages[i].fragments \o pages[i].regions
        IN  [k \in DOMAIN fs |->
                [fragment |-> fs[k], page |-> PageNumber(pages[i].number, i)]]])

\* A document of these pages and blocks, with the warnings of its blocks.
Document(sourceType, pages, blocks) ==
    [source |-> sourceType,
     pages |-> [i \in DOMAIN pages |->
                   [number |-> PageNumber(pages[i].number, i), sized |-> pages[i].sized,
                    unit |-> pages[i].unit]],
     blocks |-> blocks,
     warnings |-> (UNION {blocks[i].warnings : i \in DOMAIN blocks})
         \cup (IF pages = <<>> THEN {"no_pages"} ELSE {})
         \cup (IF blocks = <<>> THEN {"no_blocks"} ELSE {})]

\* from_parser_output: the blocks of the pages in order, numbered through.
FromParserOutput(data, sourceType) ==
    LET fallback == IF data.extractor = None THEN "unknown" ELSE data.extractor
        blocks(listed) ==
            [n \in DOMAIN listed |->
                BlockFromFragment(listed[n].fragment, n, listed[n].page, fallback)]
        of(pages) == Document(sourceType, pages, blocks(ListedFragments(pages)))
    IN  of(ParserPages(data, sourceType))

-----------------------------------------------------------------------------
PageErrors(ir) ==
    {<<"page", i>> : i \in {i \in DOMAIN ir.pages :
        LET p == ir.pages[i] IN
        \/ ~(p.number >= 1)
        \/ \E j \in DOMAIN ir.pages : j < i /\ ir.pages[j].number = p.number
        \/ ~p.sized
        \/ p.unit \notin UNITS}}

\* A block whose page number is bad or undeclared is not checked further; a
\* page listed twice is looked up by its last entry.
BlockErrors(ir) ==
    LET on(b) == {i \in DOMAIN ir.pages : ir.pages[i].number = b.page}
        page(b) == ir.pages[CHOOSE i \in on(b) : \A j \in on(b) : j <= i]
        broken(b) == \/ b.type \notin BLOCK_TYPES
                     \/ ~(b.page >= 1)
                     \/ on(b) = {}
                     \/ /\ b.page >= 1 /\ on(b) # {}
                        /\ \/ ~b.box.fits
                           \/ b.box.unit \notin UNITS
                           \/ b.box.unit # page(b).unit
                           \/ b.conf > 1000
    IN  {<<"block", i>> : i \in {i \in DOMAIN ir.blocks : broken(ir.blocks[i])}}

\* validate_document_ir_v1
ValidateIR(ir) ==
    LET errors == PageErrors(ir) \cup BlockErrors(ir)
            \cup (IF ir.source \in SOURCE_TYPES THEN {} ELSE {<<"source", 0>>})
            \cup (IF ir.pages = <<>> THEN {<<"pages", 0>>} ELSE {})
        warnings == ir.warnings
            \cup (IF ir.blocks = <<>> THEN {"blocks_empty"} ELSE {})
    IN  [ok |-> errors = {},
         warnings |-> warnings,
         review |-> \/ errors # {}
                    \/ warnings # {}
                    \/ \E i \in DOMAIN ir.blocks : ir.blocks[i].review]
=============================================================================
