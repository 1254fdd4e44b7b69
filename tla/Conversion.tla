------------------------------ MODULE Conversion ------------------------------
(***************************************************************************)
(* One conversion (services/api/poc_web.py, convert_uploaded_document):    *)
(* the request is validated, the upload parsed, the Document IR built and  *)
(* validated, a plan asked of the local model (module LocalLlm), the       *)
(* primary artifact rendered and the result assembled with its review      *)
(* items.  The review store then registers the result's review targets     *)
(* and OCR policies.                                                       *)
(***************************************************************************)
EXTENDS PdfTables, LocalLlm, TemplateMapping

CONSTANTS
    Uploads     \* the requests a run converts: a sequence of families

\* The fields of a fragment and of a page.
FragmentShape(f) ==
    f = [kind |-> f.kind, keep |-> f.keep, text |-> f.text, page |-> f.page,
         box |-> f.box, conf |-> f.conf, missing |-> f.missing, low |-> f.low,
         review |-> f.review, warnings |-> f.warnings, extractor |-> f.extractor,
         engine |-> f.engine, rows |-> f.rows]

FragmentsTyped(fs) == IsSequence(fs) /\ \A k \in DOMAIN fs : FragmentShape(fs[k])

PageTyped(page) ==
    /\ page = [number |-> page.number, sized |-> page.sized, unit |-> page.unit,
               fragments |-> page.fragments, regions |-> page.regions]
    /\ FragmentsTyped(page.fragments) /\ FragmentsTyped(page.regions)

\* A request: a known file type is read by its parser, any other as text; its
\* parser output and text layer are lists of pages, blocks, sheets and lines,
\* its extracted tables have a page, rows and a verdict on their cells, and a
\* registered template has no two fields of one id.
UploadTyped(u) ==
    /\ u.ext \in {"pdf", "docx", "xlsx", "other"}
    /\ u.content \in IF u.ext = "other" THEN {"binary", "text", "scalar", "json"}
                     ELSE {"file", "corrupt", "no_dependency"}
    /\ DOMAIN u.data = DOMAIN NoOutput
    /\ IsSequence(u.data.pages) /\ \A p \in DOMAIN u.data.pages : PageTyped(u.data.pages[p])
    /\ FragmentsTyped(u.data.blocks)
    /\ IsSequence(u.data.sheets) /\ IsSequence(u.data.candidates)
    /\ IsSequence(u.layer) /\ \A p \in DOMAIN u.layer : IsSequence(u.layer[p])
    /\ \A i \in DOMAIN u.data.candidates :
          LET ts == u.data.candidates[i].tables
          IN  /\ IsSequence(ts)
              /\ \A k \in DOMAIN ts :
                    ts[k] = [page |-> ts[k].page, rows |-> ts[k].rows, cells |-> ts[k].cells]
    /\ LET fields == u.definition.fields
       IN  /\ IsSequence(fields)
           /\ \A i, j \in DOMAIN fields : fields[i].id = fields[j].id => i = j

ASSUME UploadsAssumption == \A i \in DOMAIN Uploads : \A u \in Uploads[i] : UploadTyped(u)

VARIABLES
    upload,     \* the request
    stage,      \* "accept", "parse", "build", "plan", "done" or "rejected"
    parsed,     \* the parser's output and warnings
    built,      \* the IR, its validation and the rows given to its tables
    result      \* the conversion result

convVars == <<upload, stage, parsed, built, result>>
vars == <<convVars, llmVars>>

Nothing == [none |-> TRUE]

-----------------------------------------------------------------------------
RequiredSource ==
    [auto |-> None, pdf_to_excel |-> "pdf", pdf_to_word |-> "pdf",
     word_to_excel |-> "docx", excel_to_word |-> "xlsx"]

ModeFormat ==
    [auto |-> None, pdf_to_excel |-> "xlsx", pdf_to_word |-> "docx",
     word_to_excel |-> "xlsx", excel_to_word |-> "docx"]

\* An unknown mode or format, a format that contradicts the mode, and an
\* unknown template are refused before the content is looked at.
RequestValid(u) ==
    /\ u.mode \in DOMAIN RequiredSource
    /\ u.format \in {None, "json", "docx", "xlsx"}
    /\ \/ u.format \in {None, "json"}
       \/ ModeFormat[u.mode] \in {None, u.format}
    /\ u.template # "unknown"

\* The format of the primary artifact, None when there is to be none.
PrimaryFormat(u) ==
    CASE u.format = "json" -> None
      [] u.format \in {"docx", "xlsx"} -> u.format
      [] OTHER -> ModeFormat[u.mode]

\* The type by the name of the file, else as declared, else by the shape.
SourceType(u, data) ==
    CASE u.ext # "other" -> u.ext
      [] u.ext = "other" /\ u.declared # None -> u.declared
      [] OTHER -> CASE data.blocks # <<>> -> "docx"
                    [] data.blocks = <<>> /\ data.sheets # <<>> -> "xlsx"
                    [] data.blocks = <<>> /\ data.sheets = <<>>
                          /\ data.candidates # <<>> -> "pdf"
                    [] OTHER -> "unknown"

\* A plain text is one block of low confidence.
PlainText == [NoOutput EXCEPT !.pages = <<DefaultPage(1,
    <<[Fragment(None, "text", [at |-> "text", unit |-> "pt", fits |-> TRUE], 500)
        EXCEPT !.low = TRUE]>>)>>]

Output(data, warnings) == [ok |-> TRUE, data |-> data, warnings |-> warnings]
Refused == [ok |-> FALSE, data |-> NoOutput, warnings |-> {}]

\* A file with a known extension: the extension picks the parser, and only the
\* conversion to Excel compares the table extractors.
ParseBinary(u) ==
    CASE u.content \in {"corrupt", "no_dependency"} -> Refused
      [] u.content = "file" /\ u.ext \in {"docx", "xlsx"} -> Output(u.data, {})
      [] u.content = "file" /\ u.ext = "pdf" ->
            LET text == AdaptV0Blocks(ParseTextPdf(u.layer))
                report == ExtractionReport(u.data.candidates)
            IN  IF u.mode # "pdf_to_excel"
                THEN Output(text, {})
                ELSE Output(WithPdfTables(text, report), PdfTableWarnings(report))

\* Any other file: a JSON parser output, a table report, or plain text.
ParseText(u) ==
    CASE u.content = "binary" -> Refused
      [] u.content = "text" -> Output(PlainText, {"plain_text"})
      [] u.content = "scalar" -> Output(PlainText, {"json_root"})
      [] u.content = "json" ->
            IF SourceType(u, u.data) # "pdf" \/ u.data.candidates = <<>>
            THEN Output(u.data, {})
            ELSE IF u.data.selected = None
            THEN Output(u.data, PdfTableWarnings(u.data))
            ELSE Output(WithPdfTables(NoOutput, u.data), PdfTableWarnings(u.data))

ParseUpload(u) == IF u.ext = "other" THEN ParseText(u) ELSE ParseBinary(u)

-----------------------------------------------------------------------------
\* The rows the parser saw for each table: those of page fragments first, then
\* of top-level blocks, which may also match under the root extractor's name.
TabbedTexts == {"r1", "r2"}
RowsOf(f) == IF f.rows # None THEN f.rows
             ELSE IF f.text \in TabbedTexts THEN f.text ELSE None

RowRecords(data) ==
    LET root == IF data.extractor = None THEN "unknown" ELSE data.extractor
        record(f, page, priority) ==
            [page |-> page, text |-> f.text, rows |-> RowsOf(f),
             extractor |-> ExtractorName(f, root), priority |-> priority, root |-> root]
        number(page, p) == IF page.number > 0 THEN page.number ELSE p
        tables(fs) == SelectSeq(fs, LAMBDA f : f.kind = "table" /\ RowsOf(f) # None)
        onPage(page, p) == LET fs == tables(page.fragments \o page.regions)
                           IN  [k \in DOMAIN fs |-> record(fs[k], number(page, p), 0)]
        inPages(pages) == FlattenSeq([p \in DOMAIN pages |-> onPage(pages[p], p)])
        top == LET fs == tables(data.blocks)
               IN  [k \in DOMAIN fs |->
                      record(fs[k], IF fs[k].page > 0 THEN fs[k].page ELSE 1, 10)]
        sheets == [i \in DOMAIN data.sheets |->
                     [page |-> i, text |-> data.sheets[i], rows |-> data.sheets[i],
                      extractor |-> "xlsx", priority |-> 0, root |-> root]]
    IN  inPages(AdaptV0Blocks(data).pages) \o top \o sheets

RowRank(r, b) ==
    CASE r.page # b.page \/ r.text # b.text -> 99
      [] r.page = b.page /\ r.text = b.text /\ r.extractor = b.extractor -> r.priority
      [] OTHER -> IF r.priority > 0 /\ b.extractor = r.root THEN r.priority + 1 ELSE 99

\* A variant in which a record serves several tables.
AnyRecord(records, used) == DOMAIN records

FreeRecords(records, used) == DOMAIN records \ used

\* Each table block takes the best record not taken yet.
AttachRows(ir, records) ==
    LET step(acc, b) ==
            LET hits == {i \in FreeRecords(records, acc.used) : RowRank(records[i], b) # 99}
                best == CHOOSE i \in hits : \A j \in hits :
                          \/ RowRank(records[i], b) < RowRank(records[j], b)
                          \/ RowRank(records[i], b) = RowRank(records[j], b) /\ i <= j
            IN  IF b.type # "table" \/ hits = {}
                THEN [acc EXCEPT !.rows = Append(@, b.rows)]
                ELSE [rows |-> Append(acc.rows, records[best].rows),
                      used |-> acc.used \cup {best}]
    IN  FoldLeft(step, [rows |-> <<>>, used |-> {}], ir.blocks).rows

-----------------------------------------------------------------------------
Item(id, page) == [id |-> id, page |-> page, trustedOcr |-> FALSE]

Textless(b) == b.text = EMPTY_PAGE_REVIEW_TEXT /\ b.conf = 0 /\ b.review

\* A variant that stops at the first such block.
OcrBoundaryFirst(ir) ==
    {i \in DOMAIN ir.blocks : /\ ir.source = "pdf" /\ Textless(ir.blocks[i])
                              /\ \A j \in 1..(i - 1) : ~Textless(ir.blocks[j])}

\* The blocks of pages without a text layer.
OcrBoundary(ir) ==
    {i \in DOMAIN ir.blocks : ir.source = "pdf" /\ Textless(ir.blocks[i])}

\* _review_items with the boundary attached.
BlockItems(ir) ==
    {[Item(<<"block", i>>, ir.blocks[i].page)
         EXCEPT !.trustedOcr = i \in OcrBoundary(ir)] :
       i \in {i \in DOMAIN ir.blocks : ir.blocks[i].review}}

FirstPage(ir) == IF ir.pages = <<>> THEN 1 ELSE ir.pages[1].number

\* Without a template nothing is mapped.
Mapping(u, ir) ==
    IF u.template = None THEN [fields |-> <<>>, output |-> {}, known |-> FALSE, review |-> FALSE]
    ELSE ApplyMapping(ir, u.definition)

\* One item per mapped field under review, one for the mapping if it alone is.
MappingItems(mapping, ir) ==
    LET doubtful == {f \in Range(mapping.fields) : f.review}
        page(f) == IF f.found.block \in DOMAIN ir.blocks THEN ir.blocks[f.found.block].page
                   ELSE FirstPage(ir)
    IN  IF doubtful # {} THEN {Item(<<"field", f.id>>, page(f)) : f \in doubtful}
        ELSE IF mapping.review THEN {Item(<<"mapping", 0>>, FirstPage(ir))} ELSE {}

\* A variant that leaves a replaced plan out of the review.
PlanItemsNone(ir, pc) == {}

\* The plan's item names the first page with a usable number, if any.
PlanItems(ir, pc) ==
    LET good == {p \in DOMAIN ir.pages : ir.pages[p].number >= 1}
        first == IF good = {} THEN NoNumber
                 ELSE ir.pages[CHOOSE p \in good : \A q \in good : p <= q].number
    IN  IF pc = "fallback" THEN {Item(<<"plan", 0>>, first)} ELSE {}

TableWarnings == {"tables_none_selected", "tables_disagree", "tables_unbounded",
                  "tables_unavailable"}

TableItems(ir, warnings) ==
    IF warnings \cap TableWarnings = {} THEN {}
    ELSE {Item(<<"tables", 0>>,
               IF ir.pages = <<>> THEN NoNumber ELSE ir.pages[1].number)}

\* The warnings whose wording contains "requires review".
ReviewWording == TableWarnings \cup {"plain_text", "json_root", "llm_fallback", "blocks_empty"}

Status(ok, review) ==
    CASE ~ok -> "blocked"
      [] ok /\ review -> "requires_review"
      [] OTHER -> "converted"

\* The conversion result: p is what the parser returned, b the document, pc how
\* the plan ended and rendered whether the artifact could be made.
ResultOf(u, p, b, pc, rendered) ==
    LET format == PrimaryFormat(u)
        primary == b.ok /\ format # None /\ rendered
        primaryWarning == format # None /\ ~primary
        warnings == p.warnings \cup b.warnings
            \cup (IF pc = "fallback" THEN {"llm_fallback"} ELSE {})
            \cup (IF u.ocr THEN {"ocr_unsupported"} ELSE {})
            \cup (IF primaryWarning THEN {"primary_missing"} ELSE {})
    IN  [status |-> IF primaryWarning THEN "blocked"
                    ELSE Status(b.ok, b.review \/ warnings \cap ReviewWording # {}),
         warnings |-> warnings,
         items |-> BlockItems(b.ir) \cup MappingItems(b.mapping, b.ir)
                       \cup PlanItems(b.ir, pc) \cup TableItems(b.ir, warnings),
         boundary |-> OcrBoundary(b.ir),
         artifacts |-> (IF primary THEN {"primary"} ELSE {}) \cup {"debug"}]

-----------------------------------------------------------------------------
Init == /\ \E i \in DOMAIN Uploads : upload \in Uploads[i]
        /\ stage = "accept"
        /\ parsed = Nothing
        /\ built = Nothing
        /\ result = Nothing
        /\ LlmInit

Accept ==
    /\ stage = "accept"
    /\ stage' = IF RequestValid(upload) THEN "parse" ELSE "rejected"
    /\ UNCHANGED <<upload, parsed, built, result, llmVars>>

\* A parser failure, and a source the mode does not accept, end the request.
Parse ==
    /\ stage = "parse"
    /\ parsed' = ParseUpload(upload)
    /\ LET needed == RequiredSource[upload.mode]
       IN  stage' = IF /\ parsed'.ok
                       /\ needed \in {None, SourceType(upload, parsed'.data)}
                    THEN "build" ELSE "rejected"
    /\ UNCHANGED <<upload, built, result, llmVars>>

\* The IR, the rows of its tables, its validation and the template's verdict;
\* then the plan is asked for, unless the model was not requested.
Build ==
    /\ stage = "build"
    /\ LET checked(ir, v, mapping) ==
               [ir |-> ir, rows |-> AttachRows(ir, RowRecords(parsed.data)),
                mapping |-> mapping, ok |-> v.ok, review |-> v.review \/ mapping.review,
                warnings |-> v.warnings \cup (IF mapping.review THEN {"mapping"} ELSE {})]
           record(ir) == checked(ir, ValidateIR(ir), Mapping(upload, ir))
       IN  built' = record(FromParserOutput(parsed.data, SourceType(upload, parsed.data)))
    /\ llm' = [Idle EXCEPT !.pc = IF upload.llm THEN "select" ELSE "disabled"]
    /\ stage' = "plan"
    /\ UNCHANGED <<upload, parsed, result, profiles, dns, dnsChanges, sent>>

Plan ==
    /\ stage = "plan"
    /\ LlmNext
    /\ UNCHANGED convVars

Rebind == /\ stage = "plan" /\ upload.llm /\ ~LlmDone
          /\ ResolverChanges
          /\ UNCHANGED convVars

\* An exception that no caller of the model handles ends the conversion.
PlanFails ==
    /\ stage = "plan"
    /\ llm.pc = "failed"
    /\ stage' = "rejected"
    /\ UNCHANGED <<upload, parsed, built, result, llmVars>>

\* Renders the primary artifact, which may fail.
Finish(rendered) ==
    /\ stage = "plan"
    /\ llm.pc \in {"disabled", "fallback", "adopted"}
    /\ result' = ResultOf(upload, parsed, built, llm.pc, rendered)
    /\ stage' = "done"
    /\ UNCHANGED <<upload, parsed, built, llmVars>>

Next == \/ Accept \/ Parse \/ Build \/ Plan \/ Rebind \/ PlanFails
        \/ \E r \in BOOLEAN : Finish(r)

Spec == Init /\ [][Next]_vars

-----------------------------------------------------------------------------
\* What the review store registers for a result: a target for each item with a
\* page, and for each item whether a trusted OCR run must precede approval.
ReviewTargets(r) == {i.id : i \in {i \in r.items : i.page >= 1}}

OcrPolicies(r) ==
    [id \in {i.id : i \in r.items} \cup {<<"block", b>> : b \in r.boundary} |->
        id[1] = "block" /\ id[2] \in r.boundary]

-----------------------------------------------------------------------------
\* A conversion answered "converted" leaves nothing for a person to look at:
\* no review item, no block without a place, a text or with a parser's doubt,
\* no plan that had to be replaced, the artifact the request asked for, and,
\* for a PDF turned into a workbook, table extractors that all ran and found
\* the same, fully bounded tables; with a template, every required field that
\* has an output key is in the output.
ConvertedIsClean ==
    (stage = "done" /\ result.status = "converted") =>
        /\ result.items = {}
        /\ \A i \in DOMAIN built.ir.blocks :
              LET b == built.ir.blocks[i]
              IN  b.box.at # None /\ b.text # None /\ b.warnings = {}
        /\ llm.pc # "fallback"
        /\ PrimaryFormat(upload) # None => "primary" \in result.artifacts
        /\ (upload.ext = "pdf" /\ upload.mode = "pdf_to_excel") =>
              LET cs == upload.data.candidates
              IN  /\ \A i \in DOMAIN cs : cs[i].ok
                  /\ \A i, j \in DOMAIN cs : cs[i].tables = cs[j].tables
                  /\ \A i \in DOMAIN cs : \A k \in DOMAIN cs[i].tables :
                        cs[i].tables[k].cells = "all"
        /\ upload.template # None =>
              \A i \in DOMAIN upload.definition.fields :
                 (upload.definition.fields[i].required /\ upload.definition.fields[i].key # <<>>) =>
                    \E o \in built.mapping.output : o.path = upload.definition.fields[i].key

\* A conversion that requires review can be reviewed: every item is a target
\* the review store accepts decisions for and, unless the document is empty,
\* there is an item.
ReviewIsActionable ==
    (stage = "done" /\ result.status = "requires_review") =>
        /\ {i.id : i \in result.items} = ReviewTargets(result)
        /\ built.ir.blocks # <<>> => result.items # {}

\* Every page of a PDF that has no text layer keeps, through both adaptations
\* of the parser output and the replacement of tables, a block that demands a
\* trusted OCR run, in the review items and in the review store's policies.
TextlessPagesHeld ==
    (stage = "done" /\ upload.ext = "pdf") =>
        \A p \in DOMAIN upload.layer : upload.layer[p] = <<>> =>
            \E b \in result.boundary :
                /\ built.ir.blocks[b].page = p
                /\ \E i \in result.items : i.id = <<"block", b>> /\ i.trustedOcr
                /\ OcrPolicies(result)[<<"block", b>>]
                /\ result.status # "converted"

\* When the tables of the selected extractor replace those of the text parser,
\* each of them is in the document exactly as often as it was extracted: none
\* lost, none left behind by the text parser under the same page and cells.
TablesExactlyOnce ==
    (stage \in {"plan", "done"} /\ upload.ext = "pdf" /\ upload.mode = "pdf_to_excel") =>
        LET report == ExtractionReport(upload.data.candidates)
            cs == report.candidates
            selected == {i \in DOMAIN cs : cs[i].ok /\ cs[i].name = report.selected}
            chosen == UNION {{<<i, k>> : k \in DOMAIN cs[i].tables} : i \in selected}
            key(x) == TableKey(cs[x[1]].tables[x[2]])
            blocks == built.ir.blocks
        IN  report.selected # None =>
              \A x \in chosen : key(x) # NoKey =>
                 Cardinality({y \in chosen : key(y) = key(x)})
                 = Cardinality({n \in DOMAIN blocks : /\ blocks[n].type = "table"
                                                      /\ blocks[n].page = key(x)[1]
                                                      /\ blocks[n].text = key(x)[2]})

\* The rows rendered for a table are its own: attaching the parser's records
\* never gives a table the rows of another one, in a valid document whose
\* fragments all name the page they are listed under.
RowsKept ==
    LET inPlace == \A p \in DOMAIN parsed.data.pages :
            LET page == parsed.data.pages[p]
                fs == page.fragments \o page.regions
            IN  \A k \in DOMAIN fs : fs[k].page \in {NoNumber, page.number}
    IN  (stage \in {"plan", "done"} /\ built.ok /\ inPlace) =>
            \A i \in DOMAIN built.ir.blocks :
                built.ir.blocks[i].rows # None => built.rows[i] = built.ir.blocks[i].rows

\* The doubt of a top-level v0 block reaches the document: if no other v0 block
\* has its text and its page has no fragments, or one that matches it, then a
\* block with that text is under review.
DoubtSurvives ==
    (stage \in {"plan", "done"} /\ upload.content = "json" /\ parsed.data.pages # <<>>) =>
        LET data == parsed.data
            root == IF data.extractor = None THEN "unknown" ELSE data.extractor
        IN  \A p \in DOMAIN data.pages : \A b \in Range(BlocksOfPage(data, p)) :
              (/\ b.review \/ b.low \/ b.warnings # {}
               /\ Cardinality({i \in DOMAIN data.blocks : data.blocks[i].text = b.text}) = 1
               /\ LET fs == data.pages[p].fragments \o data.pages[p].regions
                  IN  fs = <<>> \/ \E k \in DOMAIN fs : MatchRank(fs[k], b, root) # NoMatch)
              => \E i \in DOMAIN built.ir.blocks :
                    built.ir.blocks[i].text = b.text /\ built.ir.blocks[i].review

\* Every value of the mapped output was found in a document nothing of which is
\* under review, is of its type and of a risk that may pass, and satisfies all
\* its rules, those that refer to another field against a value that is itself
\* in the output; and no field that passed and has an output key is missing
\* from it.
ConfirmedOutputSound ==
    (stage \in {"plan", "done"} /\ upload.template = "t") =>
        LET t == upload.definition
            fields == built.mapping.fields
            found == [i \in DOMAIN fields |-> fields[i].found]
            passed == {i \in DOMAIN fields : ~fields[i].review /\ found[i].value # <<>>}
            values == ValuesOf(t, found, passed)
        IN  /\ built.mapping.output = {[path |-> t.fields[i].key, value |-> found[i].value] :
                                         i \in {i \in passed : t.fields[i].key # <<>>}}
            /\ passed # {} => /\ built.mapping.known
                              /\ \A k \in DOMAIN built.ir.blocks : ~built.ir.blocks[k].review
            /\ \A i \in passed :
                  LET f == t.fields[i]
                  IN  /\ f.risk \notin ALWAYS_REVIEW_RISK_LEVELS
                      /\ t.risk.declared => f.risk \in t.risk.levels \ t.risk.review
                      /\ MatchesType(found[i].value, f.vtype)
                      /\ f.rules \subseteq DOMAIN t.rules
                      /\ \A r \in f.rules :
                            Satisfies(found[i].value, t.rules[r], f.vtype, values)

\* A value read from a workbook's table stands in the column of its label, in
\* a row below it, when no cell in front of the value is empty.
ColumnValuesOwn ==
    (stage \in {"plan", "done"} /\ upload.template = "t") =>
        \A i \in DOMAIN upload.definition.fields :
            LET f == upload.definition.fields[i]
                v == built.mapping.fields[i].found
                rows == TableRows(built.ir.blocks[v.block].text, "xlsx")
            IN  (/\ f.direction = "table_cell" /\ v.value # <<>> /\ built.ir.source = "xlsx"
                 /\ \A c \in 1..(v.column - 1) : rows[v.row][c] # <<>>)
                => \E r \in 1..(v.row - 1) : rows[r][v.column] = f.label
=============================================================================
