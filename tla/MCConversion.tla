---------------------------- MODULE MCConversion ----------------------------
(***************************************************************************)
(* Uploads and profile lists for model checking Conversion: small families *)
(* of requests, one for each path through the pipeline.  The run also      *)
(* checks automatic validation and the study evidence gate, which share no *)
(* state with the pipeline: a behaviour is one conversion, one validation  *)
(* or one study.                                                           *)
(***************************************************************************)
EXTENDS Conversion, MCTemplates, MCValidation, MCStudy

Base == [ext |-> "pdf", mode |-> "auto", format |-> None, llm |-> FALSE,
         ocr |-> FALSE, template |-> None, definition |-> NoTemplate,
         content |-> "file", declared |-> None, data |-> NoOutput,
         layer |-> <<>>]

Para == <<"paragraph", "t1">>
Tab(r) == <<"table", r>>
Layers == {<<a>> : a \in {<<>>, <<Para>>, <<Tab("r1")>>, <<Tab("r1"), Tab("r1")>>}}
    \cup {<<a, b>> : a \in {<<>>, <<Para>>, <<Tab("r1"), Para>>}, b \in {<<>>, <<Tab("r1")>>}}

Extract(p, r, c) == [page |-> p, rows |-> r, cells |-> c]
TableLists == {<<>>, <<Extract(1, "r1", "all")>>, <<Extract(1, "r1", "some")>>,
               <<Extract(1, "r1", "all"), Extract(1, "r1", "all")>>,
               <<Extract(1, "r2", "all"), Extract(3, "r1", "all")>>,
               <<Extract(2, "r1", "all"), Extract(1, None, "all")>>}
Candidate(n, ts) == [name |-> n, ok |-> TRUE, tables |-> ts]
Down(n) == [name |-> n, ok |-> FALSE, tables |-> <<>>]
CandidateLists ==
    {<<Candidate("camelot:lattice", a), Candidate("camelot:stream", b),
       Candidate("pdfplumber:table", c)>> : a, b, c \in TableLists}
    \cup {<<Down("camelot:lattice"), Candidate("camelot:stream", a),
            Candidate("pdfplumber:table", a)>> : a \in TableLists}
    \cup {<<Down("camelot:lattice"), Down("camelot:stream"), Down("pdfplumber:table")>>}

\* Requests: every mode with every output format, template and file type.
RequestUploads ==
    {[Base EXCEPT !.mode = m, !.format = f, !.template = t, !.ext = x, !.ocr = o,
                  !.layer = <<<<Para>>>>, !.content = c] :
        m \in {"auto", "pdf_to_excel", "pdf_to_word", "word_to_excel", "other_mode"},
        f \in {None, "json", "docx", "xlsx", "odd"}, t \in {None, "unknown"},
        x \in {"pdf", "docx"}, o \in BOOLEAN, c \in {"file", "corrupt", "no_dependency"}}

PdfUploads ==
    {[Base EXCEPT !.layer = l, !.mode = m] : l \in Layers, m \in {"auto", "pdf_to_word"}}
    \cup {[Base EXCEPT !.layer = l, !.mode = "pdf_to_excel", !.data.candidates = c] :
            l \in Layers, c \in CandidateLists}

BoxA == [at |-> "a", unit |-> None, fits |-> TRUE]
BoxB == [at |-> "b", unit |-> "pt", fits |-> TRUE]
BoxOut == [at |-> "a", unit |-> "pt", fits |-> FALSE]
F(kind, text, box) == Fragment(kind, text, box, 900)

PageFragments ==
    {F(None, "t1", BoxA), F("table", "r1", NoBox), F("heading", "t1", BoxB),
     [F("table", "r1", BoxA) EXCEPT !.rows = "r2"],
     [F(None, "t1", BoxA) EXCEPT !.engine = "tesseract", !.conf = 90000],
     [F(None, "t1", NoBox) EXCEPT !.engine = "tesseract", !.conf = NoNumber]}
OddFragments ==
    {F(None, None, BoxA), F("figure", "t1", BoxA), F(None, "t1", BoxOut),
     [F(None, "t1", BoxA) EXCEPT !.conf = Malformed],
     [F(None, "t1", BoxA) EXCEPT !.conf = 90000],
     [F(None, "t1", BoxA) EXCEPT !.page = 2],
     [F(None, "t1", BoxA) EXCEPT !.page = 0],
     [F("figure", "t1", BoxA) EXCEPT !.keep = TRUE],
     [F(None, "t1", BoxA) EXCEPT !.missing = TRUE]}
V0Blocks ==
    {[F("paragraph", "t1", BoxA) EXCEPT !.page = 1, !.review = TRUE, !.extractor = "x"],
     [F("paragraph", "t1", NoBox) EXCEPT !.page = 1, !.low = TRUE, !.engine = "x"],
     [F("table", "r1", NoBox) EXCEPT !.page = 7, !.warnings = {"parser"}],
     [F("table", "r1", BoxA) EXCEPT !.page = 2, !.rows = "r1"],
     [F(None, "t2", BoxA) EXCEPT !.page = 1, !.conf = NoNumber]}

Page(n, fs, rs) == [DefaultPage(n, fs) EXCEPT !.regions = rs]
Json == [Base EXCEPT !.ext = "other", !.content = "json", !.declared = "unknown"]
Short(S) == {<<>>} \cup {<<a>> : a \in S}

JsonUploads ==
    {[Json EXCEPT !.data.pages = <<Page(NoNumber, fs, rs)>>, !.data.blocks = bs] :
        fs \in Short(PageFragments) \cup {<<a, b>> : a, b \in PageFragments},
        rs \in Short({F(None, "t1", BoxA), F("table", "r1", NoBox)}),
        bs \in Short(V0Blocks) \cup {<<a, b>> : a, b \in V0Blocks}}
TwoPageUploads ==
    {[Json EXCEPT !.data.pages = <<Page(m, fs, <<>>), Page(2, gs, <<>>)>>,
                       !.data.blocks = bs, !.data.extractor = "x"] :
            m \in {1, 2, 0}, fs \in Short(PageFragments), gs \in Short(PageFragments),
            bs \in Short(V0Blocks)}
OddUploads ==
    {[Json EXCEPT !.data.pages = <<[Page(1, <<f>>, <<>>) EXCEPT !.unit = u, !.sized = s]>>,
                       !.declared = d] :
            f \in PageFragments \cup OddFragments, u \in {"pt", "px", "cm"},
            s \in BOOLEAN, d \in {"unknown", None, "odd"}}

OtherUploads ==
    {[Base EXCEPT !.ext = "docx", !.mode = m, !.data.blocks = bs] :
        m \in {"auto", "word_to_excel"},
        bs \in {<<a>> : a \in PageFragments} \cup {<<a, b>> : a, b \in PageFragments}}
    \cup {[Base EXCEPT !.ext = "xlsx", !.mode = m, !.data.sheets = s] :
            m \in {"auto", "excel_to_word"}, s \in {<<>>, <<"r1">>, <<"r1", "r1">>}}
    \cup {[Json EXCEPT !.content = c] : c \in {"binary", "text", "scalar"}}
    \cup {[Json EXCEPT !.declared = d, !.data.candidates = c, !.data.selected = s,
                       !.data.mismatched = b] :
            d \in {None, "pdf"}, s \in {None, "camelot:lattice", "camelot:stream"},
            b \in BOOLEAN,
            c \in {<<Candidate("camelot:lattice", a), Candidate("camelot:stream", e)>> :
                      a, e \in TableLists}}

\* Documents with a template.
Box(at) == [at |-> at, unit |-> "pt", fits |-> TRUE]
Templated(definition, fragments, source) ==
    [Json EXCEPT !.template = "t", !.definition = definition, !.declared = source,
                 !.data.pages = <<Page(1, fragments, <<>>)>>]
HeadBlock == F("heading", "title", Box("head"))
TemplateUploads ==
    {Templated(d, <<HeadBlock, F("paragraph", x, Box("here"))>>, "docx") :
        d \in RuleChoices \cup RiskChoices \cup KeyChoices \cup AnchorChoices,
        x \in {"good", "late", "partial", "odd"}}
DoubtedUploads ==
    {Templated(d, <<f, F("paragraph", "good", Box("here"))>>, "docx") :
            d \in {Record}, f \in {HeadBlock, [HeadBlock EXCEPT !.low = TRUE],
                                   F("heading", "title", NoBox)}}
BesideUploads ==
    {Templated(Beside(d, r), <<HeadBlock, F("paragraph", l, Box("here")),
                                   F(k, x, Box(p)), F("paragraph", y, Box(q))>>, "docx") :
            d \in {"right", "below", "left"}, r \in BOOLEAN, l \in {"lot", "broken"},
            k \in {"paragraph", "heading"}, x \in {"value", "note", "start", "name", "lot"},
            p \in {"beside", "under", "aside"}, y \in {"value", "start"},
            q \in {"farther", "under"}}
TabularUploads ==
    {Templated(Tabular(r), <<F("table", x, Box("here"))>>, s) :
            r \in {{}, {<<"step">>}, {<<"step">>, <<"status">>}}, x \in TableTexts,
            s \in {"docx", "pdf", "xlsx"}}

LlmUploads ==
    {[Base EXCEPT !.llm = TRUE, !.layer = l, !.mode = m] :
        l \in {<<<<Para>>>>, <<<<Para>>, <<>>>>}, m \in {"auto", "pdf_to_word"}}

MCUploads == <<RequestUploads, PdfUploads, JsonUploads, TwoPageUploads, OddUploads,
               OtherUploads, TemplateUploads, DoubtedUploads, BesideUploads, TabularUploads,
               LlmUploads>>

Profile(host) == [url |-> "ok", host |-> host, tls |-> FALSE, model |-> "m",
                  key |-> None, limits |-> TRUE]
MCProfileLists ==
    {<<>>, <<Profile("localhost")>>, <<[Profile("localhost") EXCEPT !.tls = TRUE]>>,
     <<Profile("10.0.0.5"), Profile("localhost")>>,
     <<Profile("127.0.0.1"), Profile("8.8.8.8")>>,
     <<Profile("fd00:ec2::254")>>, <<Profile("internal.example")>>,
     <<[Profile("localhost") EXCEPT !.url = "unset"], Profile("localhost")>>,
     <<[Profile("localhost") EXCEPT !.model = "unset"]>>,
     <<[Profile("localhost") EXCEPT !.limits = FALSE]>>,
     <<[Profile("127.0.0.1") EXCEPT !.key = "placeholder"]>>,
     <<[Profile("127.0.0.1") EXCEPT !.url = "bad"]>>}
MCDnsAnswers == {<<"127.0.0.1", "::1">>, <<"127.0.0.1", "8.8.8.8">>, <<"8.8.8.8">>, <<>>}

\* The resolver and the profiles only matter to requests that use the model.
ConversionInit == /\ Init
                  /\ ~upload.llm => profiles = <<>> /\ dns = <<>>
NoConversion == /\ upload = Base /\ stage = "idle" /\ parsed = Nothing /\ built = Nothing
                /\ result = Nothing /\ profiles = <<>> /\ dns = <<>> /\ LlmInit
NoValidation == request = NoRequest /\ decision = NoDecision
NoStudy == /\ study = NoStudyYet /\ retained = NothingRetained
           /\ phase = "none" /\ verdict = NoVerdict

MCInit == \/ ConversionInit /\ NoValidation /\ NoStudy
          \/ NoConversion /\ ValidationInit /\ NoStudy
          \/ NoConversion /\ NoValidation /\ StudyInit
MCNext == \/ Next /\ UNCHANGED <<validationVars, studyVars>>
          \/ Validate /\ UNCHANGED <<vars, studyVars>>
          \/ StudyNext /\ (phase' = "edited" => Editable) /\ UNCHANGED <<vars, validationVars>>
MCSpec == MCInit /\ [][MCNext]_<<vars, validationVars, studyVars>>
=============================================================================
