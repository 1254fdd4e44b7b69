-------------------------- MODULE ConversionProofs ---------------------------
(***************************************************************************)
(* Proofs about conversions: where the document text may be sent, what the *)
(* answer to a conversion leaves out, and what becomes of the pages, the   *)
(* tables, the doubts and the values of a parser output on their way into  *)
(* the document and the mapped fields.                                     *)
(***************************************************************************)
EXTENDS Conversion, FiniteSetTheorems, WellFoundedInduction, TLAPS

-----------------------------------------------------------------------------
(* The plan asked of the local model.                                      *)

Local == Loopback \cup Private

LEMMA LocalBaseUrlIsLocal ==
    ASSUME NEW p, NEW answer \in Seq(STRING)
    PROVE  LocalBaseUrl(p, answer) \in Seq(Local)
<1>1. CASE p.url # "ok"
  <2>1. LocalBaseUrl(p, answer) = <<>>
    BY <1>1, Zenon DEF LocalBaseUrl
  <2> QED BY <2>1
<1>2. CASE p.url = "ok" /\ p.host = "localhost"
  <2>1. LocalBaseUrl(p, answer) =
            IF \A i \in DOMAIN answer : answer[i] \in Loopback THEN answer ELSE <<>>
    BY <1>2, Zenon DEF LocalBaseUrl
  <2>2. CASE \A i \in DOMAIN answer : answer[i] \in Loopback
    <3>1. answer \in Seq(Local)
      BY <2>2 DEF Local
    <3> QED BY <2>1, <2>2, <3>1, Zenon
  <2>3. CASE ~ \A i \in DOMAIN answer : answer[i] \in Loopback
    BY <2>1, <2>3
  <2> QED BY <2>2, <2>3
<1>3. CASE p.url = "ok" /\ p.host # "localhost"
  <2>1. LocalBaseUrl(p, answer) = IF IsLocalRuntimeAddress(p.host) THEN <<p.host>> ELSE <<>>
    BY <1>3, Zenon DEF LocalBaseUrl
  <2>2. CASE IsLocalRuntimeAddress(p.host)
    <3>1. <<p.host>> \in Seq(Local)
      BY <2>2 DEF IsLocalRuntimeAddress, Local
    <3> QED BY <2>1, <2>2, <3>1, Zenon
  <2>3. CASE ~IsLocalRuntimeAddress(p.host)
    BY <2>1, <2>3
  <2> QED BY <2>2, <2>3
<1> QED BY <1>1, <1>2, <1>3

(* The addresses are resolved, checked and pinned before the first request *)
(* and only they are attempted, by the repair request as well.             *)
Pinned ==
    /\ dns \in Seq(STRING)
    /\ {"pc", "pinned", "attempt"} \subseteq DOMAIN llm
    /\ llm.attempt \in Nat \ {0}
    /\ llm.pinned \in Seq(Local)
    /\ llm.pc \in {"select", "resolve"} => llm.attempt = 1
    /\ llm.pc = "send" => llm.attempt \in 1..Len(llm.pinned)
    /\ sent \subseteq Local

LEMMA PinnedFallback ==
    ASSUME Pinned, UNCHANGED dns, sent' \subseteq Local, NEW reason, Fallback(reason)
    PROVE  Pinned'
  BY DEF Pinned, Fallback

LEMMA PinnedCheck ==
    ASSUME Pinned, CheckProfile
    PROVE  Pinned'
<1> DEFINE judged == ProfileVerdict(profiles[llm.check], dns)
<1>1. UNCHANGED <<profiles, dns, sent>> /\ llm.pc = "select"
  BY Zenon DEF CheckProfile
<1>2. CASE judged \notin {"none", "unset"}
  <2>1. Fallback(judged)
    BY <1>2, Zenon DEF CheckProfile
  <2>2. sent' \subseteq Local
    BY <1>1 DEF Pinned
  <2> HIDE DEF judged
  <2> QED BY <1>1, <2>1, <2>2, PinnedFallback
<1>3. CASE judged = "unset"
  <2>1. llm' = [llm EXCEPT !.check = @ + 1]
    BY <1>3, Zenon DEF CheckProfile
  <2> QED BY <1>1, <2>1 DEF Pinned
<1>4. CASE judged = "none"
  <2>1. llm' = [llm EXCEPT !.check = @ + 1, !.profile = IF @ = 0 THEN llm.check ELSE @]
    <3>1. "none" # "unset"
      OBVIOUS
    <3> QED BY <1>4, <3>1, Zenon DEF CheckProfile
  <2> QED BY <1>1, <2>1 DEF Pinned
<1> HIDE DEF judged
<1> QED BY <1>2, <1>3, <1>4

LEMMA PinnedSelection ==
    ASSUME Pinned, SelectionDone
    PROVE  Pinned'
<1>1. UNCHANGED <<dns, sent>>
  BY DEF SelectionDone
<1>2. CASE llm.profile = 0
  <2>1. sent' \subseteq Local
    BY <1>1 DEF Pinned
  <2> QED BY <1>1, <1>2, <2>1, PinnedFallback DEF SelectionDone
<1>3. CASE llm.profile # 0
  BY <1>1, <1>3 DEF Pinned, SelectionDone
<1> QED BY <1>2, <1>3

LEMMA PinnedResolve ==
    ASSUME Pinned, Resolve
    PROVE  Pinned'
<1> DEFINE urls == LocalBaseUrl(profiles[llm.profile], dns)
<1>1. UNCHANGED <<dns, sent>> /\ llm.pc = "resolve" /\ sent' \subseteq Local
  BY DEF Resolve, Pinned
<1>2. urls \in Seq(Local)
  BY LocalBaseUrlIsLocal DEF Pinned
<1>3. CASE urls = <<>>
  BY <1>1, <1>3, PinnedFallback DEF Resolve
<1>4. CASE urls # <<>>
  <2>1. llm' = [llm EXCEPT !.pc = "send", !.pinned = urls]
    BY <1>4 DEF Resolve
  <2> HIDE DEF urls
  <2>2. Len(urls) \in Nat \ {0}
    BY <1>2, <1>4
  <2> QED BY <1>1, <1>2, <2>1, <2>2 DEF Pinned
<1> QED BY <1>3, <1>4

LEMMA PinnedNext ==
    ASSUME Pinned, UNCHANGED dns, sent' \subseteq Local, llm.pc = "send", NextAddress
    PROVE  Pinned'
<1>1. CASE llm.attempt < Len(llm.pinned)
  <2>1. llm' = [llm EXCEPT !.attempt = @ + 1]
    BY <1>1 DEF NextAddress
  <2> QED BY <1>1, <2>1 DEF Pinned
<1>2. CASE ~(llm.attempt < Len(llm.pinned))
  <2>1. Fallback("runtime_unavailable")
    BY <1>2 DEF NextAddress
  <2> QED BY <2>1, PinnedFallback
<1> QED BY <1>1, <1>2

(* A request goes to a pinned address, and its answer changes none.        *)
LEMMA PinnedSend ==
    ASSUME Pinned, NEW answer \in Answers, SendRequest(answer)
    PROVE  Pinned'
<1>1. llm.pc = "send" /\ UNCHANGED dns
  BY Zenon DEF SendRequest
<1>2. sent' \subseteq Local
  <2>1. Destination \in Local
    BY <1>1 DEF Destination, Pinned
  <2>2. sent' = IF answer = "unreachable" THEN sent ELSE sent \cup {Destination}
    BY Zenon DEF SendRequest
  <2> QED BY <2>1, <2>2 DEF Pinned
<1>3. CASE answer \in {"unreachable", "redirect", "http_error"}
  <2>1. NextAddress
    BY <1>3, Zenon DEF SendRequest
  <2> QED BY <1>1, <1>2, <2>1, PinnedNext
<1>4. CASE answer = "read_timeout"
  <2>1. "read_timeout" \notin {"unreachable", "redirect", "http_error"}
    OBVIOUS
  <2>2. NextAddress \/ llm' = [llm EXCEPT !.pc = "failed"]
    BY <1>4, <2>1, Zenon DEF SendRequest
  <2>3. CASE llm' = [llm EXCEPT !.pc = "failed"]
    BY <1>1, <1>2, <2>3 DEF Pinned
  <2> QED BY <1>1, <1>2, <2>2, <2>3, PinnedNext
<1>5. CASE answer \in {"no_plan", "invalid_plan", "valid_plan"}
  <2>1. /\ answer \notin {"unreachable", "redirect", "http_error", "read_timeout"}
        /\ "no_plan" # "invalid_plan" /\ "no_plan" # "valid_plan"
        /\ "invalid_plan" # "valid_plan"
    BY <1>5
  <2>2. CASE answer = "no_plan"
    <3>1. Fallback("schema_invalid")
      BY <2>1, <2>2, Zenon DEF SendRequest
    <3> QED BY <1>1, <1>2, <3>1, PinnedFallback
  <2>3. CASE answer = "invalid_plan"
    <3>1. \/ llm' = [llm EXCEPT !.request = 2, !.attempt = 1]
          \/ Fallback("schema_invalid")
      BY <2>1, <2>3, Zenon DEF SendRequest
    <3>2. CASE llm' = [llm EXCEPT !.request = 2, !.attempt = 1]
      BY <1>1, <1>2, <3>2 DEF Pinned
    <3> QED BY <1>1, <1>2, <3>1, <3>2, PinnedFallback
  <2>4. CASE answer = "valid_plan"
    <3>1. llm' = [llm EXCEPT !.pc = "adopted"]
      BY <2>1, <2>4, Zenon DEF SendRequest
    <3> QED BY <1>1, <1>2, <3>1 DEF Pinned
  <2> QED BY <1>5, <2>2, <2>3, <2>4
<1> QED BY <1>3, <1>4, <1>5 DEF Answers

(***************************************************************************)
(* Whatever profiles are configured, and whatever the resolver and the     *)
(* endpoint answer between the checks of a profile, the plan request and   *)
(* its repair, the text of the document goes to an address of this host or *)
(* of a private network only (_local_base_url, _send_local_llm_request).   *)
(***************************************************************************)
THEOREM TextStaysLocal == Spec => []NoExternalTransmission
<1>1. Init => Pinned
  BY DnsAssumption DEF Init, LlmInit, Idle, Pinned
<1>2. Pinned /\ [Next]_vars => Pinned'
  <2> SUFFICES ASSUME Pinned, [Next]_vars PROVE Pinned'
    OBVIOUS
  <2>1. CASE UNCHANGED llmVars
    BY <2>1, Zenon DEF llmVars, Pinned
  <2>2. CASE Build
    <3>1. UNCHANGED <<dns, sent>> /\ llm' = [Idle EXCEPT !.pc = IF upload.llm THEN "select" ELSE "disabled"]
      BY <2>2, Zenon DEF Build
    <3>2. /\ {"pc", "pinned", "attempt"} \subseteq DOMAIN llm'
          /\ llm'.pc # "send" /\ llm'.pinned = <<>> /\ llm'.attempt = 1
      BY <3>1 DEF Idle
    <3>3. llm'.pinned \in Seq(Local) /\ llm'.attempt \in Nat \ {0}
      BY <3>2
    <3>4. dns' = dns /\ sent' = sent /\ dns \in Seq(STRING) /\ sent \subseteq Local
      BY <3>1 DEF Pinned
    <3> QED BY <3>2, <3>3, <3>4, Zenon DEF Pinned
  <2>3. CASE Plan
    <3>1. CheckProfile \/ SelectionDone \/ Resolve \/ \E answer \in Answers : SendRequest(answer)
      BY <2>3, Zenon DEF Plan, LlmNext
    <3> QED BY <3>1, PinnedCheck, PinnedSelection, PinnedResolve, PinnedSend, Zenon
  <2>4. CASE Rebind
    <3>1. dns' \in DnsAnswers /\ UNCHANGED <<llm, sent>>
      BY <2>4, Zenon DEF Rebind, ResolverChanges
    <3> QED BY <3>1, DnsAssumption DEF Pinned
  <2>5. CASE Accept \/ Parse \/ PlanFails \/ \E r \in BOOLEAN : Finish(r)
    BY <2>1, <2>5, Zenon DEF Accept, Parse, PlanFails, Finish
  <2>6. CASE UNCHANGED vars
    BY <2>1, <2>6, Zenon DEF vars
  <2> QED BY <2>2, <2>3, <2>4, <2>5, <2>6, Zenon DEF Next
<1>3. Pinned => NoExternalTransmission
  BY DEF Pinned, NoExternalTransmission, Local, Loopback, Private, Outside
<1> QED BY <1>1, <1>2, <1>3, PTL DEF Spec

-----------------------------------------------------------------------------
(* Induction and recursion on the natural numbers, without operators as    *)
(* parameters: the property is a set.                                       *)
LEMMA SetInduction ==
    ASSUME NEW T, 0 \in T, \A n \in Nat : n \in T => n + 1 \in T
    PROVE  \A n \in Nat : n \in T
<1> DEFINE R == {ss \in Nat \X Nat : ss[1] < ss[2]}
           Out == {n \in Nat : n \notin T}
<1> SUFFICES ASSUME Out # {} PROVE FALSE
  OBVIOUS
<1>1. IsWellFoundedOn(R, Nat)
  BY NatLessThanWellFounded DEF OpToRel
<1>2. Out \subseteq Nat
  OBVIOUS
<1>3. PICK x \in Out : \A y \in Out : <<y, x>> \notin R
  <2> HIDE DEF R, Out
  <2> QED BY <1>1, <1>2, WFMin, Zenon
<1>4. x \in Nat /\ x # 0 /\ x \notin T
  OBVIOUS
<1>5. x - 1 \in Nat /\ <<x - 1, x>> \in R
  BY <1>4
<1>6. x - 1 \in T
  BY <1>3, <1>5
<1>7. (x - 1) + 1 \in T
  <2> HIDE DEF R, Out
  <2> QED BY <1>5, <1>6, Zenon
<1> QED BY <1>4, <1>7

-----------------------------------------------------------------------------
(* Lists: functions on an initial segment of the positive numbers.         *)
Listed(s) == s = [i \in 1..Len(s) |-> s[i]] /\ Len(s) \in Nat

LEMMA SequenceIsListed ==
    ASSUME NEW s, IsSequence(s)
    PROVE  Listed(s) /\ DOMAIN s = 1..Len(s)
  BY DEF IsSequence, Listed

LEMMA ListIsSequence ==
    ASSUME NEW s, NEW n \in Nat, NEW T, s \in [1..n -> T]
    PROVE  s \in Seq(T) /\ Len(s) = n
  OBVIOUS

LEMMA FunctionIsListed ==
    ASSUME NEW s, NEW n \in Nat, s = [i \in 1..n |-> s[i]]
    PROVE  Listed(s) /\ DOMAIN s = 1..n /\ Len(s) = n /\ s \in Seq({s[i] : i \in 1..n})
<1>1. s \in [1..n -> {s[i] : i \in 1..n}]
  OBVIOUS
<1>2. s \in Seq({s[i] : i \in 1..n}) /\ Len(s) = n
  BY <1>1, ListIsSequence, Zenon
<1> QED BY <1>2 DEF Listed

LEMMA AppendIsListed ==
    ASSUME NEW s, NEW e, Listed(s)
    PROVE  Listed(Append(s, e))
<1> DEFINE T == {s[i] : i \in 1..Len(s)}
<1>1. s \in Seq(T)
  BY FunctionIsListed, Zenon DEF Listed
<1>2. s \in Seq(T \cup {e})
  <2> HIDE DEF T
  <2> QED BY <1>1
<1> DEFINE longer == Append(s, e)
<1>3. longer \in Seq(T \cup {e})
  <2> HIDE DEF T
  <2> QED BY <1>2
<1> HIDE DEF T, longer
<1>4. Listed(longer)
  BY <1>3 DEF Listed
<1> QED BY <1>4 DEF longer

LEMMA ChangeIsListed ==
    ASSUME NEW s, NEW t, Listed(s), t = [i \in DOMAIN s |-> t[i]]
    PROVE  Listed(t)
<1>1. DOMAIN s = 1..Len(s) /\ Len(s) \in Nat
  BY DEF Listed
<1>2. t = [i \in 1..Len(s) |-> t[i]]
  BY <1>1
<1> QED BY <1>1, <1>2, FunctionIsListed, Zenon

LEMMA NonemptyHasFirst ==
    ASSUME NEW s, Listed(s), s # <<>>
    PROVE  1 \in DOMAIN s /\ \A i \in DOMAIN s : 1 <= i
  BY DEF Listed

-----------------------------------------------------------------------------
(* The pages of a document are a list, whatever they were read from.       *)
TablesListed(data) ==
    /\ Listed(data.candidates)
    /\ \A i \in DOMAIN data.candidates : Listed(data.candidates[i].tables)

DataListed(data) ==
    /\ DOMAIN data = DOMAIN NoOutput
    /\ Listed(data.pages) /\ Listed(data.sheets) /\ TablesListed(data)

LEMMA NoOutputListed == DataListed(NoOutput)
<1>1. Listed(<<>>) /\ DOMAIN <<>> = {}
  BY DEF Listed
<1>2. NoOutput.pages = <<>> /\ NoOutput.sheets = <<>> /\ NoOutput.candidates = <<>>
  BY DEF NoOutput
<1> QED BY <1>1, <1>2, Zenon DEF DataListed, TablesListed

LEMMA PagesReplaced ==
    ASSUME NEW data, NEW pages, DataListed(data), Listed(pages)
    PROVE  /\ DataListed([data EXCEPT !.pages = pages])
           /\ [data EXCEPT !.pages = pages].pages = pages
<1>1. "pages" \in DOMAIN data
  BY DEF DataListed, NoOutput
<1> DEFINE d == [data EXCEPT !.pages = pages]
<1>2. DOMAIN d = DOMAIN data /\ d.pages = pages
  BY <1>1
<1>3. d.sheets = data.sheets /\ d.candidates = data.candidates
  <2>1. "sheets" \in DOMAIN data /\ "candidates" \in DOMAIN data
    BY DEF DataListed, NoOutput
  <2> QED BY <2>1
<1> HIDE DEF d
<1>4. DataListed(d) /\ d.pages = pages
  BY <1>2, <1>3, Zenon DEF DataListed, TablesListed
<1> QED BY <1>4 DEF d

LEMMA AdaptListed ==
    ASSUME NEW data, DataListed(data)
    PROVE  DataListed(AdaptV0Blocks(data))
<1> DEFINE pages == [i \in DOMAIN data.pages |-> AdaptPage(data, i)]
<1>1. Listed(pages)
  <2>1. Listed(data.pages) /\ pages = [i \in DOMAIN data.pages |-> pages[i]]
    BY DEF DataListed
  <2> HIDE DEF pages
  <2> QED BY <2>1, ChangeIsListed, Zenon
<1>2. DataListed([data EXCEPT !.pages = pages])
  <2> HIDE DEF pages
  <2> QED BY <1>1, PagesReplaced, Zenon
<1> QED BY <1>2, Zenon DEF AdaptV0Blocks

(* Placing tables appends pages and changes others, never their order.     *)
PlacesListed(acc) == "pages" \in DOMAIN acc /\ Listed(acc.pages)

LEMMA MergedListed ==
    ASSUME NEW acc, NEW pl, NEW t, PlacesListed(acc)
    PROVE  PlacesListed(MergedAt(acc, pl, t))
<1> DEFINE pages == [acc.pages EXCEPT ![pl[1]][pl[2]][pl[3]] = MergeTable(@, t)]
           changed == MergedAt(acc, pl, t)
<1>1. DOMAIN pages = DOMAIN acc.pages /\ pages = [i \in DOMAIN acc.pages |-> pages[i]]
  BY Zenon
<1>2. Listed(pages)
  <2> HIDE DEF pages
  <2> QED BY <1>1, ChangeIsListed, Zenon DEF PlacesListed
<1>3. changed.pages = pages /\ "pages" \in DOMAIN changed
  BY Zenon DEF MergedAt
<1> QED BY <1>2, <1>3, Zenon DEF PlacesListed

LEMMA WithTableListed ==
    ASSUME NEW pages, NEW number, NEW fresh, Listed(pages)
    PROVE  Listed(WithTable(pages, number, fresh))
<1> DEFINE on == {p \in DOMAIN pages : pages[p].number = number}
           last == CHOOSE p \in on : \A q \in on : q <= p
           changed == [pages[last] EXCEPT !.fragments = Append(@, fresh)]
           other == [pages EXCEPT ![last] = changed]
           added == DefaultPage(number, <<fresh>>)
<1>1. WithTable(pages, number, fresh) = IF on = {} THEN Append(pages, added) ELSE other
  BY DEF WithTable
<1>2. Listed(Append(pages, added))
  BY AppendIsListed, Zenon
<1>3. Listed(other)
  <2> HIDE DEF changed, last
  <2>1. other = [i \in DOMAIN pages |-> other[i]]
    OBVIOUS
  <2> HIDE DEF other
  <2> QED BY <2>1, ChangeIsListed, Zenon
<1> HIDE DEF on, added, other
<1> QED BY <1>1, <1>2, <1>3, Zenon

LEMMA AppendedListed ==
    ASSUME NEW acc, NEW t, PlacesListed(acc)
    PROVE  PlacesListed(Appended(acc, t))
<1> DEFINE number == PageNumber(t.page, 1)
           fresh == MergeTable([Fragment("table", None, NoBox, NoNumber)
                                   EXCEPT !.page = number], t)
           changed == Appended(acc, t)
<1>1. changed.pages = WithTable(acc.pages, number, fresh) /\ "pages" \in DOMAIN changed
  BY DEF Appended, PlacesListed
<1>2. Listed(WithTable(acc.pages, number, fresh))
  BY WithTableListed, Zenon DEF PlacesListed
<1> HIDE DEF changed, number, fresh
<1>3. PlacesListed(changed)
  BY <1>1, <1>2, Zenon DEF PlacesListed
<1> QED BY <1>3 DEF changed

LEMMA PlaceTableListed ==
    ASSUME NEW acc, NEW t, PlacesListed(acc)
    PROVE  PlacesListed(PlaceTable(acc, t))
<1>1. \/ PlaceTable(acc, t) = Appended(acc, t)
      \/ \E pl : PlaceTable(acc, t) = MergedAt(acc, pl, t)
  BY Zenon DEF PlaceTable
<1> QED BY <1>1, MergedListed, AppendedListed, Zenon

(* The recursive function of PlaceTables is defined on every list.         *)
TablesPlaced(start, tables, m, f) ==
    f = [n \in 0..m |-> IF n = 0 THEN start ELSE PlaceTable(f[n - 1], tables[n])]

LEMMA PlaceTablesAfter ==
    ASSUME NEW start, NEW tables, Len(tables) \in Nat
    PROVE  \E f : TablesPlaced(start, tables, Len(tables), f)
<1> DEFINE Defined(m, f) == TablesPlaced(start, tables, m, f)
           T == {m \in Nat : \E f : Defined(m, f)}
<1>1. 0 \in T
  <2> DEFINE f == [n \in 0..0 |-> start]
  <2>1. Defined(0, f)
    <3>1. \A n \in 0..0 : n = 0
      OBVIOUS
    <3> QED BY <3>1, Zenon DEF TablesPlaced
  <2> HIDE DEF Defined, f
  <2> QED BY <2>1
<1>2. ASSUME NEW m \in Nat, m \in T PROVE m + 1 \in T
  <2> HIDE DEF Defined
  <2>1. PICK f : Defined(m, f)
    BY <1>2
  <2> DEFINE g == [n \in 0..(m + 1) |->
                     IF n = m + 1 THEN PlaceTable(f[m], tables[m + 1]) ELSE f[n]]
  <2>2. Defined(m + 1, g)
    <3>1. f = [n \in 0..m |-> IF n = 0 THEN start ELSE PlaceTable(f[n - 1], tables[n])]
      BY <2>1, Zenon DEF Defined, TablesPlaced
    <3>2. ASSUME NEW n \in 0..(m + 1)
          PROVE  g[n] = IF n = 0 THEN start ELSE PlaceTable(g[n - 1], tables[n])
      <4>1. CASE n = m + 1
        <5>1. n # 0 /\ n - 1 = m /\ m \in 0..(m + 1) /\ m # m + 1
          BY <4>1
        <5>2. g[m] = f[m] /\ g[n] = PlaceTable(f[m], tables[m + 1])
          BY <4>1, <5>1, Zenon
        <5> HIDE DEF g
        <5> QED BY <4>1, <5>1, <5>2, Zenon
      <4>2. CASE n = 0
        <5>1. n \in 0..m /\ n # m + 1
          BY <4>2
        <5> QED BY <3>1, <4>2, <5>1, Zenon
      <4>3. CASE n # m + 1 /\ n # 0
        <5>1. n \in 0..m /\ n - 1 \in 0..(m + 1) /\ n - 1 # m + 1
          BY <4>3
        <5>2. g[n] = f[n] /\ g[n - 1] = f[n - 1]
          BY <4>3, <5>1, Zenon
        <5>3. f[n] = PlaceTable(f[n - 1], tables[n])
          BY <3>1, <4>3, <5>1, Zenon
        <5> HIDE DEF g
        <5> QED BY <4>3, <5>2, <5>3, Zenon
      <4> QED BY <4>1, <4>2, <4>3, Zenon
    <3>3. g = [n \in 0..(m + 1) |-> g[n]]
      BY Zenon
    <3> HIDE DEF g
    <3> QED BY <3>2, <3>3, Zenon DEF Defined, TablesPlaced
  <2> HIDE DEF g
  <2> QED BY <2>2
<1>3. Len(tables) \in T
  <2> HIDE DEF T
  <2> QED BY <1>1, <1>2, SetInduction, Zenon
<1> QED BY <1>3, Zenon

LEMMA PlaceTablesListed ==
    ASSUME NEW start, NEW tables, Len(tables) \in Nat, PlacesListed(start)
    PROVE  PlacesListed(PlaceTables(start, tables))
<1> DEFINE after == CHOOSE f : f = [n \in 0..Len(tables) |->
                          IF n = 0 THEN start ELSE PlaceTable(f[n - 1], tables[n])]
           T == {n \in Nat : n <= Len(tables) => PlacesListed(after[n])}
<1>1. PlaceTables(start, tables) = after[Len(tables)]
  BY Zenon DEF PlaceTables
<1>2. after = [n \in 0..Len(tables) |->
                 IF n = 0 THEN start ELSE PlaceTable(after[n - 1], tables[n])]
  <2>1. \E f : TablesPlaced(start, tables, Len(tables), f)
    BY PlaceTablesAfter, Zenon
  <2> QED BY <2>1, Zenon DEF TablesPlaced
<1> HIDE DEF after
<1>3. 0 \in T
  <2>1. 0 \in 0..Len(tables)
    OBVIOUS
  <2>2. after[0] = start
    BY <1>2, <2>1, Zenon
  <2> QED BY <2>2
<1>4. ASSUME NEW n \in Nat, n \in T PROVE n + 1 \in T
  <2> SUFFICES ASSUME n + 1 <= Len(tables) PROVE PlacesListed(after[n + 1])
    OBVIOUS
  <2>1. n + 1 \in 0..Len(tables) /\ n + 1 # 0 /\ (n + 1) - 1 = n
    OBVIOUS
  <2>2. after[n + 1] = PlaceTable(after[n], tables[n + 1])
    BY <1>2, <2>1, Zenon
  <2>3. PlacesListed(after[n])
    BY <1>4
  <2> QED BY <2>2, <2>3, PlaceTableListed, Zenon
<1>5. Len(tables) \in T
  <2> HIDE DEF T
  <2> QED BY <1>3, <1>4, SetInduction, Zenon
<1>6. Len(tables) <= Len(tables)
  OBVIOUS
<1> QED BY <1>1, <1>5, <1>6, Zenon

(* And that of PlaceSelected.                                               *)
CandidatesPlaced(start, report, m, f) ==
    f = [n \in 0..m |-> IF n = 0 THEN start ELSE PlaceCandidate(f[n - 1], report, n)]

LEMMA PlaceSelectedAfter ==
    ASSUME NEW start, NEW report, Len(report.candidates) \in Nat
    PROVE  \E f : CandidatesPlaced(start, report, Len(report.candidates), f)
<1> DEFINE Defined(m, f) == CandidatesPlaced(start, report, m, f)
           T == {m \in Nat : \E f : Defined(m, f)}
<1>1. 0 \in T
  <2> DEFINE f == [n \in 0..0 |-> start]
  <2>1. Defined(0, f)
    <3>1. \A n \in 0..0 : n = 0
      OBVIOUS
    <3> QED BY <3>1, Zenon DEF CandidatesPlaced
  <2> HIDE DEF Defined, f
  <2> QED BY <2>1
<1>2. ASSUME NEW m \in Nat, m \in T PROVE m + 1 \in T
  <2> HIDE DEF Defined
  <2>1. PICK f : Defined(m, f)
    BY <1>2
  <2> DEFINE g == [n \in 0..(m + 1) |->
                     IF n = m + 1 THEN PlaceCandidate(f[m], report, m + 1) ELSE f[n]]
  <2>2. Defined(m + 1, g)
    <3>1. f = [n \in 0..m |-> IF n = 0 THEN start ELSE PlaceCandidate(f[n - 1], report, n)]
      BY <2>1, Zenon DEF Defined, CandidatesPlaced
    <3>2. ASSUME NEW n \in 0..(m + 1)
          PROVE  g[n] = IF n = 0 THEN start ELSE PlaceCandidate(g[n - 1], report, n)
      <4>1. CASE n = m + 1
        <5>1. n # 0 /\ n - 1 = m /\ m \in 0..(m + 1) /\ m # m + 1
          BY <4>1
        <5>2. g[m] = f[m] /\ g[n] = PlaceCandidate(f[m], report, m + 1)
          BY <4>1, <5>1, Zenon
        <5> HIDE DEF g
        <5> QED BY <4>1, <5>1, <5>2, Zenon
      <4>2. CASE n = 0
        <5>1. n \in 0..m /\ n # m + 1
          BY <4>2
        <5> QED BY <3>1, <4>2, <5>1, Zenon
      <4>3. CASE n # m + 1 /\ n # 0
        <5>1. n \in 0..m /\ n - 1 \in 0..(m + 1) /\ n - 1 # m + 1
          BY <4>3
        <5>2. g[n] = f[n] /\ g[n - 1] = f[n - 1]
          BY <4>3, <5>1, Zenon
        <5>3. f[n] = PlaceCandidate(f[n - 1], report, n)
          BY <3>1, <4>3, <5>1, Zenon
        <5> HIDE DEF g
        <5> QED BY <4>3, <5>2, <5>3, Zenon
      <4> QED BY <4>1, <4>2, <4>3, Zenon
    <3>3. g = [n \in 0..(m + 1) |-> g[n]]
      BY Zenon
    <3> HIDE DEF g
    <3> QED BY <3>2, <3>3, Zenon DEF Defined, CandidatesPlaced
  <2> HIDE DEF g
  <2> QED BY <2>2
<1>3. Len(report.candidates) \in T
  <2> HIDE DEF T
  <2> QED BY <1>1, <1>2, SetInduction, Zenon
<1> QED BY <1>3, Zenon

LEMMA PlaceSelectedListed ==
    ASSUME NEW start, NEW report, TablesListed(report), PlacesListed(start)
    PROVE  PlacesListed(PlaceSelected(start, report))
<1> DEFINE N == Len(report.candidates)
           after == CHOOSE f : f = [n \in 0..N |->
                          IF n = 0 THEN start ELSE PlaceCandidate(f[n - 1], report, n)]
           T == {n \in Nat : n <= N => PlacesListed(after[n])}
<1>0. N \in Nat /\ DOMAIN report.candidates = 1..N
  BY DEF TablesListed, Listed
<1>1. PlaceSelected(start, report) = after[N]
  BY Zenon DEF PlaceSelected
<1>2. after = [n \in 0..N |-> IF n = 0 THEN start ELSE PlaceCandidate(after[n - 1], report, n)]
  <2>1. \E f : CandidatesPlaced(start, report, N, f)
    BY <1>0, PlaceSelectedAfter, Zenon
  <2> QED BY <2>1, Zenon DEF CandidatesPlaced
<1> HIDE DEF after, N
<1>3. 0 \in T
  <2>1. 0 \in 0..N
    BY <1>0
  <2>2. after[0] = start
    BY <1>2, <2>1, Zenon
  <2> QED BY <2>2
<1>4. ASSUME NEW n \in Nat, n \in T PROVE n + 1 \in T
  <2> SUFFICES ASSUME n + 1 <= N PROVE PlacesListed(after[n + 1])
    OBVIOUS
  <2>1. n + 1 \in 0..N /\ n + 1 # 0 /\ (n + 1) - 1 = n /\ n + 1 \in 1..N
    BY <1>0
  <2>2. after[n + 1] = PlaceCandidate(after[n], report, n + 1)
    BY <1>2, <2>1, Zenon
  <2>3. PlacesListed(after[n])
    BY <1>0, <1>4
  <2> DEFINE c == report.candidates[n + 1]
  <2>4. Listed(c.tables)
    BY <1>0, <2>1, Zenon DEF TablesListed
  <2>5. Len(CandidateTables(c)) \in Nat
    <3>1. CandidateTables(c) = [k \in DOMAIN c.tables |-> CandidateTables(c)[k]]
      BY Zenon DEF CandidateTables
    <3>2. Listed(CandidateTables(c))
      BY <2>4, <3>1, ChangeIsListed, Zenon
    <3> QED BY <3>2, Zenon DEF Listed
  <2>6. PlacesListed(PlaceTables(after[n], CandidateTables(c)))
    BY <2>3, <2>5, PlaceTablesListed, Zenon
  <2> QED BY <2>2, <2>3, <2>6, Zenon DEF PlaceCandidate
<1>5. N \in T
  <2> HIDE DEF T
  <2> QED BY <1>0, <1>3, <1>4, SetInduction, Zenon
<1>6. N <= N
  BY <1>0
<1> QED BY <1>1, <1>5, <1>6, Zenon

LEMMA DropStaleListed ==
    ASSUME NEW acc, PlacesListed(acc)
    PROVE  Listed(DropStale(acc))
<1>1. DropStale(acc) = [i \in DOMAIN acc.pages |-> DropStale(acc)[i]]
  BY Zenon DEF DropStale
<1> QED BY <1>1, ChangeIsListed, Zenon DEF PlacesListed

LEMMA WithPdfTablesListed ==
    ASSUME NEW data, NEW report, DataListed(data), TablesListed(report)
    PROVE  DataListed(WithPdfTables(data, report))
<1> DEFINE pages == AdaptV0Blocks(data).pages
<1>1. Listed(pages)
  BY AdaptListed, Zenon DEF DataListed
<1>2. \/ WithPdfTables(data, report) = data
      \/ \E start : /\ start.pages = pages /\ "pages" \in DOMAIN start
                    /\ WithPdfTables(data, report)
                         = [data EXCEPT !.pages = DropStale(PlaceSelected(start, report))]
  <2> DEFINE keyed == {pl \in Places(pages) : KeyAt(pages, pl) # NoKey}
             start == [pages |-> pages, free |-> keyed, keys |-> {}]
  <2>1. \/ WithPdfTables(data, report) = data
        \/ WithPdfTables(data, report)
                         = [data EXCEPT !.pages = DropStale(PlaceSelected(start, report))]
    BY Zenon DEF WithPdfTables
  <2>2. start.pages = pages /\ "pages" \in DOMAIN start
    <3> HIDE DEF keyed, pages
    <3> QED OBVIOUS
  <2> HIDE DEF start
  <2> QED BY <2>1, <2>2, Zenon
<1>3. ASSUME NEW start, start.pages = pages, "pages" \in DOMAIN start
      PROVE  Listed(DropStale(PlaceSelected(start, report)))
  <2>1. PlacesListed(start)
    BY <1>1, <1>3, Zenon DEF PlacesListed
  <2> QED BY <2>1, PlaceSelectedListed, DropStaleListed, Zenon
<1> HIDE DEF pages
<1> QED BY <1>2, <1>3, PagesReplaced, Zenon

LEMMA ImageIsFinite ==
    ASSUME NEW S, NEW f, IsFiniteSet(S), f = [x \in S |-> f[x]]
    PROVE  IsFiniteSet({f[x] : x \in S})
<1> DEFINE T == {f[x] : x \in S}
<1>1. f \in Surjection(S, T)
  <2>1. f \in [S -> T] /\ \A t \in T : \E x \in S : f[x] = t
    OBVIOUS
  <2> HIDE DEF T
  <2> QED BY <2>1, Zenon DEF Surjection
<1> HIDE DEF T
<1>2. IsFiniteSet(T)
  BY <1>1, FS_Surjection
<1> QED BY <1>2 DEF T

LEMMA ListDomainFinite ==
    ASSUME NEW s, Listed(s)
    PROVE  IsFiniteSet(DOMAIN s)
<1>1. DOMAIN s = 1..Len(s) /\ Len(s) \in Int
  BY DEF Listed
<1> QED BY <1>1, FS_Interval

LEMMA ReportNumbersFinite ==
    ASSUME NEW data, TablesListed(data)
    PROVE  IsFiniteSet(ReportNumbers(data))
<1> DEFINE cs == data.candidates
           numbers(i) == {PageNumber(cs[i].tables[k].page, 1) : k \in DOMAIN cs[i].tables}
           chosen == {i \in DOMAIN cs : Readable(data, cs[i])}
           sets == {numbers(i) : i \in chosen}
<1>1. IsFiniteSet(chosen)
  <2>1. IsFiniteSet(DOMAIN cs)
    BY ListDomainFinite, Zenon DEF TablesListed
  <2> QED BY <2>1, FS_Subset
<1>2. IsFiniteSet(sets)
  <2> DEFINE f == [i \in chosen |-> numbers(i)]
  <2>1. f = [i \in chosen |-> f[i]] /\ sets = {f[i] : i \in chosen}
    <3> HIDE DEF chosen, numbers
    <3> QED OBVIOUS
  <2> HIDE DEF f, chosen, sets
  <2> QED BY <1>1, <2>1, ImageIsFinite, Zenon
<1>3. ASSUME NEW i \in chosen PROVE IsFiniteSet(numbers(i))
  <2> DEFINE D == DOMAIN cs[i].tables
             f == [k \in D |-> PageNumber(cs[i].tables[k].page, 1)]
  <2>1. IsFiniteSet(D)
    BY ListDomainFinite, Zenon DEF TablesListed
  <2>2. f = [k \in D |-> f[k]]
    BY Zenon
  <2>3. \A k \in D : f[k] = PageNumber(cs[i].tables[k].page, 1)
    BY Zenon
  <2>4. numbers(i) = {PageNumber(cs[i].tables[k].page, 1) : k \in D}
    OBVIOUS
  <2> HIDE DEF f, D, numbers
  <2>5. numbers(i) = {f[k] : k \in D}
    BY <2>3, <2>4
  <2>6. IsFiniteSet({f[k] : k \in D})
    BY <2>1, <2>2, ImageIsFinite
  <2> QED BY <2>5, <2>6, Zenon
<1>4. \A s \in sets : IsFiniteSet(s)
  <2> HIDE DEF numbers, chosen
  <2> QED BY <1>3
<1>5. ReportNumbers(data) = UNION sets
  BY Zenon DEF ReportNumbers
<1> HIDE DEF sets
<1> QED BY <1>2, <1>4, <1>5, FS_UNION

LEMMA ReportPagesListed ==
    ASSUME NEW data, TablesListed(data)
    PROVE  Listed(ReportPages(data))
<1> DEFINE S == ReportNumbers(data)
           n == Cardinality(S)
           pages == ReportPages(data)
<1>1. n \in Nat
  BY ReportNumbersFinite, FS_CardinalityType, Zenon
<1>2. pages = [i \in DOMAIN Ascending(S) |-> pages[i]]
  BY Zenon DEF ReportPages
<1>3. DOMAIN Ascending(S) = 1..n
  BY Zenon DEF Ascending
<1> HIDE DEF pages, n
<1>4. pages = [i \in 1..n |-> pages[i]]
  BY <1>2, <1>3, Zenon
<1>5. Listed(pages)
  BY <1>1, <1>4, FunctionIsListed, Zenon
<1> QED BY <1>5 DEF pages

LEMMA ParserPagesListed ==
    ASSUME NEW data, NEW sourceType, DataListed(data)
    PROVE  Listed(ParserPages(data, sourceType))
<1>1. CASE data.pages # <<>>
  <2>1. ParserPages(data, sourceType) = AdaptV0Blocks(data).pages
    BY <1>1, Zenon DEF ParserPages
  <2> QED BY <2>1, AdaptListed, Zenon DEF DataListed
<1>2. CASE data.pages = <<>> /\ sourceType = "docx" /\ data.blocks # <<>>
  <2>1. ParserPages(data, sourceType) = <<DefaultPage(1, data.blocks)>>
    BY <1>2, Zenon DEF ParserPages
  <2>2. \A x : Listed(<<x>>)
    BY DEF Listed
  <2> QED BY <2>1, <2>2, Zenon
<1>3. CASE data.pages = <<>> /\ sourceType = "xlsx"
  <2> DEFINE pages == [i \in DOMAIN data.sheets |-> SheetPage(data.sheets[i], i)]
  <2>1. ParserPages(data, sourceType) = pages
    BY <1>3, Zenon DEF ParserPages
  <2>2. pages = [i \in DOMAIN data.sheets |-> pages[i]]
    BY Zenon
  <2> HIDE DEF pages
  <2> QED BY <2>1, <2>2, ChangeIsListed, Zenon DEF DataListed
<1>4. CASE data.pages = <<>> /\ sourceType = "pdf"
  <2>1. ParserPages(data, sourceType) = ReportPages(data)
    BY <1>4, Zenon DEF ParserPages
  <2> QED BY <2>1, ReportPagesListed, Zenon DEF DataListed
<1>5. CASE /\ data.pages = <<>> /\ ~(sourceType = "docx" /\ data.blocks # <<>>)
           /\ sourceType \notin {"xlsx", "pdf"}
  <2>1. ParserPages(data, sourceType) = <<>>
    BY <1>5, Zenon DEF ParserPages
  <2>2. Listed(<<>>)
    BY DEF Listed
  <2> QED BY <2>1, <2>2, Zenon
<1> QED BY <1>1, <1>2, <1>3, <1>4, <1>5, Zenon

LEMMA TextPdfListed ==
    ASSUME NEW layer, Listed(layer)
    PROVE  DataListed(ParseTextPdf(layer))
<1> DEFINE pages == [p \in DOMAIN layer |-> DefaultPage(p, <<>>)]
           d == [NoOutput EXCEPT !.pages = pages]
<1>1. Listed(pages)
  <2>1. pages = [p \in DOMAIN layer |-> pages[p]]
    BY Zenon
  <2> HIDE DEF pages
  <2> QED BY <2>1, ChangeIsListed, Zenon
<1>2. DataListed(d)
  <2> HIDE DEF pages
  <2> QED BY <1>1, NoOutputListed, PagesReplaced, Zenon
<1>3. PICK blocks : ParseTextPdf(layer) = [d EXCEPT !.blocks = blocks]
  BY DEF ParseTextPdf, NoOutput
<1> DEFINE e == [d EXCEPT !.blocks = blocks]
<1>4. DOMAIN e = DOMAIN d /\ e.pages = d.pages /\ e.sheets = d.sheets /\ e.candidates = d.candidates
  <2>1. "pages" \in DOMAIN d /\ "sheets" \in DOMAIN d /\ "candidates" \in DOMAIN d
    BY DEF NoOutput
  <2> HIDE DEF d
  <2> QED BY <2>1
<1> HIDE DEF d, e
<1>5. DataListed(e)
  BY <1>2, <1>4, Zenon DEF DataListed, TablesListed
<1> QED BY <1>3, <1>5, Zenon DEF e

LEMMA UploadListed ==
    ASSUME NEW u, UploadTyped(u)
    PROVE  DataListed(u.data) /\ Listed(u.layer)
<1>1. DOMAIN u.data = DOMAIN NoOutput /\ Listed(u.layer)
  BY SequenceIsListed, Zenon DEF UploadTyped
<1>2. Listed(u.data.pages) /\ Listed(u.data.sheets) /\ Listed(u.data.candidates)
  BY SequenceIsListed, Zenon DEF UploadTyped
<1>3. \A i \in DOMAIN u.data.candidates : Listed(u.data.candidates[i].tables)
  BY SequenceIsListed, Zenon DEF UploadTyped
<1> QED BY <1>1, <1>2, <1>3, Zenon DEF DataListed, TablesListed

LEMMA PlainTextListed == DataListed(PlainText)
<1> DEFINE page == DefaultPage(1,
                <<[Fragment(None, "text", [at |-> "text", unit |-> "pt", fits |-> TRUE], 500)
                     EXCEPT !.low = TRUE]>>)
<1>1. Listed(<<page>>)
  <2> HIDE DEF page
  <2> QED BY DEF Listed
<1>2. PlainText = [NoOutput EXCEPT !.pages = <<page>>]
  BY Zenon DEF PlainText
<1> HIDE DEF page
<1> QED BY <1>1, <1>2, NoOutputListed, PagesReplaced, Zenon

(* What a parser can say: a plain text is nothing but that.                *)
LEMMA ParsedWarnings ==
    ASSUME NEW u, UploadTyped(u)
    PROVE  LET p == ParseUpload(u)
           IN  /\ DataListed(p.data)
               /\ p.warnings \subseteq TableWarnings \cup {"plain_text", "json_root"}
               /\ p.warnings \cap {"plain_text", "json_root"} # {} => p.data = PlainText
<1> DEFINE p == ParseUpload(u)
           Sound(x) == /\ DataListed(x.data)
                       /\ x.warnings \subseteq TableWarnings \cup {"plain_text", "json_root"}
                       /\ x.warnings \cap {"plain_text", "json_root"} # {} => x.data = PlainText
<1>1. \A r : PdfTableWarnings(r) \subseteq TableWarnings
  BY Zenon DEF PdfTableWarnings, TableWarnings
<1>2. ASSUME NEW data, DataListed(data), NEW warnings, warnings \subseteq TableWarnings
      PROVE  Sound(Output(data, warnings))
  <2>1. Output(data, warnings).data = data /\ Output(data, warnings).warnings = warnings
    BY DEF Output
  <2>2. warnings \cap {"plain_text", "json_root"} = {}
    BY <1>2 DEF TableWarnings
  <2> QED BY <1>2, <2>1, <2>2
<1>3. Sound(Refused)
  <2>1. Refused.data = NoOutput /\ Refused.warnings = {}
    BY DEF Refused
  <2> QED BY <2>1, NoOutputListed
<1>4. ASSUME NEW w \in {"plain_text", "json_root"} PROVE Sound(Output(PlainText, {w}))
  <2>1. Output(PlainText, {w}).data = PlainText /\ Output(PlainText, {w}).warnings = {w}
    BY DEF Output
  <2> QED BY <2>1, PlainTextListed
<1>5. DataListed(u.data) /\ DataListed(AdaptV0Blocks(ParseTextPdf(u.layer)))
  BY UploadListed, TextPdfListed, AdaptListed, Zenon
<1>6. TablesListed(u.data) /\ TablesListed(ExtractionReport(u.data.candidates))
  <2>1. ExtractionReport(u.data.candidates).candidates = u.data.candidates
    BY DEF ExtractionReport
  <2> QED BY <1>5, <2>1, Zenon DEF DataListed, TablesListed
<1>7. {} \subseteq TableWarnings
  OBVIOUS
<1> HIDE DEF Sound
<1>8. CASE u.ext # "other"
  <2>1. ParseUpload(u) = ParseBinary(u)
    BY <1>8, Zenon DEF ParseUpload
  <2> DEFINE text == AdaptV0Blocks(ParseTextPdf(u.layer))
             report == ExtractionReport(u.data.candidates)
  <2>2. \/ ParseBinary(u) = Refused
        \/ ParseBinary(u) = Output(u.data, {})
        \/ ParseBinary(u) = Output(text, {})
        \/ ParseBinary(u) = Output(WithPdfTables(text, report), PdfTableWarnings(report))
    <3>1. u.ext \in {"pdf", "docx", "xlsx"} /\ u.content \in {"file", "corrupt", "no_dependency"}
      BY <1>8, Zenon DEF UploadTyped
    <3>2. CASE u.content \in {"corrupt", "no_dependency"}
      BY <3>2, Zenon DEF ParseBinary
    <3>3. CASE u.content = "file" /\ u.ext \in {"docx", "xlsx"}
      BY <3>3, Zenon DEF ParseBinary
    <3>4. CASE u.content = "file" /\ u.ext = "pdf"
      BY <3>4, Zenon DEF ParseBinary
    <3> QED BY <3>1, <3>2, <3>3, <3>4, Zenon
  <2>3. DataListed(WithPdfTables(text, report))
    BY <1>5, <1>6, WithPdfTablesListed, Zenon
  <2> HIDE DEF text, report
  <2>4. Sound(ParseBinary(u))
    BY <1>1, <1>2, <1>3, <1>5, <1>7, <2>2, <2>3, Zenon DEF text
  <2> QED BY <2>1, <2>4, Zenon DEF Sound
<1>9. CASE u.ext = "other"
  <2>1. ParseUpload(u) = ParseText(u)
    BY <1>9, Zenon DEF ParseUpload
  <2>2. \/ ParseText(u) = Refused
        \/ \E w \in {"plain_text", "json_root"} : ParseText(u) = Output(PlainText, {w})
        \/ ParseText(u) = Output(u.data, {})
        \/ ParseText(u) = Output(u.data, PdfTableWarnings(u.data))
        \/ ParseText(u) = Output(WithPdfTables(NoOutput, u.data), PdfTableWarnings(u.data))
    <3>1. u.content \in {"binary", "text", "scalar", "json"}
      BY <1>9, Zenon DEF UploadTyped
    <3>2. CASE u.content = "binary"
      BY <3>2, Zenon DEF ParseText
    <3>3. CASE u.content = "text"
      BY <3>3, Zenon DEF ParseText
    <3>4. CASE u.content = "scalar"
      BY <3>4, Zenon DEF ParseText
    <3>5. CASE u.content = "json"
      BY <3>5, Zenon DEF ParseText
    <3> QED BY <3>1, <3>2, <3>3, <3>4, <3>5, Zenon
  <2>3. DataListed(WithPdfTables(NoOutput, u.data))
    BY <1>6, NoOutputListed, WithPdfTablesListed, Zenon
  <2>4. Sound(ParseText(u))
    BY <1>1, <1>2, <1>3, <1>4, <1>5, <1>7, <2>2, <2>3, Zenon
  <2> QED BY <2>1, <2>4, Zenon DEF Sound
<1> QED BY <1>8, <1>9, Zenon

-----------------------------------------------------------------------------
(* Documents.  A block is under review exactly if there is a warning for   *)
(* it, and every warning of a document is one of a block or says that      *)
(* there is nothing.                                                       *)
BlocksMarked(ir) ==
    \A i \in DOMAIN ir.blocks :
        LET b == ir.blocks[i]
        IN  /\ b.review <=> b.warnings # {}
            /\ b.box.at = None => "bbox_missing" \in b.warnings
            /\ b.text = None => "text_empty" \in b.warnings

WarningsExplained(ir) ==
    \A w \in ir.warnings :
        \/ \E i \in DOMAIN ir.blocks : w \in ir.blocks[i].warnings
        \/ w = "no_pages" /\ ir.pages = <<>>
        \/ w = "no_blocks" /\ ir.blocks = <<>>

LEMMA BlockMarked ==
    ASSUME NEW f, NEW id, NEW page, NEW fallback
    PROVE  LET b == BlockFromFragment(f, id, page, fallback)
           IN  /\ b.review <=> b.warnings # {}
               /\ b.box.at = None => "bbox_missing" \in b.warnings
               /\ b.text = None => "text_empty" \in b.warnings
               /\ f.low => b.warnings # {}
<1> DEFINE b == BlockFromFragment(f, id, page, fallback)
<1>1. /\ b.review = (ReviewWarnings(f) # {}) /\ b.warnings = ReviewWarnings(f)
      /\ b.box.at = f.box.at /\ b.text = f.text
  BY Zenon DEF BlockFromFragment
<1>2. /\ f.box.at = None => "bbox_missing" \in ReviewWarnings(f)
      /\ f.text = None => "text_empty" \in ReviewWarnings(f)
      /\ f.low => "low_confidence" \in ReviewWarnings(f)
  BY Zenon DEF ReviewWarnings
<1> HIDE DEF b
<1>3. /\ b.review <=> b.warnings # {}
      /\ b.box.at = None => "bbox_missing" \in b.warnings
      /\ b.text = None => "text_empty" \in b.warnings
      /\ f.low => b.warnings # {}
  BY <1>1, <1>2, Zenon
<1> QED BY <1>3 DEF b

DocumentOf(ir, sourceType, pages) ==
    \E blocks, fallback :
        /\ ir = Document(sourceType, pages, blocks)
        /\ blocks = [n \in DOMAIN ListedFragments(pages) |->
              BlockFromFragment(ListedFragments(pages)[n].fragment, n,
                                ListedFragments(pages)[n].page, fallback)]

LEMMA DocumentParts ==
    ASSUME NEW data, NEW sourceType
    PROVE  DocumentOf(FromParserOutput(data, sourceType), sourceType,
                      ParserPages(data, sourceType))
  BY Zenon DEF FromParserOutput, DocumentOf

LEMMA DocumentSound ==
    ASSUME NEW data, NEW sourceType, DataListed(data)
    PROVE  LET ir == FromParserOutput(data, sourceType)
           IN  Listed(ir.pages) /\ BlocksMarked(ir) /\ WarningsExplained(ir)
<1> DEFINE pages == ParserPages(data, sourceType)
           listed == ListedFragments(pages)
           ir == FromParserOutput(data, sourceType)
<1>0. DocumentOf(ir, sourceType, pages)
  BY DocumentParts, Zenon
<1> HIDE DEF ir, pages
<1>1. PICK blocks, fallback :
         /\ ir = Document(sourceType, pages, blocks)
         /\ blocks = [n \in DOMAIN listed |->
                BlockFromFragment(listed[n].fragment, n, listed[n].page, fallback)]
  BY <1>0, Zenon DEF DocumentOf
<1> HIDE DEF listed
<1>2. Listed(pages)
  BY ParserPagesListed, Zenon DEF pages
<1>3. ir.blocks = blocks
  BY <1>1, Zenon DEF Document
<1>4. /\ ir.pages = [i \in DOMAIN pages |-> ir.pages[i]]
      /\ ir.warnings = (UNION {blocks[i].warnings : i \in DOMAIN blocks})
            \cup (IF pages = <<>> THEN {"no_pages"} ELSE {})
            \cup (IF blocks = <<>> THEN {"no_blocks"} ELSE {})
  BY <1>1, Zenon DEF Document
<1>5. Listed(ir.pages)
  BY <1>2, <1>4, ChangeIsListed, Zenon
<1>6. pages = <<>> => ir.pages = <<>>
  <2>1. pages = <<>> => DOMAIN ir.pages = {}
    BY <1>4
  <2> QED BY <1>5, <2>1 DEF Listed
<1>7. BlocksMarked(ir)
  <2> SUFFICES ASSUME NEW n \in DOMAIN ir.blocks
               PROVE  LET b == ir.blocks[n]
                      IN  /\ b.review <=> b.warnings # {}
                          /\ b.box.at = None => "bbox_missing" \in b.warnings
                          /\ b.text = None => "text_empty" \in b.warnings
    BY DEF BlocksMarked
  <2>1. ir.blocks[n] = BlockFromFragment(listed[n].fragment, n, listed[n].page, fallback)
    BY <1>1, <1>3, Zenon
  <2> QED BY <2>1, BlockMarked, Zenon
<1>8. WarningsExplained(ir)
  <2>1. ASSUME NEW w \in ir.warnings
        PROVE  \/ \E i \in DOMAIN ir.blocks : w \in ir.blocks[i].warnings
               \/ w = "no_pages" /\ ir.pages = <<>>
               \/ w = "no_blocks" /\ ir.blocks = <<>>
    <3>1. CASE w \in UNION {blocks[i].warnings : i \in DOMAIN blocks}
      <4>1. \E i \in DOMAIN blocks : w \in blocks[i].warnings
        BY <3>1
      <4> QED BY <1>3, <4>1, Zenon
    <3>2. CASE w \in (IF pages = <<>> THEN {"no_pages"} ELSE {})
      BY <1>6, <3>2
    <3>3. CASE w \in (IF blocks = <<>> THEN {"no_blocks"} ELSE {})
      BY <1>3, <3>3
    <3>4. w \in (UNION {blocks[i].warnings : i \in DOMAIN blocks})
            \cup (IF pages = <<>> THEN {"no_pages"} ELSE {})
            \cup (IF blocks = <<>> THEN {"no_blocks"} ELSE {})
      BY <1>4, <2>1
    <3> DEFINE A == UNION {blocks[i].warnings : i \in DOMAIN blocks}
               B == IF pages = <<>> THEN {"no_pages"} ELSE {}
               C == IF blocks = <<>> THEN {"no_blocks"} ELSE {}
    <3>5. w \in A \/ w \in B \/ w \in C
      <4>1. w \in A \cup B \cup C
        BY <3>4, Zenon
      <4> HIDE DEF A, B, C
      <4> QED BY <4>1
    <3> QED BY <3>1, <3>2, <3>3, <3>5
  <2> DEFINE Explained(w) == \/ \E i \in DOMAIN ir.blocks : w \in ir.blocks[i].warnings
                             \/ w = "no_pages" /\ ir.pages = <<>>
                             \/ w = "no_blocks" /\ ir.blocks = <<>>
  <2>2. \A w \in ir.warnings : Explained(w)
    BY <2>1
  <2> QED BY <2>2, Zenon DEF WarningsExplained
<1> QED BY <1>5, <1>7, <1>8, Zenon DEF ir

(* A plain text is one block under review.                                 *)
LEMMA FlattenOne ==
    ASSUME NEW s
    PROVE  FlattenSeq(<<s>>) = s
<1> DEFINE seqs == <<s>>
           flatten == CHOOSE f : f = [i \in 1..Len(seqs) |->
                                        IF i = 1 THEN seqs[i] ELSE f[i - 1] \o seqs[i]]
<1>1. Len(seqs) = 1 /\ seqs[1] = s
  OBVIOUS
<1>2. FlattenSeq(seqs) = IF Len(seqs) = 0 THEN seqs ELSE flatten[Len(seqs)]
  BY Zenon DEF FlattenSeq
<1>3. \E f : f = [i \in 1..Len(seqs) |-> IF i = 1 THEN seqs[i] ELSE f[i - 1] \o seqs[i]]
  <2> DEFINE f == [i \in 1..Len(seqs) |-> seqs[i]]
  <2>1. \A i \in 1..Len(seqs) : i = 1
    BY <1>1
  <2>2. f = [i \in 1..Len(seqs) |-> IF i = 1 THEN seqs[i] ELSE f[i - 1] \o seqs[i]]
    <3> HIDE DEF seqs
    <3> QED BY <2>1, Zenon
  <2> HIDE DEF f
  <2> QED BY <2>2
<1>4. flatten = [i \in 1..Len(seqs) |->
                   IF i = 1 THEN seqs[i] ELSE flatten[i - 1] \o seqs[i]]
  BY <1>3, Zenon
<1> HIDE DEF flatten, seqs
<1>5. 1 \in 1..Len(seqs)
  BY <1>1
<1>6. flatten[1] = seqs[1]
  BY <1>4, <1>5, Zenon
<1>7. FlattenSeq(seqs) = s
  BY <1>1, <1>2, <1>6
<1> QED BY <1>7 DEF seqs

LEMMA PlainTextReviewed ==
    ASSUME NEW sourceType
    PROVE  LET ir == FromParserOutput(PlainText, sourceType)
           IN  \E i \in DOMAIN ir.blocks : ir.blocks[i].review
<1> DEFINE f == [Fragment(None, "text", [at |-> "text", unit |-> "pt", fits |-> TRUE], 500)
                     EXCEPT !.low = TRUE]
           pages == ParserPages(PlainText, sourceType)
           listed == ListedFragments(pages)
           ir == FromParserOutput(PlainText, sourceType)
           entries(i) == LET fs == pages[i].fragments \o pages[i].regions
                         IN  [k \in DOMAIN fs |->
                                [fragment |-> fs[k], page |-> PageNumber(pages[i].number, i)]]
<1>1. f.low
  BY DEF Fragment
<1> HIDE DEF f
<1>2. pages = <<DefaultPage(1, <<f>>)>>
  <2>1. PlainText.pages = <<DefaultPage(1, <<f>>)>> /\ PlainText.blocks = <<>>
    BY DEF PlainText, NoOutput, f
  <2>2. PlainText.pages # <<>>
    BY <2>1
  <2>3. ParserPages(PlainText, sourceType) = AdaptV0Blocks(PlainText).pages
    BY <2>2, Zenon DEF ParserPages
  <2>4. AdaptV0Blocks(PlainText) = PlainText
    BY <2>1, Zenon DEF AdaptV0Blocks
  <2> QED BY <2>1, <2>3, <2>4, Zenon
<1>3. pages[1].fragments = <<f>> /\ pages[1].regions = <<>> /\ DOMAIN pages = {1}
  BY <1>2 DEF DefaultPage
<1>4. listed = FlattenSeq([i \in DOMAIN pages |-> entries(i)])
  BY Zenon DEF ListedFragments
<1>9. DocumentOf(ir, sourceType, pages)
  BY DocumentParts, Zenon
<1> HIDE DEF pages, ir
<1>5. entries(1) = [k \in {1} |-> [fragment |-> f, page |-> PageNumber(pages[1].number, 1)]]
  <2>1. pages[1].fragments \o pages[1].regions = <<f>>
    BY <1>3
  <2> QED BY <2>1
<1>6. [i \in DOMAIN pages |-> entries(i)] = <<entries(1)>>
  <2> HIDE DEF entries
  <2> QED BY <1>3
<1>7. listed = entries(1)
  <2> HIDE DEF entries
  <2> QED BY <1>4, <1>6, FlattenOne
<1>8. 1 \in DOMAIN listed /\ listed[1].fragment = f
  <2> HIDE DEF entries
  <2> QED BY <1>5, <1>7
<1>10. PICK blocks, fallback :
         /\ ir = Document(sourceType, pages, blocks)
         /\ blocks = [n \in DOMAIN listed |->
                BlockFromFragment(listed[n].fragment, n, listed[n].page, fallback)]
  BY <1>9, Zenon DEF DocumentOf
<1> HIDE DEF listed
<1>11. ir.blocks[1] = BlockFromFragment(f, 1, listed[1].page, fallback) /\ 1 \in DOMAIN ir.blocks
  <2>1. ir.blocks = blocks
    BY <1>10, Zenon DEF Document
  <2> QED BY <1>8, <1>10, <2>1, Zenon
<1>12. ir.blocks[1].review
  BY <1>1, <1>11, BlockMarked, Zenon
<1> QED BY <1>11, <1>12, Zenon DEF ir

(* What a valid document is sure to have.                                  *)
LEMMA ValidDocument ==
    ASSUME NEW ir, ValidateIR(ir).ok
    PROVE  /\ ir.pages # <<>>
           /\ \A i \in DOMAIN ir.pages : ir.pages[i].number >= 1
           /\ \A i \in DOMAIN ir.blocks : ir.blocks[i].page >= 1
<1>1. /\ PageErrors(ir) = {} /\ BlockErrors(ir) = {}
      /\ (IF ir.pages = <<>> THEN {<<"pages", 0>>} ELSE {}) = {}
  BY Zenon DEF ValidateIR
<1>2. ir.pages # <<>>
  BY <1>1, Zenon
<1>3. ASSUME NEW i \in DOMAIN ir.pages PROVE ir.pages[i].number >= 1
  <2>1. <<"page", i>> \notin PageErrors(ir)
    BY <1>1, Zenon
  <2> QED BY <2>1, Zenon DEF PageErrors
<1>4. ASSUME NEW i \in DOMAIN ir.blocks PROVE ir.blocks[i].page >= 1
  <2>1. <<"block", i>> \notin BlockErrors(ir)
    BY <1>1, Zenon
  <2> QED BY <2>1, Zenon DEF BlockErrors
<1> QED BY <1>2, <1>3, <1>4, Zenon

-----------------------------------------------------------------------------
(* Review.  What is known of a document between its making and the answer: *)
(* b is the document with its verdict, w the parser's warnings.            *)
Reviewed(ir) == \E i \in DOMAIN ir.blocks : ir.blocks[i].review

BuiltSound(b, w) ==
    /\ Listed(b.ir.pages)
    /\ BlocksMarked(b.ir)
    /\ b.ok => /\ b.ir.pages # <<>>
               /\ \A i \in DOMAIN b.ir.pages : b.ir.pages[i].number >= 1
               /\ \A i \in DOMAIN b.ir.blocks : b.ir.blocks[i].page >= 1
    /\ b.ok /\ b.review => Reviewed(b.ir) \/ b.ir.blocks = <<>> \/ b.mapping.review
    /\ b.warnings \cap ReviewWording # {} => Reviewed(b.ir) \/ b.ir.blocks = <<>>
    /\ w \subseteq TableWarnings \cup {"plain_text", "json_root"}
    /\ w \cap {"plain_text", "json_root"} # {} => Reviewed(b.ir)
    /\ Reviewed(b.ir) => b.review
    /\ b.mapping.review => b.review
    /\ b.ir.blocks = <<>> => b.review

(* Build, in terms of the operators it is made of.                         *)
BuiltFrom(u, data, b) ==
    LET ir == FromParserOutput(data, SourceType(u, data))
        v == ValidateIR(ir)
        mapping == Mapping(u, ir)
    IN  /\ b.ir = ir /\ b.mapping = mapping /\ b.ok = v.ok
        /\ b.review = (v.review \/ mapping.review)
        /\ b.warnings = v.warnings \cup (IF mapping.review THEN {"mapping"} ELSE {})

LEMMA ValidationVerdict ==
    ASSUME NEW ir, BlocksMarked(ir), WarningsExplained(ir)
    PROVE  LET v == ValidateIR(ir)
           IN  /\ v.ok /\ v.review => Reviewed(ir) \/ ir.blocks = <<>>
               /\ v.warnings \cap ReviewWording # {} => Reviewed(ir) \/ ir.blocks = <<>>
               /\ Reviewed(ir) => v.review
               /\ ir.blocks = <<>> => v.review
               /\ "mapping" \notin ReviewWording
<1> DEFINE v == ValidateIR(ir)
           errors == PageErrors(ir) \cup BlockErrors(ir)
            \cup (IF ir.source \in SOURCE_TYPES THEN {} ELSE {<<"source", 0>>})
            \cup (IF ir.pages = <<>> THEN {<<"pages", 0>>} ELSE {})
           warnings == ir.warnings \cup (IF ir.blocks = <<>> THEN {"blocks_empty"} ELSE {})
<1>1. /\ v.ok = (errors = {}) /\ v.warnings = warnings
      /\ v.review = (errors # {} \/ warnings # {} \/ \E i \in DOMAIN ir.blocks : ir.blocks[i].review)
  BY Zenon DEF ValidateIR
<1>2. errors = {} => ir.pages # <<>>
  BY Zenon
<1> HIDE DEF v, errors
<1>3. ASSUME NEW w \in warnings, ir.pages # <<>> \/ w \in ReviewWording
      PROVE  Reviewed(ir) \/ ir.blocks = <<>>
  <2>1. CASE w \in ir.warnings
    <3>1. \/ \E i \in DOMAIN ir.blocks : w \in ir.blocks[i].warnings
          \/ w = "no_pages" /\ ir.pages = <<>>
          \/ w = "no_blocks" /\ ir.blocks = <<>>
      BY <2>1, Zenon DEF WarningsExplained
    <3>2. "no_pages" \notin ReviewWording
      BY DEF ReviewWording, TableWarnings
    <3>3. ASSUME NEW i \in DOMAIN ir.blocks, w \in ir.blocks[i].warnings PROVE Reviewed(ir)
      <4>1. ir.blocks[i].warnings # {}
        BY <3>3, Zenon
      <4> QED BY <4>1, Zenon DEF BlocksMarked, Reviewed
    <3> QED BY <1>3, <3>1, <3>2, <3>3, Zenon
  <2>2. CASE ir.blocks = <<>>
    BY <2>2
  <2> QED BY <1>3, <2>1, <2>2, Zenon
<1>4. v.ok /\ v.review => Reviewed(ir) \/ ir.blocks = <<>>
  <2> SUFFICES ASSUME v.ok, v.review PROVE Reviewed(ir) \/ ir.blocks = <<>>
    OBVIOUS
  <2>1. errors = {} /\ ir.pages # <<>> /\ (warnings # {} \/ Reviewed(ir))
    BY <1>1, <1>2, Zenon DEF Reviewed
  <2> HIDE DEF warnings
  <2> QED BY <1>3, <2>1, Zenon
<1>5. v.warnings \cap ReviewWording # {} => Reviewed(ir) \/ ir.blocks = <<>>
  <2> HIDE DEF warnings
  <2> QED BY <1>1, <1>3, Zenon
<1>6. Reviewed(ir) => v.review
  BY <1>1, Zenon DEF Reviewed
<1>7. ir.blocks = <<>> => v.review
  BY <1>1, Zenon
<1>8. "mapping" \notin ReviewWording
  BY DEF ReviewWording, TableWarnings
<1> QED BY <1>4, <1>5, <1>6, <1>7, <1>8 DEF v

LEMMA BuiltIsSound ==
    ASSUME NEW u, UploadTyped(u), NEW b, BuiltFrom(u, ParseUpload(u).data, b)
    PROVE  BuiltSound(b, ParseUpload(u).warnings)
<1> DEFINE data == ParseUpload(u).data
           w == ParseUpload(u).warnings
           ir == FromParserOutput(data, SourceType(u, data))
           v == ValidateIR(ir)
           mapping == Mapping(u, ir)
<1>1. /\ DataListed(data)
      /\ w \subseteq TableWarnings \cup {"plain_text", "json_root"}
      /\ w \cap {"plain_text", "json_root"} # {} => data = PlainText
  BY ParsedWarnings, Zenon
<1> HIDE DEF data, w
<1>2. Listed(ir.pages) /\ BlocksMarked(ir) /\ WarningsExplained(ir)
  BY <1>1, DocumentSound, Zenon
<1>3. w \cap {"plain_text", "json_root"} # {} => Reviewed(ir)
  BY <1>1, PlainTextReviewed, Zenon DEF Reviewed
<1>4. /\ b.ir = ir /\ b.mapping = mapping /\ b.ok = v.ok
      /\ b.review = (v.review \/ mapping.review)
      /\ b.warnings = v.warnings \cup (IF mapping.review THEN {"mapping"} ELSE {})
  BY Zenon DEF BuiltFrom, data
<1> HIDE DEF ir
<1>5. /\ v.ok /\ v.review => Reviewed(ir) \/ ir.blocks = <<>>
      /\ v.warnings \cap ReviewWording # {} => Reviewed(ir) \/ ir.blocks = <<>>
      /\ Reviewed(ir) => v.review
      /\ ir.blocks = <<>> => v.review
      /\ "mapping" \notin ReviewWording
  BY <1>2, ValidationVerdict, Zenon
<1>6. v.ok => /\ ir.pages # <<>>
              /\ \A i \in DOMAIN ir.pages : ir.pages[i].number >= 1
              /\ \A i \in DOMAIN ir.blocks : ir.blocks[i].page >= 1
  BY ValidDocument, Zenon
<1> HIDE DEF v, mapping
<1>7. b.warnings \cap ReviewWording # {} => v.warnings \cap ReviewWording # {}
  BY <1>4, <1>5
<1>8. BuiltSound(b, w)
  <2>1. Listed(b.ir.pages) /\ BlocksMarked(b.ir)
    BY <1>2, <1>4, Zenon
  <2>2. b.ok => /\ b.ir.pages # <<>>
                /\ \A i \in DOMAIN b.ir.pages : b.ir.pages[i].number >= 1
                /\ \A i \in DOMAIN b.ir.blocks : b.ir.blocks[i].page >= 1
    BY <1>4, <1>6, Zenon
  <2>3. b.ok /\ b.review => Reviewed(b.ir) \/ b.ir.blocks = <<>> \/ b.mapping.review
    BY <1>4, <1>5, Zenon
  <2>4. b.warnings \cap ReviewWording # {} => Reviewed(b.ir) \/ b.ir.blocks = <<>>
    BY <1>4, <1>5, <1>7, Zenon
  <2>5. /\ w \subseteq TableWarnings \cup {"plain_text", "json_root"}
        /\ w \cap {"plain_text", "json_root"} # {} => Reviewed(b.ir)
    BY <1>1, <1>3, <1>4, Zenon
  <2>6. /\ Reviewed(b.ir) => b.review
        /\ b.mapping.review => b.review
        /\ b.ir.blocks = <<>> => b.review
    BY <1>4, <1>5, Zenon
  <2> QED BY <2>1, <2>2, <2>3, <2>4, <2>5, <2>6, Zenon DEF BuiltSound
<1> QED BY <1>8 DEF w

(* Every item of a valid document names a page.                            *)
LEMMA ItemsHavePages ==
    ASSUME NEW b, NEW w, NEW warnings, NEW pc, BuiltSound(b, w), b.ok
    PROVE  /\ \A i \in BlockItems(b.ir) : i.page >= 1
           /\ \A i \in MappingItems(b.mapping, b.ir) : i.page >= 1
           /\ \A i \in PlanItems(b.ir, pc) : i.page >= 1
           /\ \A i \in TableItems(b.ir, warnings) : i.page >= 1
<1> DEFINE ir == b.ir
<1>1. /\ ir.pages # <<>> /\ Listed(ir.pages)
      /\ \A i \in DOMAIN ir.pages : ir.pages[i].number >= 1
      /\ \A i \in DOMAIN ir.blocks : ir.blocks[i].page >= 1
  BY Zenon DEF BuiltSound
<1> HIDE DEF ir
<1>2. 1 \in DOMAIN ir.pages /\ \A i \in DOMAIN ir.pages : 1 <= i
  BY <1>1, NonemptyHasFirst, Zenon
<1>3. ir.pages[1].number >= 1 /\ FirstPage(ir) >= 1
  BY <1>1, <1>2, Zenon DEF FirstPage
<1>4. \A id, page : Item(id, page).page = page
  BY DEF Item
<1>5. ASSUME NEW i \in BlockItems(ir) PROVE i.page >= 1
  <2>1. PICK k \in DOMAIN ir.blocks :
          i = [Item(<<"block", k>>, ir.blocks[k].page) EXCEPT !.trustedOcr = k \in OcrBoundary(ir)]
    BY DEF BlockItems
  <2>2. i.page = ir.blocks[k].page
    BY <2>1 DEF Item
  <2> QED BY <1>1, <2>2, Zenon
<1>6. ASSUME NEW i \in MappingItems(b.mapping, ir) PROVE i.page >= 1
  <2> DEFINE page(f) == IF f.found.block \in DOMAIN ir.blocks
                        THEN ir.blocks[f.found.block].page ELSE FirstPage(ir)
  <2>1. \A f : page(f) >= 1
    BY <1>1, <1>3, Zenon
  <2>2. \/ \E f : i = Item(<<"field", f.id>>, page(f))
        \/ i = Item(<<"mapping", 0>>, FirstPage(ir))
    BY DEF MappingItems
  <2> HIDE DEF page
  <2>3. i.page = FirstPage(ir) \/ \E f : i.page = page(f)
    BY <1>4, <2>2, Zenon
  <2> QED BY <1>3, <2>1, <2>3, Zenon
<1>7. ASSUME NEW i \in PlanItems(ir, pc) PROVE i.page >= 1
  <2> DEFINE good == {p \in DOMAIN ir.pages : ir.pages[p].number >= 1}
             least == CHOOSE p \in good : \A q \in good : p <= q
             first == IF good = {} THEN NoNumber ELSE ir.pages[least].number
  <2>1. good = DOMAIN ir.pages
    BY <1>1, Zenon
  <2>2. least \in DOMAIN ir.pages
    <3>1. \E p \in good : \A q \in good : p <= q
      BY <1>2, <2>1, Zenon
    <3> HIDE DEF good
    <3> QED BY <2>1, <3>1, Zenon
  <2>3. first >= 1
    BY <1>1, <1>2, <2>1, <2>2, Zenon
  <2>4. i = Item(<<"plan", 0>>, first)
    BY Zenon DEF PlanItems
  <2> HIDE DEF first
  <2> QED BY <1>4, <2>3, <2>4, Zenon
<1>8. ASSUME NEW i \in TableItems(ir, warnings) PROVE i.page >= 1
  <2>1. i = Item(<<"tables", 0>>, ir.pages[1].number)
    BY <1>1, Zenon DEF TableItems
  <2> QED BY <1>3, <1>4, <2>1, Zenon
<1> QED BY <1>5, <1>6, <1>7, <1>8, Zenon DEF ir

LEMMA ReviewedHasItems ==
    ASSUME NEW ir, Reviewed(ir)
    PROVE  BlockItems(ir) # {}
<1>1. PICK k \in DOMAIN ir.blocks : ir.blocks[k].review
  BY Zenon DEF Reviewed
<1>2. [Item(<<"block", k>>, ir.blocks[k].page)
          EXCEPT !.trustedOcr = k \in OcrBoundary(ir)] \in BlockItems(ir)
  BY <1>1 DEF BlockItems
<1> QED BY <1>2, Zenon

(* A reason to review a document that is not empty is an item.             *)
LEMMA ReviewHasItems ==
    ASSUME NEW u, NEW p, NEW b, NEW pc, NEW r \in BOOLEAN,
           BuiltSound(b, p.warnings), b.ir.blocks # <<>>,
           ResultOf(u, p, b, pc, r).status = "requires_review"
    PROVE  b.ok /\ ResultOf(u, p, b, pc, r).items # {}
<1> DEFINE format == PrimaryFormat(u)
           primary == b.ok /\ format # None /\ r
           primaryWarning == format # None /\ ~primary
           warnings == p.warnings \cup b.warnings
            \cup (IF pc = "fallback" THEN {"llm_fallback"} ELSE {})
            \cup (IF u.ocr THEN {"ocr_unsupported"} ELSE {})
            \cup (IF primaryWarning THEN {"primary_missing"} ELSE {})
           items == BlockItems(b.ir) \cup MappingItems(b.mapping, b.ir)
                       \cup PlanItems(b.ir, pc) \cup TableItems(b.ir, warnings)
           res == ResultOf(u, p, b, pc, r)
<1>1. res.items = items
  BY Zenon DEF ResultOf
<1>2. res.status = IF primaryWarning THEN "blocked"
                    ELSE Status(b.ok, b.review \/ warnings \cap ReviewWording # {})
  BY Zenon DEF ResultOf
<1>3. b.ok /\ (b.review \/ warnings \cap ReviewWording # {})
  <2>0. res.status = "requires_review"
    OBVIOUS
  <2> HIDE DEF res, warnings, primaryWarning
  <2>1. Status(b.ok, b.review \/ warnings \cap ReviewWording # {}) = "requires_review"
    BY <1>2, <2>0
  <2> QED BY <2>1, Zenon DEF Status
<1>4. CASE Reviewed(b.ir)
  <2>1. BlockItems(b.ir) # {}
    BY <1>4, ReviewedHasItems, Zenon
  <2> QED BY <1>1, <1>3, <2>1, Zenon
<1>5. CASE b.review
  <2>1. Reviewed(b.ir) \/ b.mapping.review
    BY <1>3, <1>5, Zenon DEF BuiltSound
  <2>2. CASE b.mapping.review
    <3>1. MappingItems(b.mapping, b.ir) # {}
      BY <2>2, Zenon DEF MappingItems
    <3> QED BY <1>1, <1>3, <3>1, Zenon
  <2> QED BY <1>4, <2>1, <2>2, Zenon
<1>6. CASE warnings \cap ReviewWording # {}
  <2>1. PICK x \in ReviewWording : x \in warnings
    BY <1>6, Zenon
  <2>2. CASE x \in b.warnings
    <3>1. Reviewed(b.ir)
      BY <2>1, <2>2, Zenon DEF BuiltSound
    <3> QED BY <1>4, <3>1, Zenon
  <2>3. CASE x \in p.warnings
    <3>1. x \in TableWarnings \/ x \in {"plain_text", "json_root"}
      BY <2>3, Zenon DEF BuiltSound
    <3>2. CASE x \in {"plain_text", "json_root"}
      <4>1. Reviewed(b.ir)
        BY <2>3, <3>2, Zenon DEF BuiltSound
      <4> QED BY <1>4, <4>1, Zenon
    <3>3. CASE x \in TableWarnings
      <4>1. TableItems(b.ir, warnings) # {}
        <5> HIDE DEF warnings
        <5> QED BY <2>1, <3>3, Zenon DEF TableItems
      <4> QED BY <1>1, <1>3, <4>1, Zenon
    <3> QED BY <3>1, <3>2, <3>3, Zenon
  <2>4. CASE x = "llm_fallback" /\ pc = "fallback"
    <3>1. PlanItems(b.ir, pc) # {}
      BY <2>4, Zenon DEF PlanItems
    <3> QED BY <1>1, <1>3, <3>1, Zenon
  <2>5. x \notin {"ocr_unsupported", "primary_missing"}
    BY <2>1 DEF ReviewWording, TableWarnings
  <2>6. \/ x \in p.warnings \/ x \in b.warnings
        \/ x \in (IF pc = "fallback" THEN {"llm_fallback"} ELSE {})
        \/ x \in (IF u.ocr THEN {"ocr_unsupported"} ELSE {})
        \/ x \in (IF primaryWarning THEN {"primary_missing"} ELSE {})
    BY <2>1, Zenon
  <2> HIDE DEF primaryWarning, warnings
  <2>7. x \in p.warnings \/ x \in b.warnings \/ (x = "llm_fallback" /\ pc = "fallback")
    BY <2>5, <2>6
  <2> QED BY <2>2, <2>3, <2>4, <2>7, Zenon
<1> QED BY <1>3, <1>5, <1>6, Zenon

-----------------------------------------------------------------------------
(* What each stage of a conversion knows of the earlier ones.              *)
Staged ==
    /\ UploadTyped(upload)
    /\ stage \in {"build", "plan", "done"} => parsed = ParseUpload(upload) /\ parsed.ok
    /\ stage \in {"plan", "done"} => BuiltFrom(upload, parsed.data, built)
    /\ stage = "done" => /\ llm.pc \in {"disabled", "fallback", "adopted"}
                         /\ \E r \in BOOLEAN :
                               result = ResultOf(upload, parsed, built, llm.pc, r)

LEMMA StagedNext ==
    ASSUME Staged, [Next]_vars
    PROVE  Staged'
<1> USE DEF Staged
<1>1. CASE Accept
  <2>1. /\ upload' = upload /\ stage' \in {"parse", "rejected"}
    BY <1>1, Zenon DEF Accept
  <2>2. stage' \notin {"build", "plan", "done"} /\ stage' # "done"
    BY <2>1
  <2> QED BY <2>1, <2>2, Zenon
<1>2. CASE Parse
  <2>1. /\ upload' = upload /\ parsed' = ParseUpload(upload)
        /\ stage' = "rejected" \/ (stage' = "build" /\ parsed'.ok)
    BY <1>2, Zenon DEF Parse
  <2>2. /\ stage' \notin {"plan", "done"} /\ stage' # "done"
        /\ stage' \in {"build", "plan", "done"} => stage' = "build" /\ parsed'.ok
    BY <2>1
  <2> QED BY <2>1, <2>2, Zenon
<1>3. CASE Build
  <2>1. /\ stage = "build" /\ upload' = upload /\ parsed' = parsed /\ stage' = "plan"
    BY <1>3, Zenon DEF Build
  <2>2. parsed = ParseUpload(upload) /\ parsed.ok
    BY <2>1
  <2>3. BuiltFrom(upload, parsed.data, built')
    <3> DEFINE ir == FromParserOutput(parsed.data, SourceType(upload, parsed.data))
               v == ValidateIR(ir)
               mapping == Mapping(upload, ir)
    <3>1. built' = [ir |-> ir, rows |-> AttachRows(ir, RowRecords(parsed.data)),
                mapping |-> mapping, ok |-> v.ok, review |-> v.review \/ mapping.review,
                warnings |-> v.warnings \cup (IF mapping.review THEN {"mapping"} ELSE {})]
      BY <1>3, Zenon DEF Build
    <3> HIDE DEF ir, v, mapping
    <3>2. /\ built'.ir = ir /\ built'.mapping = mapping /\ built'.ok = v.ok
          /\ built'.review = (v.review \/ mapping.review)
          /\ built'.warnings = v.warnings \cup (IF mapping.review THEN {"mapping"} ELSE {})
      BY <3>1, Zenon
    <3> QED BY <3>2, Zenon DEF BuiltFrom, ir, v, mapping
  <2>4. stage' # "done"
    BY <2>1
  <2> QED BY <2>1, <2>2, <2>3, <2>4, Zenon
<1>4. CASE Plan
  <2>1. convVars' = convVars /\ stage = "plan"
    BY <1>4, Zenon DEF Plan
  <2>2. /\ upload' = upload /\ parsed' = parsed /\ built' = built /\ stage' = "plan"
        /\ stage' # "done"
    BY <2>1 DEF convVars
  <2> QED BY <2>1, <2>2
<1>5. CASE Rebind
  <2>1. convVars' = convVars /\ stage = "plan"
    BY <1>5, Zenon DEF Rebind
  <2>2. /\ upload' = upload /\ parsed' = parsed /\ built' = built /\ stage' = "plan"
        /\ stage' # "done"
    BY <2>1 DEF convVars
  <2> QED BY <2>1, <2>2
<1>6. CASE PlanFails
  <2>1. upload' = upload /\ stage' = "rejected"
    BY <1>6, Zenon DEF PlanFails
  <2>2. stage' \notin {"build", "plan", "done"} /\ stage' \notin {"plan", "done"} /\ stage' # "done"
    BY <2>1
  <2> QED BY <2>1, <2>2, Zenon
<1>7. ASSUME NEW r \in BOOLEAN, Finish(r) PROVE Staged'
  <2>1. /\ stage = "plan" /\ llm.pc \in {"disabled", "fallback", "adopted"}
        /\ result' = ResultOf(upload, parsed, built, llm.pc, r)
        /\ upload' = upload /\ parsed' = parsed /\ built' = built /\ llmVars' = llmVars
    BY <1>7, Zenon DEF Finish
  <2>2. llm' = llm
    BY <2>1 DEF llmVars
  <2>3. stage \in {"build", "plan", "done"} /\ stage \in {"plan", "done"}
    BY <2>1
  <2> QED BY <2>1, <2>2, <2>3, Zenon
<1>8. CASE UNCHANGED vars
  <2>1. convVars' = convVars /\ llmVars' = llmVars
    BY <1>8, Zenon DEF vars
  <2>2. /\ upload' = upload /\ parsed' = parsed /\ built' = built /\ stage' = stage
        /\ result' = result /\ llm' = llm
    BY <2>1 DEF convVars, llmVars
  <2> QED BY <2>2, Zenon
<1> QED BY <1>1, <1>2, <1>3, <1>4, <1>5, <1>6, <1>7, <1>8, Zenon DEF Next

THEOREM StagesFollow == Spec => []Staged
<1>1. Init => Staged
  <2> SUFFICES ASSUME Init PROVE Staged
    OBVIOUS
  <2>1. UploadTyped(upload)
    BY UploadsAssumption, Zenon DEF Init
  <2>2. stage = "accept"
    BY Zenon DEF Init
  <2>3. stage \notin {"build", "plan", "done"} /\ stage \notin {"plan", "done"} /\ stage # "done"
    BY <2>2
  <2> QED BY <2>1, <2>3, Zenon DEF Staged
<1> QED BY <1>1, StagedNext, PTL DEF Spec

LEMMA ReviewNeedsVerdict ==
    ASSUME NEW u, NEW p, NEW b, NEW pc, NEW r \in BOOLEAN,
           ResultOf(u, p, b, pc, r).status = "requires_review"
    PROVE  b.ok
<1> SUFFICES ASSUME ~b.ok PROVE FALSE
  OBVIOUS
<1>1. \A review : Status(b.ok, review) = "blocked"
  BY Zenon DEF Status
<1>2. ResultOf(u, p, b, pc, r).status = "blocked"
  BY <1>1, Zenon DEF ResultOf
<1> QED BY <1>2

LEMMA ResultPages ==
    ASSUME NEW u, NEW p, NEW b, NEW pc, NEW r \in BOOLEAN, NEW w, BuiltSound(b, w), b.ok
    PROVE  \A i \in ResultOf(u, p, b, pc, r).items : i.page >= 1
<1> DEFINE res == ResultOf(u, p, b, pc, r)
<1>1. res.items = BlockItems(b.ir) \cup MappingItems(b.mapping, b.ir)
                       \cup PlanItems(b.ir, pc) \cup TableItems(b.ir, res.warnings)
  BY Zenon DEF ResultOf
<1> HIDE DEF res
<1>2. \A i \in res.items : i.page >= 1
  BY <1>1, ItemsHavePages, Zenon
<1> QED BY <1>2 DEF res

LEMMA ItemsAreTargets ==
    ASSUME NEW r, \A i \in r.items : i.page >= 1
    PROVE  {i.id : i \in r.items} = ReviewTargets(r)
  BY DEF ReviewTargets

(***************************************************************************)
(* Whatever is uploaded, whatever the plan and the renderer do: every      *)
(* review item of a conversion answered requires_review names a page, so   *)
(* that the review store accepts decisions for it, and a document that has *)
(* blocks has such an item (_conversion_review_items, _register_targets).  *)
(***************************************************************************)
THEOREM ReviewsAreActionable == Spec => []ReviewIsActionable
<1>1. Staged => ReviewIsActionable
  <2> SUFFICES ASSUME Staged, stage = "done", result.status = "requires_review"
               PROVE  /\ {i.id : i \in result.items} = ReviewTargets(result)
                      /\ built.ir.blocks # <<>> => result.items # {}
    BY Zenon DEF ReviewIsActionable
  <2>1. stage \in {"build", "plan", "done"} /\ stage \in {"plan", "done"}
    OBVIOUS
  <2>2. /\ UploadTyped(upload) /\ parsed = ParseUpload(upload)
        /\ BuiltFrom(upload, parsed.data, built)
    BY <2>1, Zenon DEF Staged
  <2>3. PICK r \in BOOLEAN : result = ResultOf(upload, parsed, built, llm.pc, r)
    BY Zenon DEF Staged
  <2>4. BuiltSound(built, parsed.warnings)
    BY <2>2, BuiltIsSound, Zenon
  <2>5. built.ok
    BY <2>3, ReviewNeedsVerdict, Zenon
  <2>6. \A i \in result.items : i.page >= 1
    BY <2>3, <2>4, <2>5, ResultPages, Zenon
  <2>7. built.ir.blocks # <<>> => result.items # {}
    BY <2>3, <2>4, ReviewHasItems, Zenon
  <2> QED BY <2>6, <2>7, ItemsAreTargets, Zenon
<1> QED BY <1>1, StagesFollow, PTL

-----------------------------------------------------------------------------
(* What an answer "converted" leaves out.                                  *)
LEMMA ConvertedParts ==
    ASSUME NEW u, NEW p, NEW b, NEW pc, NEW r \in BOOLEAN,
           ResultOf(u, p, b, pc, r).status = "converted"
    PROVE  /\ b.ok /\ ~b.review
           /\ p.warnings \cap ReviewWording = {}
           /\ ResultOf(u, p, b, pc, r).warnings \cap ReviewWording = {}
           /\ pc # "fallback"
           /\ PrimaryFormat(u) # None => "primary" \in ResultOf(u, p, b, pc, r).artifacts
<1> DEFINE res == ResultOf(u, p, b, pc, r)
           primary == b.ok /\ PrimaryFormat(u) # None /\ r
           primaryWarning == PrimaryFormat(u) # None /\ ~primary
           warnings == p.warnings \cup b.warnings
            \cup (IF pc = "fallback" THEN {"llm_fallback"} ELSE {})
            \cup (IF u.ocr THEN {"ocr_unsupported"} ELSE {})
            \cup (IF primaryWarning THEN {"primary_missing"} ELSE {})
<1>1. /\ res.status = (IF primaryWarning THEN "blocked"
                       ELSE Status(b.ok, b.review \/ warnings \cap ReviewWording # {}))
      /\ res.warnings = warnings
      /\ res.artifacts = (IF primary THEN {"primary"} ELSE {}) \cup {"debug"}
  BY Zenon DEF ResultOf
<1>2. res.status = "converted"
  OBVIOUS
<1>3. pc = "fallback" => "llm_fallback" \in warnings
  BY Zenon
<1>4. p.warnings \subseteq warnings
  BY Zenon
<1>5. primary => "primary" \in res.artifacts
  BY <1>1, Zenon
<1> HIDE DEF res, warnings
<1>6. ~primaryWarning /\ Status(b.ok, b.review \/ warnings \cap ReviewWording # {}) = "converted"
  <2> HIDE DEF primaryWarning
  <2> QED BY <1>1, <1>2
<1>7. b.ok /\ ~(b.review \/ warnings \cap ReviewWording # {})
  <2>1. \A ok, review : ok /\ review => Status(ok, review) = "requires_review"
    BY Zenon DEF Status
  <2>2. \A ok, review : ~ok => Status(ok, review) = "blocked"
    BY Zenon DEF Status
  <2> HIDE DEF primaryWarning
  <2> QED BY <1>6, <2>1, <2>2
<1>8. "llm_fallback" \in ReviewWording
  BY DEF ReviewWording
<1>9. /\ b.ok /\ ~b.review /\ p.warnings \cap ReviewWording = {}
      /\ res.warnings \cap ReviewWording = {} /\ pc # "fallback"
      /\ PrimaryFormat(u) # None => "primary" \in res.artifacts
  BY <1>1, <1>3, <1>4, <1>5, <1>6, <1>7, <1>8, Zenon
<1> QED BY <1>9 DEF res

-----------------------------------------------------------------------------
(* The mapping of a template, in terms of the operators it is made of.     *)
MappedFrom(m, ir, t, match, extracted) ==
    LET base == IF match.review THEN {}
                ELSE {i \in DOMAIN t.fields : Undoubted(ir, t, i, extracted[i])}
        values == ValuesOf(t, extracted, ReviewedFields(t, extracted, base))
    IN  /\ match = MatchFingerprint(ir, t) /\ extracted = ExtractedFields(ir, t, match)
        /\ m.known = match.known
        /\ m.fields = [i \in DOMAIN t.fields |->
                [id |-> t.fields[i].id, found |-> extracted[i],
                 review |-> FieldDoubt(ir, t, match, i, extracted[i], values)]]
        /\ m.output = WrittenOutput(m.fields, t)
        /\ ~m.review => \A i \in DOMAIN m.fields : ~m.fields[i].review

LEMMA MappingParts ==
    ASSUME NEW ir, NEW t
    PROVE  \E match, extracted : MappedFrom(ApplyMapping(ir, t), ir, t, match, extracted)
<1> DEFINE match == MatchFingerprint(ir, t)
           extracted == ExtractedFields(ir, t, match)
           base == IF match.review THEN {}
                ELSE {i \in DOMAIN t.fields : Undoubted(ir, t, i, extracted[i])}
           values == ValuesOf(t, extracted, ReviewedFields(t, extracted, base))
           fields == [i \in DOMAIN t.fields |->
                [id |-> t.fields[i].id, found |-> extracted[i],
                 review |-> FieldDoubt(ir, t, match, i, extracted[i], values)]]
           m == ApplyMapping(ir, t)
<1> DEFINE output == WrittenOutput(fields, t)
           review == \/ match.warnings # {} \/ ~match.known
                     \/ \E i \in DOMAIN fields : fields[i].review
                     \/ \E j, k \in DOMAIN t.tableKeys :
                            j # k /\ KeysConflict(t.tableKeys[j], t.tableKeys[k])
<1>1. m = [fields |-> fields, output |-> output, known |-> match.known, review |-> review]
  BY Zenon DEF ApplyMapping
<1>2. /\ m.known = match.known /\ m.fields = fields /\ m.output = output
      /\ m.review = review
  <2> DEFINE known == match.known
  <2>1. m = [fields |-> fields, output |-> output, known |-> known, review |-> review]
    BY <1>1
  <2> HIDE DEF m, fields, output, known, review
  <2>2. m.known = known /\ m.fields = fields /\ m.output = output /\ m.review = review
    BY <2>1
  <2> QED BY <2>2 DEF known
<1> HIDE DEF m, fields
<1>3. m.output = WrittenOutput(m.fields, t)
  BY <1>2, Zenon
<1>4. ~m.review => \A i \in DOMAIN m.fields : ~m.fields[i].review
  BY <1>2, Zenon
<1>5. match = MatchFingerprint(ir, t) /\ extracted = ExtractedFields(ir, t, match)
  OBVIOUS
<1> HIDE DEF match, extracted
<1>6. MappedFrom(m, ir, t, match, extracted)
  BY <1>2, <1>3, <1>4, <1>5, Zenon DEF MappedFrom, fields
<1> QED BY <1>6, Zenon DEF m

(* A mapped field, with the values its rules are checked against.          *)
KeptValues(ir, t, match, extracted) ==
    ValuesOf(t, extracted,
             ReviewedFields(t, extracted,
                 IF match.review THEN {}
                 ELSE {i \in DOMAIN t.fields : Undoubted(ir, t, i, extracted[i])}))

LEMMA MappedField ==
    ASSUME NEW m, NEW ir, NEW t, NEW match, NEW extracted,
           MappedFrom(m, ir, t, match, extracted), NEW i \in DOMAIN t.fields
    PROVE  /\ m.fields[i].found = extracted[i]
           /\ m.fields[i].review = FieldDoubt(ir, t, match, i, extracted[i],
                                              KeptValues(ir, t, match, extracted))
<1> DEFINE kept == KeptValues(ir, t, match, extracted)
           doubt(k) == FieldDoubt(ir, t, match, k, extracted[k], kept)
<1>1. m.fields = [k \in DOMAIN t.fields |->
                    [id |-> t.fields[k].id, found |-> extracted[k], review |-> doubt(k)]]
  BY Zenon DEF MappedFrom, KeptValues
<1> HIDE DEF doubt
<1>2. m.fields[i] = [id |-> t.fields[i].id, found |-> extracted[i], review |-> doubt(i)]
  BY <1>1, Zenon
<1>3. m.fields[i].found = extracted[i] /\ m.fields[i].review = doubt(i)
  BY <1>2
<1> QED BY <1>3 DEF doubt

(* A field under review puts the mapping under review.                     *)
LEMMA MappedFieldsSettled ==
    ASSUME NEW u, NEW ir, ~Mapping(u, ir).review
    PROVE  \A f \in Range(Mapping(u, ir).fields) : ~f.review
<1> DEFINE m == Mapping(u, ir)
<1>1. CASE u.template = None
  <2>1. m = [fields |-> <<>>, output |-> {}, known |-> FALSE, review |-> FALSE]
    BY <1>1, Zenon DEF Mapping
  <2>2. m.fields = <<>>
    BY <2>1
  <2>3. Range(<<>>) = {}
    BY DEF Range
  <2> HIDE DEF m
  <2>4. \A f \in Range(m.fields) : ~f.review
    BY <2>2, <2>3
  <2> QED BY <2>4 DEF m
<1>2. CASE u.template # None
  <2>1. m = ApplyMapping(ir, u.definition)
    BY <1>2, Zenon DEF Mapping
  <2>2. PICK match, extracted : MappedFrom(m, ir, u.definition, match, extracted)
    BY <2>1, MappingParts, Zenon
  <2>3. ~m.review
    OBVIOUS
  <2> HIDE DEF m
  <2>4. \A i \in DOMAIN m.fields : ~m.fields[i].review
    BY <2>2, <2>3, Zenon DEF MappedFrom
  <2>5. \A f \in Range(m.fields) : ~f.review
    BY <2>4, Zenon DEF Range
  <2> QED BY <2>5 DEF m
<1> QED BY <1>1, <1>2

(* Without a review there is no item.                                      *)
LEMMA NoReviewNoItems ==
    ASSUME NEW u, NEW p, NEW b, NEW pc, NEW r \in BOOLEAN,
           BuiltSound(b, p.warnings), b.mapping = Mapping(u, b.ir),
           ResultOf(u, p, b, pc, r).status = "converted"
    PROVE  ResultOf(u, p, b, pc, r).items = {}
<1> DEFINE res == ResultOf(u, p, b, pc, r)
<1>1. res.items = BlockItems(b.ir) \cup MappingItems(b.mapping, b.ir)
                       \cup PlanItems(b.ir, pc) \cup TableItems(b.ir, res.warnings)
  BY Zenon DEF ResultOf
<1>2. ~b.review /\ res.warnings \cap ReviewWording = {} /\ pc # "fallback"
  BY ConvertedParts, Zenon
<1> HIDE DEF res
<1>3. ~Reviewed(b.ir) /\ ~b.mapping.review
  BY <1>2, Zenon DEF BuiltSound
<1>4. BlockItems(b.ir) = {}
  <2>1. {i \in DOMAIN b.ir.blocks : b.ir.blocks[i].review} = {}
    BY <1>3, Zenon DEF Reviewed
  <2> QED BY <2>1 DEF BlockItems
<1>5. MappingItems(b.mapping, b.ir) = {}
  <2>1. {f \in Range(b.mapping.fields) : f.review} = {}
    BY <1>3, MappedFieldsSettled, Zenon
  <2> QED BY <1>3, <2>1, Zenon DEF MappingItems
<1>6. PlanItems(b.ir, pc) = {}
  BY <1>2, Zenon DEF PlanItems
<1>7. TableItems(b.ir, res.warnings) = {}
  <2>1. res.warnings \cap TableWarnings = {}
    BY <1>2, Zenon DEF ReviewWording
  <2> QED BY <2>1, Zenon DEF TableItems
<1>8. res.items = {}
  BY <1>1, <1>4, <1>5, <1>6, <1>7, Zenon
<1> QED BY <1>8 DEF res

(* Blocks without a doubt are whole.                                       *)
LEMMA UnreviewedBlocks ==
    ASSUME NEW ir, BlocksMarked(ir), ~Reviewed(ir), NEW i \in DOMAIN ir.blocks
    PROVE  LET b == ir.blocks[i] IN b.box.at # None /\ b.text # None /\ b.warnings = {}
  BY Zenon DEF BlocksMarked, Reviewed

-----------------------------------------------------------------------------
(* Table extractors that warn of nothing.                                  *)
LEMMA TablesAgree ==
    ASSUME NEW candidates, NEW i \in DOMAIN candidates, NEW j \in DOMAIN candidates,
           ~Disagree(candidates[i], candidates[j]),
           \A n \in {i, j} :
              LET ts == candidates[n].tables
              IN  /\ IsSequence(ts)
                  /\ \A k \in DOMAIN ts : /\ ts[k].cells = "all"
                        /\ ts[k] = [page |-> ts[k].page, rows |-> ts[k].rows,
                                    cells |-> ts[k].cells]
    PROVE  candidates[i].tables = candidates[j].tables
<1> DEFINE s == candidates[i].tables
           t == candidates[j].tables
<1>1. /\ Len(s) = Len(t)
      /\ \A k \in DOMAIN s \cap DOMAIN t : s[k].page = t[k].page /\ s[k].rows = t[k].rows
  BY Zenon DEF Disagree
<1>2. /\ IsSequence(s) /\ IsSequence(t)
      /\ \A k \in DOMAIN s : s[k] = [page |-> s[k].page, rows |-> s[k].rows, cells |-> "all"]
      /\ \A k \in DOMAIN t : t[k] = [page |-> t[k].page, rows |-> t[k].rows, cells |-> "all"]
  BY Zenon
<1> HIDE DEF s, t
<1>3. Listed(s) /\ Listed(t) /\ DOMAIN s = 1..Len(s) /\ DOMAIN t = 1..Len(t)
  BY <1>2, SequenceIsListed, Zenon
<1>4. ASSUME NEW k \in 1..Len(s) PROVE s[k] = t[k]
  <2>1. k \in DOMAIN s /\ k \in DOMAIN t
    BY <1>1, <1>3
  <2>2. s[k].page = t[k].page /\ s[k].rows = t[k].rows
    BY <1>1, <2>1
  <2>3. /\ s[k] = [page |-> s[k].page, rows |-> s[k].rows, cells |-> "all"]
        /\ t[k] = [page |-> t[k].page, rows |-> t[k].rows, cells |-> "all"]
    BY <1>2, <2>1
  <2> QED BY <2>2, <2>3
<1>5. s = t
  BY <1>1, <1>3, <1>4 DEF Listed
<1> QED BY <1>5 DEF s, t

LEMMA CleanReport ==
    ASSUME NEW candidates, PdfTableWarnings(ExtractionReport(candidates)) = {},
           \A i \in DOMAIN candidates :
              LET ts == candidates[i].tables
              IN  /\ IsSequence(ts)
                  /\ \A k \in DOMAIN ts :
                        ts[k] = [page |-> ts[k].page, rows |-> ts[k].rows, cells |-> ts[k].cells]
    PROVE  /\ \A i \in DOMAIN candidates : candidates[i].ok
           /\ \A i, j \in DOMAIN candidates : candidates[i].tables = candidates[j].tables
           /\ \A i \in DOMAIN candidates : \A k \in DOMAIN candidates[i].tables :
                 candidates[i].tables[k].cells = "all"
<1> DEFINE report == ExtractionReport(candidates)
<1>1. report.candidates = candidates /\ report.mismatched = Mismatched(candidates)
  BY DEF ExtractionReport
<1> HIDE DEF report
<1>2. ~SomeUnavailable(report) /\ ~report.mismatched
  <2>1. "tables_disagree" \notin PdfTableWarnings(report)
    BY DEF report
  <2>2. "tables_unavailable" \notin PdfTableWarnings(report)
    BY DEF report
  <2>3. report.mismatched => "tables_disagree" \in PdfTableWarnings(report)
    BY Zenon DEF PdfTableWarnings
  <2>4. SomeUnavailable(report) => "tables_unavailable" \in PdfTableWarnings(report)
    BY Zenon DEF PdfTableWarnings
  <2> QED BY <2>1, <2>2, <2>3, <2>4, Zenon
<1>3. \A i \in DOMAIN candidates : candidates[i].ok
  BY <1>1, <1>2, Zenon DEF SomeUnavailable
<1>4. BlockedCandidates(candidates) = {}
  BY <1>1, <1>2, Zenon DEF Mismatched
<1>5. ASSUME NEW i \in DOMAIN candidates
      PROVE  /\ \A k \in DOMAIN candidates[i].tables : candidates[i].tables[k].cells = "all"
             /\ \A j \in DOMAIN candidates \ {i} : ~Disagree(candidates[i], candidates[j])
  <2>1. i \notin BlockedCandidates(candidates)
    BY <1>4
  <2> QED BY <1>3, <2>1, Zenon DEF BlockedCandidates
<1>6. ASSUME NEW i \in DOMAIN candidates, NEW j \in DOMAIN candidates
      PROVE  candidates[i].tables = candidates[j].tables
  <2>1. CASE i = j
    BY <2>1
  <2>2. CASE i # j
    <3>1. ~Disagree(candidates[i], candidates[j])
      BY <1>5, <2>2, Zenon
    <3>2. \A n \in {i, j} :
            LET ts == candidates[n].tables
            IN  /\ IsSequence(ts)
                /\ \A k \in DOMAIN ts : /\ ts[k].cells = "all"
                      /\ ts[k] = [page |-> ts[k].page, rows |-> ts[k].rows,
                                  cells |-> ts[k].cells]
      BY <1>5, Zenon
    <3> QED BY <3>1, <3>2, TablesAgree, Zenon
  <2> QED BY <2>1, <2>2
<1> QED BY <1>3, <1>5, <1>6, Zenon

LEMMA CleanTables ==
    ASSUME NEW u, UploadTyped(u), u.ext = "pdf", u.mode = "pdf_to_excel",
           ParseUpload(u).ok, ParseUpload(u).warnings \cap ReviewWording = {}
    PROVE  LET cs == u.data.candidates
           IN  /\ \A i \in DOMAIN cs : cs[i].ok
               /\ \A i, j \in DOMAIN cs : cs[i].tables = cs[j].tables
               /\ \A i \in DOMAIN cs : \A k \in DOMAIN cs[i].tables :
                     cs[i].tables[k].cells = "all"
<1> DEFINE cs == u.data.candidates
           text == AdaptV0Blocks(ParseTextPdf(u.layer))
           report == ExtractionReport(cs)
<1>1. u.ext # "other" /\ u.ext \notin {"docx", "xlsx"}
  OBVIOUS
<1>2. ParseUpload(u) = ParseBinary(u)
  BY <1>1, Zenon DEF ParseUpload
<1>3. u.content = "file"
  <2>1. u.content \in {"file", "corrupt", "no_dependency"}
    BY <1>1, Zenon DEF UploadTyped
  <2>2. CASE u.content \in {"corrupt", "no_dependency"}
    <3>1. ParseBinary(u) = Refused
      BY <2>2, Zenon DEF ParseBinary
    <3>2. ~Refused.ok
      BY DEF Refused
    <3> QED BY <1>2, <3>1, <3>2, Zenon
  <2> QED BY <2>1, <2>2, Zenon
<1>4. ParseBinary(u) = Output(WithPdfTables(text, report), PdfTableWarnings(report))
  <2>1. u.content \notin {"corrupt", "no_dependency"}
    BY <1>3
  <2> QED BY <1>1, <1>3, <2>1, Zenon DEF ParseBinary
<1>5. \A data, w : Output(data, w).warnings = w
  BY DEF Output
<1>6. ParseUpload(u).warnings = PdfTableWarnings(report)
  <2> HIDE DEF text, report
  <2> QED BY <1>2, <1>4, <1>5
<1>7. PdfTableWarnings(report) \subseteq ReviewWording
  BY Zenon DEF PdfTableWarnings, ReviewWording, TableWarnings
<1>8. PdfTableWarnings(report) = {}
  BY <1>6, <1>7, Zenon
<1>9. \A i \in DOMAIN cs :
         LET ts == cs[i].tables
         IN  /\ IsSequence(ts)
             /\ \A k \in DOMAIN ts :
                   ts[k] = [page |-> ts[k].page, rows |-> ts[k].rows, cells |-> ts[k].cells]
  BY Zenon DEF UploadTyped
<1> HIDE DEF cs
<1>10. /\ \A i \in DOMAIN cs : cs[i].ok
       /\ \A i, j \in DOMAIN cs : cs[i].tables = cs[j].tables
       /\ \A i \in DOMAIN cs : \A k \in DOMAIN cs[i].tables :
             cs[i].tables[k].cells = "all"
  BY <1>8, <1>9, CleanReport, Zenon
<1> QED BY <1>10 DEF cs

-----------------------------------------------------------------------------
(* What is written.  The recursive function of WrittenOutput is defined on *)
(* every list, and without a conflict of keys each value is kept.          *)
FieldsWritten(fields, t, m, f) ==
    f = [n \in 0..m |-> IF n = 0 THEN {} ELSE WriteField(f[n - 1], fields[n], t.fields[n].key)]

LEMMA WrittenAfter ==
    ASSUME NEW fields, NEW t, Len(fields) \in Nat
    PROVE  \E f : FieldsWritten(fields, t, Len(fields), f)
<1> DEFINE Defined(m, f) == FieldsWritten(fields, t, m, f)
           T == {m \in Nat : \E f : Defined(m, f)}
<1>1. 0 \in T
  <2> DEFINE f == [n \in 0..0 |-> {}]
  <2>1. Defined(0, f)
    <3>1. \A n \in 0..0 : n = 0
      OBVIOUS
    <3> QED BY <3>1, Zenon DEF FieldsWritten
  <2> HIDE DEF Defined, f
  <2> QED BY <2>1
<1>2. ASSUME NEW m \in Nat, m \in T PROVE m + 1 \in T
  <2> HIDE DEF Defined
  <2>1. PICK f : Defined(m, f)
    BY <1>2
  <2> DEFINE g == [n \in 0..(m + 1) |->
                     IF n = m + 1 THEN WriteField(f[m], fields[m + 1], t.fields[m + 1].key) ELSE f[n]]
  <2>2. Defined(m + 1, g)
    <3>1. f = [n \in 0..m |-> IF n = 0 THEN {} ELSE WriteField(f[n - 1], fields[n], t.fields[n].key)]
      BY <2>1, Zenon DEF Defined, FieldsWritten
    <3>2. ASSUME NEW n \in 0..(m + 1)
          PROVE  g[n] = IF n = 0 THEN {} ELSE WriteField(g[n - 1], fields[n], t.fields[n].key)
      <4>1. CASE n = m + 1
        <5>1. n # 0 /\ n - 1 = m /\ m \in 0..(m + 1) /\ m # m + 1
          BY <4>1
        <5>2. g[m] = f[m] /\ g[n] = WriteField(f[m], fields[m + 1], t.fields[m + 1].key)
          BY <4>1, <5>1, Zenon
        <5> HIDE DEF g
        <5> QED BY <4>1, <5>1, <5>2, Zenon
      <4>2. CASE n = 0
        <5>1. n \in 0..m /\ n # m + 1
          BY <4>2
        <5> QED BY <3>1, <4>2, <5>1, Zenon
      <4>3. CASE n # m + 1 /\ n # 0
        <5>1. n \in 0..m /\ n - 1 \in 0..(m + 1) /\ n - 1 # m + 1
          BY <4>3
        <5>2. g[n] = f[n] /\ g[n - 1] = f[n - 1]
          BY <4>3, <5>1, Zenon
        <5>3. f[n] = WriteField(f[n - 1], fields[n], t.fields[n].key)
          BY <3>1, <4>3, <5>1, Zenon
        <5> HIDE DEF g
        <5> QED BY <4>3, <5>2, <5>3, Zenon
      <4> QED BY <4>1, <4>2, <4>3, Zenon
    <3>3. g = [n \in 0..(m + 1) |-> g[n]]
      BY Zenon
    <3> HIDE DEF g
    <3> QED BY <3>2, <3>3, Zenon DEF Defined, FieldsWritten
  <2> HIDE DEF g
  <2> QED BY <2>2
<1>3. Len(fields) \in T
  <2> HIDE DEF T
  <2> QED BY <1>1, <1>2, SetInduction, Zenon
<1> QED BY <1>3, Zenon

Writes(fields, i) == ~fields[i].review /\ fields[i].found.value # <<>>

Outputs(fields, t, S) ==
    {[path |-> t.fields[i].key, value |-> fields[i].found.value] :
       i \in {i \in S : Writes(fields, i) /\ t.fields[i].key # <<>>}}

LEMMA WriteStep ==
    ASSUME NEW fields, NEW t, NEW n \in DOMAIN t.fields, NEW S, S \subseteq DOMAIN t.fields \ {n},
           Writes(fields, n) => n \notin KeyConflicts(t)
    PROVE  WriteField(Outputs(fields, t, S), fields[n], t.fields[n].key)
             = Outputs(fields, t, S \cup {n})
<1> DEFINE before == Outputs(fields, t, S)
           key == t.fields[n].key
           new == [path |-> key, value |-> fields[n].found.value]
<1>1. CASE ~Writes(fields, n)
  <2>1. WriteField(before, fields[n], key) = before
    BY <1>1, Zenon DEF WriteField, Writes
  <2>2. {i \in S \cup {n} : Writes(fields, i) /\ t.fields[i].key # <<>>}
          = {i \in S : Writes(fields, i) /\ t.fields[i].key # <<>>}
    BY <1>1, Zenon
  <2> QED BY <2>1, <2>2, Zenon DEF Outputs
<1>2. CASE Writes(fields, n) /\ key = <<>>
  <2>1. WriteField(before, fields[n], key) = before
    BY <1>2, Zenon DEF WriteField, Writes, SetOutput
  <2>2. {i \in S \cup {n} : Writes(fields, i) /\ t.fields[i].key # <<>>}
          = {i \in S : Writes(fields, i) /\ t.fields[i].key # <<>>}
    BY <1>2, Zenon
  <2> QED BY <2>1, <2>2, Zenon DEF Outputs
<1>3. CASE Writes(fields, n) /\ key # <<>>
  <2>1. WriteField(before, fields[n], key)
          = {o \in before : ~(IsPrefix(o.path, key) \/ IsPrefix(key, o.path))} \cup {new}
    BY <1>3, Zenon DEF WriteField, Writes, SetOutput
  <2>2. ASSUME NEW o \in before PROVE ~(IsPrefix(o.path, key) \/ IsPrefix(key, o.path))
    <3>1. PICK i \in S : /\ t.fields[i].key # <<>>
                         /\ o = [path |-> t.fields[i].key, value |-> fields[i].found.value]
      BY DEF Outputs
    <3>2. o.path = t.fields[i].key
      BY <3>1
    <3>3. n \notin KeyConflicts(t) /\ i \in DOMAIN t.fields \ {n}
      BY <1>3, Zenon
    <3>4. ~KeysConflict(key, t.fields[i].key)
      BY <3>3, Zenon DEF KeyConflicts
    <3> QED BY <1>3, <3>1, <3>2, <3>4, Zenon DEF KeysConflict
  <2>3. WriteField(before, fields[n], key) = before \cup {new}
    <3> HIDE DEF before, new, key
    <3> QED BY <2>1, <2>2, Zenon
  <2>4. Outputs(fields, t, S \cup {n}) = before \cup {new}
    BY <1>3 DEF Outputs
  <2> QED BY <2>3, <2>4, Zenon
<1> QED BY <1>1, <1>2, <1>3, Zenon

LEMMA WrittenIs ==
    ASSUME NEW fields, NEW t, Listed(t.fields), DOMAIN t.fields = 1..Len(t.fields),
           Len(fields) = Len(t.fields),
           \A i \in DOMAIN t.fields : Writes(fields, i) => i \notin KeyConflicts(t)
    PROVE  WrittenOutput(fields, t) = Outputs(fields, t, DOMAIN t.fields)
<1> DEFINE N == Len(t.fields)
           after == CHOOSE f : f = [n \in 0..Len(fields) |->
                IF n = 0 THEN {} ELSE WriteField(f[n - 1], fields[n], t.fields[n].key)]
           T == {n \in Nat : n <= N => after[n] = Outputs(fields, t, 1..n)}
<1>0. N \in Nat /\ Len(fields) \in Nat
  BY DEF Listed
<1>1. WrittenOutput(fields, t) = after[Len(fields)]
  BY Zenon DEF WrittenOutput
<1>2. after = [n \in 0..Len(fields) |->
                 IF n = 0 THEN {} ELSE WriteField(after[n - 1], fields[n], t.fields[n].key)]
  <2>1. \E f : FieldsWritten(fields, t, Len(fields), f)
    BY <1>0, WrittenAfter, Zenon
  <2> QED BY <2>1, Zenon DEF FieldsWritten
<1> HIDE DEF after
<1>3. 0 \in T
  <2>1. 0 \in 0..Len(fields)
    BY <1>0
  <2>2. after[0] = {}
    BY <1>2, <2>1, Zenon
  <2>3. 1..0 = {}
    OBVIOUS
  <2>4. Outputs(fields, t, {}) = {}
    BY DEF Outputs
  <2> QED BY <2>2, <2>3, <2>4
<1>4. ASSUME NEW n \in Nat, n \in T PROVE n + 1 \in T
  <2> SUFFICES ASSUME n + 1 <= N PROVE after[n + 1] = Outputs(fields, t, 1..(n + 1))
    OBVIOUS
  <2>1. n + 1 \in 0..Len(fields) /\ n + 1 # 0 /\ (n + 1) - 1 = n
    BY <1>0
  <2>2. after[n + 1] = WriteField(after[n], fields[n + 1], t.fields[n + 1].key)
    BY <1>2, <2>1, Zenon
  <2>3. after[n] = Outputs(fields, t, 1..n)
    BY <1>0, <1>4
  <2>4. n + 1 \in DOMAIN t.fields /\ 1..n \subseteq DOMAIN t.fields \ {n + 1}
    BY <1>0
  <2>5. Writes(fields, n + 1) => n + 1 \notin KeyConflicts(t)
    BY <2>4, Zenon
  <2>6. WriteField(Outputs(fields, t, 1..n), fields[n + 1], t.fields[n + 1].key)
          = Outputs(fields, t, (1..n) \cup {n + 1})
    BY <2>4, <2>5, WriteStep, ZenonT(60)
  <2>7. (1..n) \cup {n + 1} = 1..(n + 1)
    OBVIOUS
  <2> QED BY <2>2, <2>3, <2>6, <2>7
<1>5. N \in T
  <2> HIDE DEF T
  <2> QED BY <1>0, <1>3, <1>4, SetInduction, Zenon
<1>6. after[N] = Outputs(fields, t, 1..N)
  BY <1>0, <1>5
<1> QED BY <1>1, <1>6

(* The output of a mapping holds the values not held for review, no other. *)
LEMMA MappedOutput ==
    ASSUME NEW m, NEW ir, NEW t, NEW match, NEW extracted,
           MappedFrom(m, ir, t, match, extracted), IsSequence(t.fields)
    PROVE  /\ DOMAIN m.fields = DOMAIN t.fields
           /\ \A i \in DOMAIN t.fields : m.fields[i].found = extracted[i]
           /\ m.output = Outputs(m.fields, t, DOMAIN t.fields)
<1> DEFINE kept == KeptValues(ir, t, match, extracted)
           N == Len(t.fields)
           fields == m.fields
<1>1. Listed(t.fields) /\ DOMAIN t.fields = 1..N /\ N \in Nat
  BY SequenceIsListed, Zenon DEF Listed
<1>2. m.fields = [i \in DOMAIN t.fields |-> m.fields[i]]
  BY Zenon DEF MappedFrom
<1>3. m.output = WrittenOutput(m.fields, t)
  BY Zenon DEF MappedFrom
<1> HIDE DEF N
<1>4. fields = [i \in 1..N |-> fields[i]]
  BY <1>1, <1>2
<1>5. Len(fields) = N /\ DOMAIN fields = DOMAIN t.fields
  <2> HIDE DEF fields
  <2> QED BY <1>1, <1>4, FunctionIsListed, Zenon
<1>6. \A i \in DOMAIN t.fields :
         /\ fields[i].found = extracted[i]
         /\ fields[i].review = FieldDoubt(ir, t, match, i, extracted[i], kept)
  BY MappedField
<1>7. \A i \in DOMAIN t.fields : Writes(fields, i) => i \notin KeyConflicts(t)
  <2>1. ASSUME NEW i \in DOMAIN t.fields, Writes(fields, i) PROVE i \notin KeyConflicts(t)
    <3>1. ~FieldDoubt(ir, t, match, i, extracted[i], kept)
      BY <1>6, <2>1, Zenon DEF Writes
    <3> QED BY <3>1, Zenon DEF FieldDoubt
  <2> QED BY <2>1
<1> HIDE DEF fields
<1>8. WrittenOutput(fields, t) = Outputs(fields, t, DOMAIN t.fields)
  BY <1>1, <1>5, <1>7, WrittenIs, Zenon DEF N
<1> QED BY <1>3, <1>5, <1>6, <1>8 DEF fields

(* A required field that has a key and is not under review is written.     *)
LEMMA RequiredWritten ==
    ASSUME NEW m, NEW ir, NEW t, NEW match, NEW extracted,
           MappedFrom(m, ir, t, match, extracted), IsSequence(t.fields),
           NEW i \in DOMAIN t.fields, t.fields[i].required, t.fields[i].key # <<>>,
           ~m.fields[i].review
    PROVE  \E o \in m.output : o.path = t.fields[i].key
<1> DEFINE kept == KeptValues(ir, t, match, extracted)
           o == [path |-> t.fields[i].key, value |-> m.fields[i].found.value]
<1>1. /\ m.fields[i].found = extracted[i]
      /\ m.output = Outputs(m.fields, t, DOMAIN t.fields)
  BY MappedField, MappedOutput
<1>2. ~FieldDoubt(ir, t, match, i, extracted[i], kept)
  BY MappedField
<1>3. extracted[i].value # <<>>
  BY <1>2, Zenon DEF FieldDoubt
<1>4. Writes(m.fields, i)
  BY <1>1, <1>3, Zenon DEF Writes
<1>5. o \in m.output
  BY <1>1, <1>4, Zenon DEF Outputs
<1>6. o.path = t.fields[i].key
  OBVIOUS
<1> QED BY <1>5, <1>6, Zenon

LEMMA RequiredOutput ==
    ASSUME NEW u, NEW ir, UploadTyped(u), u.template # None, ~Mapping(u, ir).review,
           NEW i \in DOMAIN u.definition.fields,
           u.definition.fields[i].required, u.definition.fields[i].key # <<>>
    PROVE  \E o \in Mapping(u, ir).output : o.path = u.definition.fields[i].key
<1> DEFINE m == Mapping(u, ir)
           t == u.definition
<1>1. m = ApplyMapping(ir, t)
  BY Zenon DEF Mapping
<1>2. IsSequence(t.fields)
  BY Zenon DEF UploadTyped
<1>3. PICK match, extracted : MappedFrom(m, ir, t, match, extracted)
  BY <1>1, MappingParts, Zenon
<1>4. ~m.review
  OBVIOUS
<1> HIDE DEF m
<1>5. DOMAIN m.fields = DOMAIN t.fields
  BY <1>2, <1>3, MappedOutput, Zenon
<1>6. i \in DOMAIN t.fields /\ t.fields[i].required /\ t.fields[i].key # <<>>
  OBVIOUS
<1> HIDE DEF t
<1>7. ~m.fields[i].review
  BY <1>3, <1>4, <1>5, <1>6, Zenon DEF MappedFrom
<1>8. \E o \in m.output : o.path = t.fields[i].key
  BY <1>2, <1>3, <1>7, <1>6, RequiredWritten
<1> QED BY <1>8 DEF m, t

(***************************************************************************)
(* Whatever is uploaded, whatever the plan and the renderer do: an answer  *)
(* "converted" leaves nothing to look at.  There is no review item, every  *)
(* block has a place and a text, the plan was not replaced, the artifact   *)
(* asked for is there, the table extractors agreed, and every required     *)
(* field that has an output key is in the output                           *)
(* (convert_uploaded_document, _requires_review).                          *)
(***************************************************************************)
THEOREM ConvertedLeavesNothing == Spec => []ConvertedIsClean
<1>1. Staged => ConvertedIsClean
  <2> SUFFICES ASSUME Staged, stage = "done", result.status = "converted"
               PROVE  ConvertedIsClean
    BY Zenon DEF ConvertedIsClean
  <2>1. stage \in {"build", "plan", "done"} /\ stage \in {"plan", "done"}
    OBVIOUS
  <2>2. /\ UploadTyped(upload) /\ parsed = ParseUpload(upload) /\ parsed.ok
        /\ BuiltFrom(upload, parsed.data, built)
    BY <2>1, Zenon DEF Staged
  <2>3. PICK r \in BOOLEAN : result = ResultOf(upload, parsed, built, llm.pc, r)
    BY Zenon DEF Staged
  <2>4. BuiltSound(built, parsed.warnings) /\ built.mapping = Mapping(upload, built.ir)
    BY <2>2, BuiltIsSound, Zenon DEF BuiltFrom
  <2>5. /\ ~built.review /\ parsed.warnings \cap ReviewWording = {} /\ llm.pc # "fallback"
        /\ PrimaryFormat(upload) # None => "primary" \in result.artifacts
    BY <2>3, ConvertedParts, Zenon
  <2>6. result.items = {}
    BY <2>3, <2>4, NoReviewNoItems, Zenon
  <2>7. BlocksMarked(built.ir) /\ ~Reviewed(built.ir) /\ ~built.mapping.review
    BY <2>4, <2>5, Zenon DEF BuiltSound
  <2>8. \A i \in DOMAIN built.ir.blocks :
           LET b == built.ir.blocks[i]
           IN  b.box.at # None /\ b.text # None /\ b.warnings = {}
    BY <2>7, UnreviewedBlocks, Zenon
  <2>9. (upload.ext = "pdf" /\ upload.mode = "pdf_to_excel") =>
           LET cs == upload.data.candidates
           IN  /\ \A i \in DOMAIN cs : cs[i].ok
               /\ \A i, j \in DOMAIN cs : cs[i].tables = cs[j].tables
               /\ \A i \in DOMAIN cs : \A k \in DOMAIN cs[i].tables :
                     cs[i].tables[k].cells = "all"
    BY <2>2, <2>5, CleanTables, Zenon
  <2>10. upload.template # None =>
           \A i \in DOMAIN upload.definition.fields :
              (upload.definition.fields[i].required /\ upload.definition.fields[i].key # <<>>) =>
                 \E o \in built.mapping.output : o.path = upload.definition.fields[i].key
    BY <2>2, <2>4, <2>7, RequiredOutput
  <2> QED BY <2>5, <2>6, <2>8, <2>9, <2>10, Zenon DEF ConvertedIsClean
<1> QED BY <1>1, StagesFollow, PTL

-----------------------------------------------------------------------------
(* Rules between fields.  Fields that fail one are dropped round by round; *)
(* after as many rounds as there are fields nothing changes any more.      *)
Passing(t, extracted, S) ==
    {i \in S : ~ValidationDoubt(t, t.fields[i], extracted[i].value,
                                ValuesOf(t, extracted, S), {"cross"})}

Rounds(t, extracted, base, m, f) ==
    f = [n \in 0..m |-> IF n = 0 THEN base ELSE Passing(t, extracted, f[n - 1])]

LEMMA RoundsAfter ==
    ASSUME NEW t, NEW extracted, NEW base, Len(t.fields) \in Nat
    PROVE  \E f : Rounds(t, extracted, base, Len(t.fields), f)
<1> DEFINE Defined(m, f) == Rounds(t, extracted, base, m, f)
           T == {m \in Nat : \E f : Defined(m, f)}
<1>1. 0 \in T
  <2> DEFINE f == [n \in 0..0 |-> base]
  <2>1. Defined(0, f)
    <3>1. \A n \in 0..0 : n = 0
      OBVIOUS
    <3> QED BY <3>1, Zenon DEF Rounds
  <2> HIDE DEF Defined, f
  <2> QED BY <2>1
<1>2. ASSUME NEW m \in Nat, m \in T PROVE m + 1 \in T
  <2> HIDE DEF Defined
  <2>1. PICK f : Defined(m, f)
    BY <1>2
  <2> DEFINE g == [n \in 0..(m + 1) |->
                     IF n = m + 1 THEN Passing(t, extracted, f[m]) ELSE f[n]]
  <2>2. Defined(m + 1, g)
    <3>1. f = [n \in 0..m |-> IF n = 0 THEN base ELSE Passing(t, extracted, f[n - 1])]
      BY <2>1, Zenon DEF Defined, Rounds
    <3>2. ASSUME NEW n \in 0..(m + 1)
          PROVE  g[n] = IF n = 0 THEN base ELSE Passing(t, extracted, g[n - 1])
      <4>1. CASE n = m + 1
        <5>1. n # 0 /\ n - 1 = m /\ m \in 0..(m + 1) /\ m # m + 1
          BY <4>1
        <5>2. g[m] = f[m] /\ g[n] = Passing(t, extracted, f[m])
          BY <4>1, <5>1, Zenon
        <5> HIDE DEF g
        <5> QED BY <4>1, <5>1, <5>2, Zenon
      <4>2. CASE n = 0
        <5>1. n \in 0..m /\ n # m + 1
          BY <4>2
        <5> QED BY <3>1, <4>2, <5>1, Zenon
      <4>3. CASE n # m + 1 /\ n # 0
        <5>1. n \in 0..m /\ n - 1 \in 0..(m + 1) /\ n - 1 # m + 1
          BY <4>3
        <5>2. g[n] = f[n] /\ g[n - 1] = f[n - 1]
          BY <4>3, <5>1, Zenon
        <5>3. f[n] = Passing(t, extracted, f[n - 1])
          BY <3>1, <4>3, <5>1, Zenon
        <5> HIDE DEF g
        <5> QED BY <4>3, <5>2, <5>3, Zenon
      <4> QED BY <4>1, <4>2, <4>3, Zenon
    <3>3. g = [n \in 0..(m + 1) |-> g[n]]
      BY Zenon
    <3> HIDE DEF g
    <3> QED BY <3>2, <3>3, Zenon DEF Defined, Rounds
  <2> HIDE DEF g
  <2> QED BY <2>2
<1>3. Len(t.fields) \in T
  <2> HIDE DEF T
  <2> QED BY <1>1, <1>2, SetInduction, Zenon
<1> QED BY <1>3, Zenon

LEMMA FieldsSettle ==
    ASSUME NEW t, NEW extracted, NEW base, base \subseteq 1..Len(t.fields), Len(t.fields) \in Nat
    PROVE  LET F == ReviewedFields(t, extracted, base)
           IN  F \subseteq base /\ Passing(t, extracted, F) = F
<1> DEFINE N == Len(t.fields)
           round == CHOOSE f : f = [n \in 0..N |->
                        IF n = 0 THEN base
                        ELSE {i \in f[n - 1] :
                                ~ValidationDoubt(t, t.fields[i], extracted[i].value,
                                    ValuesOf(t, extracted, f[n - 1]), {"cross"})}]
           Settled(S) == Passing(t, extracted, S) = S
           Small(S, n) == /\ S \subseteq base /\ IsFiniteSet(S)
                          /\ Settled(S) \/ Cardinality(S) <= N - n
           T == {n \in Nat : n <= N => Small(round[n], n)}
<1>1. ReviewedFields(t, extracted, base) = round[N]
  BY Zenon DEF ReviewedFields
<1>2. round = [n \in 0..N |-> IF n = 0 THEN base ELSE Passing(t, extracted, round[n - 1])]
  <2>1. \E f : Rounds(t, extracted, base, N, f)
    BY RoundsAfter, Zenon
  <2>2. \E f : f = [n \in 0..N |->
                        IF n = 0 THEN base
                        ELSE {i \in f[n - 1] :
                                ~ValidationDoubt(t, t.fields[i], extracted[i].value,
                                    ValuesOf(t, extracted, f[n - 1]), {"cross"})}]
    BY <2>1, Zenon DEF Rounds, Passing
  <2>3. round = [n \in 0..N |->
                        IF n = 0 THEN base
                        ELSE {i \in round[n - 1] :
                                ~ValidationDoubt(t, t.fields[i], extracted[i].value,
                                    ValuesOf(t, extracted, round[n - 1]), {"cross"})}]
    BY <2>2, Zenon
  <2> HIDE DEF round
  <2> QED BY <2>3, Zenon DEF Passing
<1> HIDE DEF round
<1>3. IsFiniteSet(base) /\ Cardinality(base) <= N /\ Cardinality(base) \in Nat
  <2>1. IsFiniteSet(1..N) /\ Cardinality(1..N) = N
    BY FS_Interval
  <2> QED BY <2>1, FS_Subset, FS_CardinalityType
<1>4. 0 \in T
  <2>1. 0 \in 0..N
    OBVIOUS
  <2>2. round[0] = base
    BY <1>2, <2>1, Zenon
  <2> HIDE DEF Settled
  <2> QED BY <1>3, <2>2
<1>5. ASSUME NEW n \in Nat, n \in T PROVE n + 1 \in T
  <2> SUFFICES ASSUME n + 1 <= N PROVE Small(round[n + 1], n + 1)
    OBVIOUS
  <2> DEFINE S == round[n]
  <2>1. n + 1 \in 0..N /\ n + 1 # 0 /\ (n + 1) - 1 = n /\ n <= N
    OBVIOUS
  <2>2. round[n + 1] = Passing(t, extracted, S)
    BY <1>2, <2>1, Zenon
  <2>3. Small(S, n)
    BY <1>5, <2>1
  <2>4. Passing(t, extracted, S) \subseteq S
    BY DEF Passing
  <2> HIDE DEF S
  <2>5. CASE Settled(S)
    <3>1. round[n + 1] = S
      BY <2>2, <2>5
    <3> HIDE DEF Settled
    <3> QED BY <2>3, <2>5, <3>1, Zenon
  <2>6. CASE ~Settled(S)
    <3> DEFINE next == Passing(t, extracted, S)
    <3>1. next # S /\ next \subseteq S
      BY <2>4, <2>6
    <3>2. IsFiniteSet(S) /\ S \subseteq base /\ Cardinality(S) <= N - n
      BY <2>3, <2>6
    <3> HIDE DEF next, Settled
    <3>3. /\ IsFiniteSet(next) /\ Cardinality(next) <= Cardinality(S)
          /\ Cardinality(next) # Cardinality(S)
      BY <3>1, <3>2, FS_Subset, Zenon
    <3>4. Cardinality(next) \in Nat /\ Cardinality(S) \in Nat
      BY <3>2, <3>3, FS_CardinalityType
    <3>5. Cardinality(next) <= N - (n + 1)
      BY <3>2, <3>3, <3>4
    <3>6. next \subseteq base
      BY <3>1, <3>2
    <3> QED BY <2>2, <3>3, <3>5, <3>6, Zenon DEF next
  <2> QED BY <2>5, <2>6
<1>6. N \in T
  <2> HIDE DEF T
  <2> QED BY <1>4, <1>5, SetInduction, Zenon
<1>7. Small(round[N], N)
  BY <1>6
<1>8. Settled(round[N])
  <2> DEFINE S == round[N]
  <2>1. CASE Cardinality(S) <= N - N
    <3> HIDE DEF Settled, S
    <3>1. IsFiniteSet(S)
      BY <1>7, Zenon DEF S
    <3>2. Cardinality(S) = 0
      BY <2>1, <3>1, FS_CardinalityType
    <3>3. S = {}
      BY <3>1, <3>2, FS_EmptySet
    <3>4. Settled({})
      BY DEF Settled, Passing
    <3> QED BY <3>3, <3>4, Zenon DEF S
  <2> QED BY <1>7, <2>1, Zenon
<1>9. round[N] \subseteq base
  BY <1>7, Zenon
<1> QED BY <1>1, <1>8, <1>9

(* A rule of a field alone does not look at the other values.              *)
LEMMA OwnRule ==
    ASSUME NEW value, NEW rule, NEW vtype, NEW v, NEW w, rule.type # "cross_field"
    PROVE  Satisfies(value, rule, vtype, v) = Satisfies(value, rule, vtype, w)
  BY Zenon DEF Satisfies

LEMMA CrossRule ==
    ASSUME NEW value, NEW rule, NEW vtype, NEW v, NEW w, rule.type = "cross_field",
           rule.target \in DOMAIN v => rule.target \in DOMAIN w /\ v[rule.target] = w[rule.target],
           Satisfies(value, rule, vtype, v)
    PROVE  Satisfies(value, rule, vtype, w)
<1>1. CrossField(value, rule, vtype, v)
  BY Zenon DEF Satisfies
<1>2. rule.target \in DOMAIN v
  BY <1>1, Zenon DEF CrossField
<1>3. CrossField(value, rule, vtype, w)
  BY <1>1, <1>2, Zenon DEF CrossField
<1> QED BY <1>3, Zenon DEF Satisfies

LEMMA ValuesAgree ==
    ASSUME NEW t, \A i, j \in DOMAIN t.fields : t.fields[i].id = t.fields[j].id => i = j,
           NEW S, NEW U, S \subseteq U, U \subseteq DOMAIN t.fields,
           NEW x, NEW y, \A i \in U : x[i] = y[i],
           NEW id \in DOMAIN ValuesOf(t, x, S)
    PROVE  /\ id \in DOMAIN ValuesOf(t, y, U)
           /\ ValuesOf(t, x, S)[id] = ValuesOf(t, y, U)[id]
<1>1. PICK k \in S : t.fields[k].id = id
  BY Zenon DEF ValuesOf
<1> DEFINE inS == CHOOSE i \in S : t.fields[i].id = id
           inU == CHOOSE i \in U : t.fields[i].id = id
<1>2. inS = k
  <2>1. inS \in S /\ t.fields[inS].id = id
    BY <1>1, Zenon
  <2> HIDE DEF inS
  <2>2. inS \in DOMAIN t.fields /\ k \in DOMAIN t.fields
    BY <2>1, Zenon
  <2> QED BY <1>1, <2>1, <2>2, Zenon
<1>3. inU = k
  <2>0. k \in U
    BY Zenon
  <2>1. inU \in U /\ t.fields[inU].id = id
    BY <1>1, <2>0, Zenon
  <2> HIDE DEF inU
  <2>2. inU \in DOMAIN t.fields /\ k \in DOMAIN t.fields
    BY <2>0, <2>1, Zenon
  <2> QED BY <1>1, <2>1, <2>2, Zenon
<1>4. id \in {t.fields[i].id : i \in S} /\ id \in {t.fields[i].id : i \in U}
  BY <1>1
<1>5. ValuesOf(t, x, S)[id] = x[inS].value /\ ValuesOf(t, y, U)[id] = y[inU].value
  BY <1>4, Zenon DEF ValuesOf
<1>6. id \in DOMAIN ValuesOf(t, y, U)
  BY <1>4, Zenon DEF ValuesOf
<1>7. x[k] = y[k]
  BY Zenon
<1> HIDE DEF inS, inU
<1> QED BY <1>2, <1>3, <1>5, <1>6, <1>7

(* The fields left by the rounds are held for no reason.                   *)
LEMMA SettledUndoubted ==
    ASSUME NEW ir, NEW t, NEW match, ~match.review, NEW i, NEW v, NEW values,
           Undoubted(ir, t, i, v),
           ~ValidationDoubt(t, t.fields[i], v.value, values, {"cross"})
    PROVE  ~FieldDoubt(ir, t, match, i, v, values)
<1> DEFINE f == t.fields[i]
<1>1. /\ v.value # <<>> /\ ~ir.blocks[v.block].review /\ ~RiskDoubt(t, f)
      /\ ~ValidationDoubt(t, f, v.value, <<>>, {"own"}) /\ i \notin KeyConflicts(t)
  BY Zenon DEF Undoubted
<1>2. MatchesType(v.value, f.vtype)
  BY <1>1 DEF ValidationDoubt
<1>3. Broken(t, f, v.value, <<>>, {"own"}) = {} /\ Broken(t, f, v.value, values, {"cross"}) = {}
  BY <1>1 DEF ValidationDoubt
<1>4. ASSUME NEW r \in Broken(t, f, v.value, values, {"own", "cross"}) PROVE FALSE
  <2>1. r \in f.rules
    BY DEF Broken
  <2>2. r \in DOMAIN t.rules
    BY <1>3, <2>1 DEF Broken
  <2>3. ~Satisfies(v.value, t.rules[r], f.vtype, values)
    BY <2>2 DEF Broken
  <2>4. CASE t.rules[r].type = "cross_field"
    BY <1>3, <2>1, <2>2, <2>3, <2>4 DEF Broken
  <2>5. CASE t.rules[r].type # "cross_field"
    <3>1. ~Satisfies(v.value, t.rules[r], f.vtype, <<>>)
      BY <2>3, <2>5, OwnRule
    <3> QED BY <1>3, <2>1, <2>2, <2>5, <3>1 DEF Broken
  <2> QED BY <2>4, <2>5
<1>5. ~ValidationDoubt(t, f, v.value, values, {"own", "cross"})
  BY <1>2, <1>4, Zenon DEF ValidationDoubt
<1> QED BY <1>1, <1>5, Zenon DEF FieldDoubt

LEMMA CleanMatch ==
    ASSUME NEW ir, NEW t, ~MatchFingerprint(ir, t).review
    PROVE  /\ MatchFingerprint(ir, t).known
           /\ \A k \in DOMAIN ir.blocks : ~ir.blocks[k].review
<1> DEFINE m == MatchFingerprint(ir, t)
<1>1. m.review = (m.warnings # {} \/ ~m.known) /\ DocumentReviewWarnings(ir) \subseteq m.warnings
  BY Zenon DEF MatchFingerprint
<1>2. ~m.review
  OBVIOUS
<1> HIDE DEF m
<1>3. m.known /\ DocumentReviewWarnings(ir) = {}
  BY <1>1, <1>2, Zenon
<1>4. ASSUME NEW k \in DOMAIN ir.blocks, ir.blocks[k].review PROVE FALSE
  <2>1. <<"block", k>> \in DocumentReviewWarnings(ir)
    BY <1>4, Zenon DEF DocumentReviewWarnings
  <2> QED BY <1>3, <2>1, Zenon
<1>5. m.known /\ \A k \in DOMAIN ir.blocks : ~ir.blocks[k].review
  BY <1>3, <1>4, Zenon
<1> QED BY <1>5 DEF m

(* A value held for no reason: its type, its risk and its rules.           *)
LEMMA UndoubtedValue ==
    ASSUME NEW ir, NEW t, NEW match, NEW i, NEW v, NEW values,
           ~FieldDoubt(ir, t, match, i, v, values), v.value # <<>>
    PROVE  LET f == t.fields[i]
           IN  /\ ~match.review
               /\ f.risk \notin ALWAYS_REVIEW_RISK_LEVELS
               /\ t.risk.declared => f.risk \in t.risk.levels \ t.risk.review
               /\ MatchesType(v.value, f.vtype)
               /\ f.rules \subseteq DOMAIN t.rules
               /\ \A r \in f.rules : Satisfies(v.value, t.rules[r], f.vtype, values)
<1> DEFINE f == t.fields[i]
<1>1. /\ ~match.review /\ ~RiskDoubt(t, f)
      /\ ~ValidationDoubt(t, f, v.value, values, {"own", "cross"})
  BY Zenon DEF FieldDoubt
<1>2. /\ f.risk \notin ALWAYS_REVIEW_RISK_LEVELS
      /\ t.risk.declared => f.risk \in t.risk.levels \ t.risk.review
  BY <1>1, Zenon DEF RiskDoubt
<1>3. MatchesType(v.value, f.vtype) /\ Broken(t, f, v.value, values, {"own", "cross"}) = {}
  BY <1>1 DEF ValidationDoubt
<1>4. ASSUME NEW r \in f.rules
      PROVE  r \in DOMAIN t.rules /\ Satisfies(v.value, t.rules[r], f.vtype, values)
  <2>1. r \notin Broken(t, f, v.value, values, {"own", "cross"})
    BY <1>3
  <2> QED BY <2>1 DEF Broken
<1> QED BY <1>1, <1>2, <1>3, <1>4, Zenon

(* What the output of a mapping promises.                                  *)
OutputSound(m, ir, t) ==
    LET fields == m.fields
        found == [i \in DOMAIN fields |-> fields[i].found]
        passed == {i \in DOMAIN fields : ~fields[i].review /\ found[i].value # <<>>}
        values == ValuesOf(t, found, passed)
    IN  /\ m.output = {[path |-> t.fields[i].key, value |-> found[i].value] :
                                         i \in {i \in passed : t.fields[i].key # <<>>}}
        /\ passed # {} => /\ m.known
                          /\ \A k \in DOMAIN ir.blocks : ~ir.blocks[k].review
        /\ \A i \in passed :
              LET f == t.fields[i]
              IN  /\ f.risk \notin ALWAYS_REVIEW_RISK_LEVELS
                  /\ t.risk.declared => f.risk \in t.risk.levels \ t.risk.review
                  /\ MatchesType(found[i].value, f.vtype)
                  /\ f.rules \subseteq DOMAIN t.rules
                  /\ \A r \in f.rules :
                        Satisfies(found[i].value, t.rules[r], f.vtype, values)

LEMMA MappingSound ==
    ASSUME NEW m, NEW ir, NEW t, NEW match, NEW extracted,
           MappedFrom(m, ir, t, match, extracted), IsSequence(t.fields),
           \A i, j \in DOMAIN t.fields : t.fields[i].id = t.fields[j].id => i = j
    PROVE  OutputSound(m, ir, t)
<1> DEFINE fields == m.fields
           found == [i \in DOMAIN fields |-> fields[i].found]
           passed == {i \in DOMAIN fields : ~fields[i].review /\ found[i].value # <<>>}
           values == ValuesOf(t, found, passed)
           base == IF match.review THEN {}
                   ELSE {i \in DOMAIN t.fields : Undoubted(ir, t, i, extracted[i])}
           F == ReviewedFields(t, extracted, base)
           kept == ValuesOf(t, extracted, F)
<1>1. /\ DOMAIN fields = DOMAIN t.fields
      /\ \A i \in DOMAIN t.fields : fields[i].found = extracted[i]
      /\ m.output = Outputs(fields, t, DOMAIN t.fields)
  BY MappedOutput
<1>2. match = MatchFingerprint(ir, t) /\ m.known = match.known
  BY Zenon DEF MappedFrom
<1>3. \A i \in DOMAIN t.fields :
         fields[i].review = FieldDoubt(ir, t, match, i, extracted[i], kept)
  <2>1. kept = KeptValues(ir, t, match, extracted)
    BY Zenon DEF KeptValues
  <2> HIDE DEF kept
  <2> QED BY <2>1, MappedField
<1>4. F \subseteq base /\ Passing(t, extracted, F) = F
  <2>1. Len(t.fields) \in Nat /\ DOMAIN t.fields = 1..Len(t.fields)
    BY SequenceIsListed, Zenon DEF Listed
  <2>2. base \subseteq 1..Len(t.fields)
    BY <2>1, Zenon
  <2> HIDE DEF base
  <2> QED BY <2>1, <2>2, FieldsSettle, Zenon
<1> HIDE DEF fields, F
<1>5. \A i \in DOMAIN t.fields : found[i] = extracted[i]
  BY <1>1, Zenon
<1> HIDE DEF found
<1>6. passed \subseteq DOMAIN t.fields
  BY <1>1, Zenon
<1>7. F \subseteq passed
  <2> SUFFICES ASSUME NEW i \in F PROVE i \in passed
    OBVIOUS
  <2>1. ~match.review /\ i \in DOMAIN t.fields /\ Undoubted(ir, t, i, extracted[i])
    BY <1>4, Zenon
  <2>2. ~ValidationDoubt(t, t.fields[i], extracted[i].value, kept, {"cross"})
    BY <1>4, Zenon DEF Passing
  <2> HIDE DEF kept
  <2>3. ~FieldDoubt(ir, t, match, i, extracted[i], kept)
    BY <2>1, <2>2, SettledUndoubted
  <2>4. extracted[i].value # <<>>
    BY <2>1, Zenon DEF Undoubted
  <2> QED BY <1>1, <1>3, <1>5, <2>1, <2>3, <2>4, Zenon DEF kept
<1>8. m.output = {[path |-> t.fields[i].key, value |-> found[i].value] :
                     i \in {i \in passed : t.fields[i].key # <<>>}}
  <2>1. {i \in passed : t.fields[i].key # <<>>}
          = {i \in DOMAIN t.fields : Writes(fields, i) /\ t.fields[i].key # <<>>}
    <3>1. \A i \in DOMAIN t.fields : i \in passed <=> Writes(fields, i)
      BY <1>1, <1>5, Zenon DEF Writes
    <3> HIDE DEF passed
    <3> QED BY <1>6, <3>1
  <2> DEFINE S == {i \in passed : t.fields[i].key # <<>>}
  <2>2. S \subseteq DOMAIN t.fields
    BY <1>6, Zenon
  <2>3. m.output = {[path |-> t.fields[i].key, value |-> fields[i].found.value] : i \in S}
    BY <1>1, <2>1, Zenon DEF Outputs
  <2>4. \A i \in S : fields[i].found.value = found[i].value
    BY <1>1, <1>5, <2>2, Zenon
  <2> HIDE DEF S
  <2>5. m.output = {[path |-> t.fields[i].key, value |-> found[i].value] : i \in S}
    BY <2>3, <2>4
  <2> QED BY <2>5 DEF S
<1>9. ASSUME NEW i \in passed
      PROVE  LET f == t.fields[i]
             IN  /\ ~match.review
                 /\ f.risk \notin ALWAYS_REVIEW_RISK_LEVELS
                 /\ t.risk.declared => f.risk \in t.risk.levels \ t.risk.review
                 /\ MatchesType(found[i].value, f.vtype)
                 /\ f.rules \subseteq DOMAIN t.rules
                 /\ \A r \in f.rules : Satisfies(found[i].value, t.rules[r], f.vtype, values)
  <2> DEFINE f == t.fields[i]
  <2>1. i \in DOMAIN t.fields /\ found[i] = extracted[i] /\ found[i].value # <<>> /\ ~fields[i].review
    BY <1>5, <1>6, Zenon
  <2>2. ~FieldDoubt(ir, t, match, i, extracted[i], kept) /\ extracted[i].value # <<>>
    BY <1>3, <2>1, Zenon
  <2>3. /\ ~match.review
        /\ f.risk \notin ALWAYS_REVIEW_RISK_LEVELS
        /\ t.risk.declared => f.risk \in t.risk.levels \ t.risk.review
        /\ MatchesType(extracted[i].value, f.vtype)
        /\ f.rules \subseteq DOMAIN t.rules
        /\ \A r \in f.rules : Satisfies(extracted[i].value, t.rules[r], f.vtype, kept)
    <3> HIDE DEF kept
    <3> QED BY <2>2, UndoubtedValue
  <2>4. ASSUME NEW r \in f.rules
        PROVE  Satisfies(extracted[i].value, t.rules[r], f.vtype, values)
    <3> DEFINE target == t.rules[r].target
    <3>1. Satisfies(extracted[i].value, t.rules[r], f.vtype, kept)
      BY <2>3, Zenon
    <3>2. CASE t.rules[r].type # "cross_field"
      <4> HIDE DEF kept, values
      <4> QED BY <3>1, <3>2, OwnRule
    <3>3. CASE t.rules[r].type = "cross_field"
      <4>1. \A k \in passed : extracted[k] = found[k]
        BY <1>5, <1>6, Zenon
      <4>2. target \in DOMAIN kept => target \in DOMAIN values /\ kept[target] = values[target]
        <5> SUFFICES ASSUME target \in DOMAIN kept
                     PROVE  target \in DOMAIN values /\ kept[target] = values[target]
          OBVIOUS
        <5> HIDE DEF passed, target
        <5> QED BY <1>6, <1>7, <4>1, ValuesAgree
      <4> HIDE DEF kept, values
      <4> QED BY <3>1, <3>3, <4>2, CrossRule, Zenon
    <3> QED BY <3>2, <3>3
  <2> HIDE DEF values, kept
  <2> QED BY <2>1, <2>3, <2>4, Zenon
<1>10. passed # {} => m.known /\ \A k \in DOMAIN ir.blocks : ~ir.blocks[k].review
  <2> HIDE DEF passed
  <2> QED BY <1>2, <1>9, CleanMatch, Zenon
<1> HIDE DEF values
<1>11. \A i \in passed :
              LET f == t.fields[i]
              IN  /\ f.risk \notin ALWAYS_REVIEW_RISK_LEVELS
                  /\ t.risk.declared => f.risk \in t.risk.levels \ t.risk.review
                  /\ MatchesType(found[i].value, f.vtype)
                  /\ f.rules \subseteq DOMAIN t.rules
                  /\ \A r \in f.rules :
                        Satisfies(found[i].value, t.rules[r], f.vtype, values)
  <2> HIDE DEF passed
  <2> QED BY <1>9, Zenon
<1> QED BY <1>8, <1>10, <1>11, Zenon DEF OutputSound, fields, found, values

(***************************************************************************)
(* Whatever the document and the template: the mapped output is exactly    *)
(* the values that passed and have an output key; nothing passes unless    *)
(* the document is of the template and none of its blocks is under review; *)
(* and each value that passed has its type, a risk that may pass, and      *)
(* satisfies all its rules, those that refer to another field against a    *)
(* value that passed too (apply_template_field_mapping,                    *)
(* _reviewed_template_field_values_by_id).                                 *)
(***************************************************************************)
THEOREM MappedOutputIsSound == Spec => []ConfirmedOutputSound
<1>1. Staged => ConfirmedOutputSound
  <2> SUFFICES ASSUME Staged, stage \in {"plan", "done"}, upload.template = "t"
               PROVE  OutputSound(built.mapping, built.ir, upload.definition)
    BY Zenon DEF ConfirmedOutputSound, OutputSound
  <2> DEFINE t == upload.definition
             m == built.mapping
  <2>1. UploadTyped(upload) /\ BuiltFrom(upload, parsed.data, built)
    BY Zenon DEF Staged
  <2>2. m = Mapping(upload, built.ir)
    BY <2>1, Zenon DEF BuiltFrom
  <2>3. upload.template # None
    BY DEF None
  <2>4. m = ApplyMapping(built.ir, t)
    BY <2>2, <2>3, Zenon DEF Mapping
  <2>5. PICK match, extracted : MappedFrom(m, built.ir, t, match, extracted)
    <3> HIDE DEF m, t
    <3> QED BY <2>4, MappingParts, Zenon
  <2>6. /\ IsSequence(t.fields)
        /\ \A i, j \in DOMAIN t.fields : t.fields[i].id = t.fields[j].id => i = j
    BY <2>1, Zenon DEF UploadTyped
  <2> HIDE DEF t, m
  <2>7. OutputSound(m, built.ir, t)
    BY <2>5, <2>6, MappingSound, Zenon
  <2> QED BY <2>7 DEF t, m
<1> QED BY <1>1, StagesFollow, PTL

-----------------------------------------------------------------------------
(* A sequence read at some of its places keeps their order.                *)
LEMMA RankGrows ==
    ASSUME NEW S \in SUBSET Nat, IsFiniteSet(S), NEW n \in S
    PROVE  /\ Cardinality({m \in S : m <= n}) \in 1..Cardinality(S)
           /\ \A k \in S : n < k =>
                 Cardinality({m \in S : m <= n}) < Cardinality({m \in S : m <= k})
<1> DEFINE upTo(k) == {m \in S : m <= k}
<1>1. \A k : upTo(k) \in SUBSET S /\ IsFiniteSet(upTo(k)) /\ Cardinality(upTo(k)) \in Nat
             /\ Cardinality(upTo(k)) <= Cardinality(S)
  BY FS_Subset, FS_CardinalityType
<1>2. Cardinality(S) \in Nat
  BY FS_CardinalityType
<1>3. n \in upTo(n)
  OBVIOUS
<1>4. Cardinality(upTo(n)) # 0
  <2> HIDE DEF upTo
  <2>1. upTo(n) # {}
    BY <1>3
  <2> QED BY <1>1, <2>1, FS_EmptySet
<1>5. ASSUME NEW k \in S, n < k PROVE Cardinality(upTo(n)) < Cardinality(upTo(k))
  <2>1. upTo(n) \in SUBSET upTo(k) /\ k \in upTo(k) /\ k \notin upTo(n)
    <3>1. n \in Nat /\ k \in Nat /\ k <= k /\ ~(k <= n)
      BY <1>5
    <3>2. \A m \in S : m <= n => m <= k
      BY <1>5, <3>1
    <3> QED BY <3>1, <3>2
  <2> HIDE DEF upTo
  <2>2. Cardinality(upTo(n)) <= Cardinality(upTo(k))
    BY <1>1, <2>1, FS_Subset
  <2>3. Cardinality(upTo(n)) # Cardinality(upTo(k))
    <3>1. upTo(n) # upTo(k)
      BY <2>1
    <3> QED BY <1>1, <2>1, <3>1, FS_Subset
  <2> QED BY <1>1, <2>2, <2>3
<1> HIDE DEF upTo
<1>6. Cardinality(upTo(n)) \in 1..Cardinality(S)
  BY <1>1, <1>2, <1>4
<1> QED BY <1>5, <1>6 DEF upTo

LEMMA AscendingIs ==
    ASSUME NEW S \in SUBSET Nat, IsFiniteSet(S)
    PROVE  /\ Cardinality(S) \in Nat
           /\ DOMAIN Ascending(S) = 1..Cardinality(S)
           /\ \A k \in 1..Cardinality(S) : Ascending(S)[k] \in S
           /\ \A j, k \in 1..Cardinality(S) : j < k => Ascending(S)[j] < Ascending(S)[k]
           /\ \A n \in S : \E k \in 1..Cardinality(S) : Ascending(S)[k] = n
<1> DEFINE N == Cardinality(S)
           rank == [n \in S |-> Cardinality({m \in S : m <= n})]
           a == Ascending(S)
<1>1. N \in Nat /\ IsFiniteSet(1..N) /\ Cardinality(1..N) = N
  BY FS_CardinalityType, FS_Interval
<1>2. \A n \in S : rank[n] \in 1..N
  BY RankGrows
<1>3. \A n, k \in S : n < k => rank[n] < rank[k]
  BY RankGrows
<1>4. a = [k \in 1..N |-> CHOOSE n \in S : rank[n] = k]
  <2> DEFINE at(k) == CHOOSE n \in S : rank[n] = k
             place(k) == CHOOSE n \in S : Cardinality({m \in S : m <= n}) = k
  <2>1. \A k : at(k) = place(k)
    OBVIOUS
  <2>2. a = [k \in 1..N |-> place(k)]
    BY Zenon DEF Ascending
  <2>3. a = [k \in 1..N |-> at(k)]
    <3> HIDE DEF at, place, a
    <3> QED BY <2>1, <2>2
  <2> QED BY <2>3
<1>5. rank \in [S -> 1..N]
  <2>1. rank = [n \in S |-> rank[n]]
    BY Zenon
  <2> HIDE DEF rank, N
  <2> QED BY <1>2, <2>1
<1> HIDE DEF rank, a, N
<1>6. \A n, k \in S : rank[n] = rank[k] => n = k
  BY <1>1, <1>2, <1>3
<1>7. rank \in Injection(S, 1..N)
  BY <1>5, <1>6, Zenon DEF Injection, IsInjective
<1>8. rank \in Surjection(S, 1..N)
  BY <1>1, <1>7, FS_Injection, Zenon DEF N
<1>9. \A k \in 1..N : \E n \in S : rank[n] = k
  BY <1>8, Zenon DEF Surjection
<1>10. \A k \in 1..N : a[k] \in S /\ rank[a[k]] = k
  BY <1>4, <1>9, Zenon
<1>11. \A n \in S : a[rank[n]] = n
  BY <1>2, <1>6, <1>10, Zenon
<1>12. ASSUME NEW j \in 1..N, NEW k \in 1..N, j < k PROVE a[j] < a[k]
  <2>1. a[j] \in S /\ a[k] \in S /\ rank[a[j]] = j /\ rank[a[k]] = k
    BY <1>10, Zenon
  <2>2. a[j] \in Nat /\ a[k] \in Nat
    BY <2>1
  <2>3. ~(a[k] < a[j]) /\ a[j] # a[k]
    <3>1. a[k] < a[j] => rank[a[k]] < rank[a[j]]
      BY <1>3, <2>1, Zenon
    <3> QED BY <1>12, <2>1, <3>1
  <2> QED BY <2>2, <2>3
<1>13. DOMAIN a = 1..N
  BY <1>4, Zenon
<1> QED BY <1>1, <1>2, <1>10, <1>11, <1>12, <1>13, Zenon DEF a, N

LEMMA PickedIs ==
    ASSUME NEW s, Listed(s), NEW P \in SUBSET DOMAIN s
    PROVE  /\ Listed(Picked(s, P))
           /\ \A n \in P : \E k \in DOMAIN Picked(s, P) : Picked(s, P)[k] = s[n]
           /\ \A k \in DOMAIN Picked(s, P) : \E n \in P : Picked(s, P)[k] = s[n]
<1>1. DOMAIN s = 1..Len(s) /\ Len(s) \in Nat
  BY DEF Listed
<1>2. P \in SUBSET Nat
  BY <1>1
<1>3. IsFiniteSet(P)
  BY ListDomainFinite, FS_Subset
<1> DEFINE N == Cardinality(P)
           p == Picked(s, P)
<1>4. p = [k \in 1..N |-> s[Ascending(P)[k]]]
  BY Zenon DEF Picked
<1>5. /\ N \in Nat
      /\ \A k \in 1..N : Ascending(P)[k] \in P
      /\ \A n \in P : \E k \in 1..N : Ascending(P)[k] = n
  BY <1>2, <1>3, AscendingIs, Zenon
<1> HIDE DEF p, N
<1>6. Listed(p) /\ DOMAIN p = 1..N
  <2>1. p = [k \in 1..N |-> p[k]]
    BY <1>4, Zenon
  <2> QED BY <1>5, <2>1, FunctionIsListed, Zenon
<1>7. \A k \in 1..N : p[k] = s[Ascending(P)[k]]
  BY <1>4, Zenon
<1>8. ASSUME NEW n \in P PROVE \E k \in DOMAIN p : p[k] = s[n]
  <2>1. PICK k \in 1..N : Ascending(P)[k] = n
    BY <1>5, Zenon
  <2>2. p[k] = s[n] /\ k \in DOMAIN p
    BY <1>6, <1>7, <2>1
  <2> QED BY <2>2, Zenon
<1>9. ASSUME NEW k \in DOMAIN p PROVE \E n \in P : p[k] = s[n]
  <2>1. k \in 1..N
    BY <1>6
  <2>2. p[k] = s[Ascending(P)[k]] /\ Ascending(P)[k] \in P
    BY <1>5, <1>7, <2>1, Zenon
  <2> QED BY <2>2, Zenon
<1> QED BY <1>6, <1>8, <1>9, Zenon DEF p

(* A flattened list of lists: where the elements of each list stand in it. *)
Flattened(seqs, m, f) ==
    f = [i \in 1..m |-> IF i = 1 THEN seqs[i] ELSE f[i - 1] \o seqs[i]]

LEMMA FlattenedAfter ==
    ASSUME NEW seqs, NEW m \in Nat
    PROVE  \E f : Flattened(seqs, m, f)
<1> DEFINE T == {n \in Nat : \E f : Flattened(seqs, n, f)}
<1>1. 0 \in T
  <2> DEFINE f == [i \in 1..0 |-> seqs[i]]
  <2>1. Flattened(seqs, 0, f)
    <3>1. \A i \in 1..0 : FALSE
      OBVIOUS
    <3> QED BY <3>1, Zenon DEF Flattened
  <2> HIDE DEF f
  <2> QED BY <2>1
<1>2. ASSUME NEW n \in Nat, n \in T PROVE n + 1 \in T
  <2>1. PICK f : Flattened(seqs, n, f)
    BY <1>2
  <2>2. f = [i \in 1..n |-> IF i = 1 THEN seqs[i] ELSE f[i - 1] \o seqs[i]]
    BY <2>1, Zenon DEF Flattened
  <2> DEFINE g == [i \in 1..(n + 1) |->
                     IF i # n + 1 THEN f[i] ELSE IF i = 1 THEN seqs[i] ELSE f[n] \o seqs[i]]
  <2>3. ASSUME NEW i \in 1..(n + 1)
        PROVE  g[i] = IF i = 1 THEN seqs[i] ELSE g[i - 1] \o seqs[i]
    <3>1. CASE i = 1
      <4>1. i # n + 1 => i \in 1..n
        OBVIOUS
      <4>2. i \in 1..n => f[i] = seqs[i]
        BY <2>2, <3>1, Zenon
      <4> QED BY <3>1, <4>1, <4>2, Zenon
    <3>2. CASE i # 1
      <4>1. i - 1 \in 1..(n + 1) /\ i - 1 # n + 1 /\ (i = n + 1 => i - 1 = n)
            /\ (i # n + 1 => i \in 1..n)
        BY <3>2
      <4>2. g[i - 1] = f[i - 1]
        BY <4>1, Zenon
      <4>3. i \in 1..n => f[i] = f[i - 1] \o seqs[i]
        BY <2>2, <3>2, Zenon
      <4>4. g[i] = IF i # n + 1 THEN f[i] ELSE IF i = 1 THEN seqs[i] ELSE f[n] \o seqs[i]
        BY Zenon
      <4> HIDE DEF g
      <4> QED BY <3>2, <4>1, <4>2, <4>3, <4>4
    <3> QED BY <3>1, <3>2, Zenon
  <2>4. g = [i \in 1..(n + 1) |-> g[i]]
    BY Zenon
  <2> HIDE DEF g
  <2>5. Flattened(seqs, n + 1, g)
    BY <2>3, <2>4, Zenon DEF Flattened
  <2> QED BY <2>5
<1>3. m \in T
  <2> HIDE DEF T
  <2> QED BY <1>1, <1>2, SetInduction, Zenon
<1> QED BY <1>3, Zenon

LEMMA JoinedLists ==
    ASSUME NEW s, NEW t, Listed(s), Listed(t)
    PROVE  /\ Listed(s \o t)
           /\ Len(s \o t) = Len(s) + Len(t)
           /\ DOMAIN (s \o t) = 1..(Len(s) + Len(t))
           /\ \A k \in DOMAIN s : (s \o t)[k] = s[k]
           /\ \A k \in DOMAIN t : (s \o t)[Len(s) + k] = t[k]
<1> DEFINE T == {s[i] : i \in 1..Len(s)} \cup {t[i] : i \in 1..Len(t)}
<1>1. s \in Seq({s[i] : i \in 1..Len(s)}) /\ t \in Seq({t[i] : i \in 1..Len(t)})
  BY FunctionIsListed, Zenon DEF Listed
<1>2. s \in Seq(T) /\ t \in Seq(T)
  BY <1>1
<1> HIDE DEF T
<1>3. /\ s \o t \in Seq(T) /\ Len(s \o t) = Len(s) + Len(t)
      /\ DOMAIN s = 1..Len(s) /\ DOMAIN t = 1..Len(t)
      /\ Len(s) \in Nat /\ Len(t) \in Nat
  BY <1>2
<1>4. Listed(s \o t)
  <2> DEFINE u == s \o t
  <2>1. u \in Seq(T)
    BY <1>3, Zenon
  <2> HIDE DEF u
  <2>2. Listed(u)
    BY <2>1 DEF Listed
  <2> QED BY <2>2 DEF u
<1>5. \A k \in 1..(Len(s) + Len(t)) : (s \o t)[k] = IF k <= Len(s) THEN s[k] ELSE t[k - Len(s)]
  BY <1>2
<1>6. \A k \in DOMAIN s : (s \o t)[k] = s[k]
  BY <1>3, <1>5
<1>7. ASSUME NEW k \in DOMAIN t PROVE (s \o t)[Len(s) + k] = t[k]
  <2>1. Len(s) + k \in 1..(Len(s) + Len(t)) /\ ~(Len(s) + k <= Len(s)) /\ (Len(s) + k) - Len(s) = k
    BY <1>3
  <2> QED BY <1>5, <2>1
<1> QED BY <1>3, <1>4, <1>6, <1>7

LEMMA FlattenIs ==
    ASSUME NEW seqs, Listed(seqs), \A i \in DOMAIN seqs : Listed(seqs[i])
    PROVE  /\ Listed(FlattenSeq(seqs))
           /\ \E start \in [DOMAIN seqs -> Nat] :
                /\ \A i \in DOMAIN seqs : \A k \in DOMAIN seqs[i] :
                      /\ start[i] + k \in DOMAIN FlattenSeq(seqs)
                      /\ FlattenSeq(seqs)[start[i] + k] = seqs[i][k]
                /\ \A n \in DOMAIN FlattenSeq(seqs) :
                      \E i \in DOMAIN seqs : \E k \in DOMAIN seqs[i] : n = start[i] + k
                /\ \A i, j \in DOMAIN seqs : i < j => start[i] + Len(seqs[i]) <= start[j]
<1> DEFINE N == Len(seqs)
           flatten == CHOOSE f : f = [i \in 1..Len(seqs) |->
                                        IF i = 1 THEN seqs[i] ELSE f[i - 1] \o seqs[i]]
           whole == FlattenSeq(seqs)
<1>1. N \in Nat /\ DOMAIN seqs = 1..N
  BY DEF Listed
<1>2. whole = IF Len(seqs) = 0 THEN seqs ELSE flatten[Len(seqs)]
  BY Zenon DEF FlattenSeq
<1>3. \E f : f = [i \in 1..Len(seqs) |-> IF i = 1 THEN seqs[i] ELSE f[i - 1] \o seqs[i]]
  BY <1>1, FlattenedAfter, Zenon DEF Flattened
<1>4. flatten = [i \in 1..Len(seqs) |->
                   IF i = 1 THEN seqs[i] ELSE flatten[i - 1] \o seqs[i]]
  BY <1>3, Zenon
<1> HIDE DEF flatten, whole
<1>5. \A i \in 1..N : i = 1 => flatten[i] = seqs[i]
  BY <1>4, Zenon
<1>6. \A i \in 1..N : i # 1 => flatten[i] = flatten[i - 1] \o seqs[i]
  BY <1>4, Zenon
<1> HIDE DEF N
<1> DEFINE start == [i \in 1..N |-> IF i = 1 THEN 0 ELSE Len(flatten[i - 1])]
           \* What is known of the first n lists joined.
           Joined(n) ==
              /\ Listed(flatten[n])
              /\ Len(flatten[n]) = start[n] + Len(seqs[n])
              /\ \A i \in 1..n : start[i] \in Nat /\ start[i] + Len(seqs[i]) <= Len(flatten[n])
              /\ \A i, j \in 1..n : i < j => start[i] + Len(seqs[i]) <= start[j]
              /\ \A i \in 1..n : \A k \in DOMAIN seqs[i] :
                    /\ start[i] + k \in DOMAIN flatten[n]
                    /\ flatten[n][start[i] + k] = seqs[i][k]
              /\ \A m \in DOMAIN flatten[n] :
                    \E i \in 1..n : \E k \in DOMAIN seqs[i] : m = start[i] + k
           T == {n \in Nat : n + 1 \in 1..N => Joined(n + 1)}
<1>7. 0 \in T
  <2> SUFFICES ASSUME 1 \in 1..N PROVE Joined(1)
    BY DEF T
  <2>1. flatten[1] = seqs[1] /\ start[1] = 0 /\ Listed(seqs[1])
    BY <1>1, <1>5
  <2>2. DOMAIN seqs[1] = 1..Len(seqs[1]) /\ Len(seqs[1]) \in Nat
    BY <2>1 DEF Listed
  <2>3. \A i \in 1..1 : i = 1
    OBVIOUS
  <2> HIDE DEF start
  <2>4. \A k \in DOMAIN seqs[1] : start[1] + k = k
    BY <2>1, <2>2
  <2>5. \A m \in DOMAIN flatten[1] : \E i \in 1..1 : \E k \in DOMAIN seqs[i] : m = start[i] + k
    <3>1. 1 \in 1..1
      OBVIOUS
    <3> QED BY <2>1, <2>4, <3>1
  <2>6. \A i \in 1..1 : \A k \in DOMAIN seqs[i] :
            start[i] + k \in DOMAIN flatten[1] /\ flatten[1][start[i] + k] = seqs[i][k]
    BY <2>1, <2>3, <2>4
  <2>7. \A i, j \in 1..1 : ~(i < j)
    OBVIOUS
  <2>8. start[1] \in Nat /\ start[1] + Len(seqs[1]) = Len(flatten[1])
        /\ start[1] + Len(seqs[1]) <= Len(flatten[1])
    BY <2>1, <2>2
  <2> QED BY <2>1, <2>3, <2>5, <2>6, <2>7, <2>8, Zenon
<1>8. ASSUME NEW n \in Nat, n \in T PROVE n + 1 \in T
  <2> SUFFICES ASSUME n + 2 \in 1..N PROVE Joined(n + 2)
    <3>1. (n + 1) + 1 = n + 2 /\ n + 1 \in Nat
      OBVIOUS
    <3> HIDE DEF Joined
    <3> QED BY <3>1
  <2> DEFINE q == n + 1  r == n + 2
  <2>1. q \in 1..N /\ r \in 1..N /\ r # 1 /\ r - 1 = q /\ 1..r = (1..q) \cup {r} /\ r \notin 1..q
    BY <1>1
  <2>2. Joined(q)
    <3> HIDE DEF Joined
    <3> QED BY <1>8, <2>1
  <2>3. flatten[r] = flatten[q] \o seqs[r] /\ start[r] = Len(flatten[q]) /\ Listed(seqs[r])
    BY <1>1, <1>6, <2>1
  <2> HIDE DEF start, q, r
  <2>4. Listed(flatten[q])
    BY <2>2
  <2> DEFINE fq == flatten[q]  fr == flatten[r]  sr == seqs[r]
             lq == Len(fq)  lr == Len(fr)  len == [i \in 1..r |-> Len(seqs[i])]
  <2>5. /\ Listed(fr) /\ lr = lq + Len(sr)
        /\ DOMAIN fr = 1..(lq + Len(sr))
        /\ \A k \in DOMAIN fq : fr[k] = fq[k]
        /\ \A k \in DOMAIN sr : fr[lq + k] = sr[k]
    <3>1. Listed(fq) /\ Listed(sr) /\ fr = fq \o sr
      BY <2>3, <2>4
    <3> HIDE DEF fq, fr, sr
    <3>2. /\ Listed(fq \o sr) /\ Len(fq \o sr) = Len(fq) + Len(sr)
          /\ DOMAIN (fq \o sr) = 1..(Len(fq) + Len(sr))
          /\ \A k \in DOMAIN fq : (fq \o sr)[k] = fq[k]
          /\ \A k \in DOMAIN sr : (fq \o sr)[Len(fq) + k] = sr[k]
      BY <3>1, JoinedLists
    <3>3. /\ Listed(fr) /\ Len(fr) = Len(fq) + Len(sr)
          /\ DOMAIN fr = 1..(Len(fq) + Len(sr))
          /\ \A k \in DOMAIN fq : fr[k] = fq[k]
          /\ \A k \in DOMAIN sr : fr[Len(fq) + k] = sr[k]
      BY <3>1, <3>2, Zenon
    <3> QED BY <3>3
  <2>6. /\ DOMAIN fq = 1..lq /\ lq \in Nat
        /\ DOMAIN sr = 1..Len(sr) /\ Len(sr) \in Nat
    BY <2>3, <2>4 DEF Listed
  <2>61. /\ \A i \in 1..r : len[i] \in Nat /\ DOMAIN seqs[i] = 1..len[i]
         /\ len[r] = Len(sr) /\ r \in 1..r /\ 1..q \subseteq 1..r
         /\ \A i \in 1..r : len[i] = Len(seqs[i])
    <3>1. \A i \in 1..r : Listed(seqs[i])
      BY <1>1, <2>1
    <3>2. r \in 1..r /\ 1..q \subseteq 1..r
      BY <2>1
    <3> QED BY <3>1, <3>2 DEF Listed
  <2>62. /\ \A i \in 1..q : start[i] \in Nat /\ start[i] + len[i] <= lq
         /\ \A i, j \in 1..q : i < j => start[i] + len[i] <= start[j]
         /\ \A i \in 1..q : \A k \in DOMAIN seqs[i] :
               start[i] + k \in DOMAIN fq /\ fq[start[i] + k] = seqs[i][k]
         /\ \A m \in DOMAIN fq : \E i \in 1..q : \E k \in DOMAIN seqs[i] : m = start[i] + k
    BY <2>2, <2>61
  <2>63. start[r] = lq
    BY <2>3
  <2> HIDE DEF fq, fr, sr, lq, lr, len, Joined
  <2>7. ASSUME NEW i \in 1..r PROVE start[i] \in Nat /\ start[i] + len[i] <= lr
    BY <2>1, <2>5, <2>6, <2>61, <2>62, <2>63
  <2>8. ASSUME NEW i \in 1..r, NEW j \in 1..r, i < j PROVE start[i] + len[i] <= start[j]
    <3>1. i \in 1..q
      BY <2>1, <2>8 DEF q, r
    <3> QED BY <2>1, <2>8, <2>62, <2>63, <3>1
  <2>9. ASSUME NEW i \in 1..r, NEW k \in DOMAIN seqs[i]
        PROVE  start[i] + k \in DOMAIN fr /\ fr[start[i] + k] = seqs[i][k]
    <3>1. CASE i = r
      <4>1. k \in DOMAIN sr /\ k \in 1..Len(sr)
        BY <2>6, <3>1 DEF sr
      <4>2. lq + k \in 1..(lq + Len(sr))
        BY <2>6, <4>1
      <4> QED BY <2>5, <2>63, <3>1, <4>1, <4>2 DEF sr
    <3>2. CASE i \in 1..q
      <4>1. start[i] + k \in DOMAIN fq /\ fq[start[i] + k] = seqs[i][k]
        BY <2>62, <3>2
      <4>2. DOMAIN fq \subseteq DOMAIN fr
        BY <2>5, <2>6
      <4> QED BY <2>5, <4>1, <4>2
    <3> QED BY <2>1, <3>1, <3>2
  <2>10. ASSUME NEW m \in DOMAIN fr
         PROVE  \E i \in 1..r : \E k \in DOMAIN seqs[i] : m = start[i] + k
    <3>1. CASE m \in DOMAIN fq
      <4>1. PICK i \in 1..q : \E k \in DOMAIN seqs[i] : m = start[i] + k
        BY <2>62, <3>1
      <4>2. i \in 1..r
        BY <2>61
      <4> QED BY <4>1, <4>2
    <3>2. CASE m \notin DOMAIN fq
      <4>1. m - lq \in DOMAIN sr /\ m = lq + (m - lq)
        BY <2>5, <2>6, <3>2
      <4>2. m - lq \in DOMAIN seqs[r] /\ m = start[r] + (m - lq)
        BY <2>63, <4>1 DEF sr
      <4> QED BY <2>61, <4>2
    <3> QED BY <3>1, <3>2
  <2>11. lr = start[r] + Len(seqs[r])
    BY <2>5, <2>63 DEF sr
  <2>12. Joined(r)
    <3>1. \A i \in 1..r : start[i] \in Nat /\ start[i] + Len(seqs[i]) <= lr
      BY <2>7, <2>61
    <3>2. \A i, j \in 1..r : i < j => start[i] + Len(seqs[i]) <= start[j]
      BY <2>8, <2>61
    <3> QED BY <2>5, <2>9, <2>10, <2>11, <3>1, <3>2, Zenon DEF Joined, fr, lr
  <2> QED BY <2>12 DEF r
<1>9. \A n \in Nat : n \in T
  <2> HIDE DEF T
  <2> QED BY <1>7, <1>8, SetInduction, Zenon
<1>10. CASE N = 0
  <2>1. DOMAIN seqs = {} /\ whole = seqs
    BY <1>1, <1>2, <1>10 DEF N
  <2>2. [i \in {} |-> 0] \in [DOMAIN seqs -> Nat]
    BY <2>1
  <2> QED BY <2>1, <2>2, Zenon DEF whole
<1>11. CASE N # 0
  <2>1. N - 1 \in Nat /\ (N - 1) + 1 = N /\ N \in 1..N
    BY <1>1, <1>11
  <2>2. Joined(N)
    <3> HIDE DEF Joined
    <3> QED BY <1>9, <2>1
  <2>3. whole = flatten[N]
    BY <1>2, <1>11 DEF N
  <2>4. start \in [DOMAIN seqs -> Nat]
    <3>1. start = [i \in 1..N |-> start[i]]
      BY Zenon
    <3>2. \A i \in 1..N : start[i] \in Nat
      BY <2>2
    <3> HIDE DEF start
    <3> QED BY <1>1, <3>1, <3>2
  <2> HIDE DEF start
  <2> DEFINE fn == flatten[N]
  <2>41. /\ Listed(fn)
         /\ \A i, j \in 1..N : i < j => start[i] + Len(seqs[i]) <= start[j]
         /\ \A i \in 1..N : \A k \in DOMAIN seqs[i] :
               start[i] + k \in DOMAIN fn /\ fn[start[i] + k] = seqs[i][k]
         /\ \A n \in DOMAIN fn : \E i \in 1..N : \E k \in DOMAIN seqs[i] : n = start[i] + k
    BY <2>2, Zenon DEF Joined
  <2> HIDE DEF fn
  <2>42. whole = fn
    BY <2>3 DEF fn
  <2>5. /\ Listed(whole)
        /\ \A i \in DOMAIN seqs : \A k \in DOMAIN seqs[i] :
              start[i] + k \in DOMAIN whole /\ whole[start[i] + k] = seqs[i][k]
        /\ \A n \in DOMAIN whole :
              \E i \in DOMAIN seqs : \E k \in DOMAIN seqs[i] : n = start[i] + k
        /\ \A i, j \in DOMAIN seqs : i < j => start[i] + Len(seqs[i]) <= start[j]
    BY <1>1, <2>41, <2>42
  <2> QED BY <2>4, <2>5, Zenon DEF whole
<1> QED BY <1>10, <1>11

-----------------------------------------------------------------------------
(* Merging the metadata of v0 blocks into the fragments of a page.         *)
LEMMA HasLeast ==
    ASSUME NEW S \in SUBSET Nat, S # {}
    PROVE  \E n \in S : \A m \in S : n <= m
<1> DEFINE R == {ss \in Nat \X Nat : ss[1] < ss[2]}
<1>1. IsWellFoundedOn(R, Nat)
  BY NatLessThanWellFounded DEF OpToRel
<1>2. PICK x \in S : \A y \in S : <<y, x>> \notin R
  <2> HIDE DEF R
  <2> QED BY <1>1, WFMin, Zenon
<1>3. ASSUME NEW m \in S PROVE x <= m
  <2>1. x \in Nat /\ m \in Nat /\ <<m, x>> \notin R
    BY <1>2
  <2>2. ~(m < x)
    BY <2>1
  <2> QED BY <2>1, <2>2
<1> QED BY <1>3

LEMMA FirstOfIs ==
    ASSUME NEW S \in SUBSET Nat, S # {}
    PROVE  FirstOf(S) \in S /\ \A m \in S : FirstOf(S) <= m
<1>1. \E n \in S : \A m \in S : n <= m
  BY HasLeast
<1> QED BY <1>1, Zenon DEF FirstOf

LEMMA RemovedAt ==
    ASSUME NEW s, Listed(s), NEW i \in DOMAIN s
    PROVE  /\ Listed(RemoveAt(s, i))
           /\ \A k \in DOMAIN RemoveAt(s, i) : \E j \in DOMAIN s : RemoveAt(s, i)[k] = s[j]
           /\ \A j \in DOMAIN s : j # i => \E k \in DOMAIN RemoveAt(s, i) : RemoveAt(s, i)[k] = s[j]
<1> DEFINE N == Len(s)
           a == SubSeq(s, 1, i - 1)
           b == SubSeq(s, i + 1, N)
           T == {s[j] : j \in 1..N}
<1>1. N \in Nat /\ i \in 1..N /\ DOMAIN s = 1..N
  BY DEF Listed
<1>2. s \in Seq(T)
  BY FunctionIsListed, Zenon DEF Listed
<1> HIDE DEF T
<1>3. /\ a \in Seq(T) /\ Len(a) = i - 1 /\ \A k \in 1..(i - 1) : a[k] = s[k]
      /\ b \in Seq(T) /\ Len(b) = N - i /\ \A k \in 1..(N - i) : b[k] = s[i + k]
  BY <1>1, <1>2
<1>4. RemoveAt(s, i) = a \o b
  BY Zenon DEF RemoveAt
<1> HIDE DEF a, b, N
<1>5. Listed(a) /\ Listed(b) /\ DOMAIN a = 1..(i - 1) /\ DOMAIN b = 1..(N - i)
  BY <1>1, <1>3 DEF Listed
<1> DEFINE u == a \o b
<1>6. /\ Listed(u) /\ DOMAIN u = 1..((i - 1) + (N - i))
      /\ \A k \in 1..(i - 1) : u[k] = a[k]
      /\ \A k \in 1..(N - i) : u[(i - 1) + k] = b[k]
  BY <1>3, <1>5, JoinedLists
<1> HIDE DEF u
<1>7. DOMAIN u = 1..(N - 1)
  BY <1>1, <1>6
<1>8. ASSUME NEW k \in DOMAIN u PROVE \E j \in DOMAIN s : u[k] = s[j]
  <2>1. CASE k \in 1..(i - 1)
    BY <1>1, <1>3, <1>6, <2>1
  <2>2. CASE k \notin 1..(i - 1)
    <3>1. k - (i - 1) \in 1..(N - i) /\ k = (i - 1) + (k - (i - 1)) /\ k + 1 \in 1..N
          /\ i + (k - (i - 1)) = k + 1
      BY <1>1, <1>7, <2>2
    <3>2. u[k] = s[k + 1]
      BY <1>3, <1>6, <3>1
    <3> QED BY <1>1, <3>1, <3>2
  <2> QED BY <2>1, <2>2
<1>9. ASSUME NEW j \in DOMAIN s, j # i PROVE \E k \in DOMAIN u : u[k] = s[j]
  <2>1. CASE j < i
    <3>1. j \in 1..(i - 1) /\ j \in 1..(N - 1)
      BY <1>1, <2>1
    <3> QED BY <1>3, <1>6, <1>7, <3>1
  <2>2. CASE ~(j < i)
    <3>1. j - i \in 1..(N - i) /\ (i - 1) + (j - i) \in 1..(N - 1) /\ i + (j - i) = j
      BY <1>1, <1>9, <2>2
    <3>2. u[(i - 1) + (j - i)] = s[j]
      BY <1>3, <1>6, <3>1
    <3> QED BY <1>7, <3>1, <3>2
  <2> QED BY <2>1, <2>2
<1>10. RemoveAt(s, i) = u
  BY <1>4 DEF u
<1> QED BY <1>6, <1>8, <1>9, <1>10

LEMMA RankIsNatural ==
    ASSUME NEW target, NEW source, NEW fallback
    PROVE  MatchRank(target, source, fallback) \in Nat
  BY DEF MatchRank, NoMatch

\* A fragment takes one of the blocks that match it, if there is one.
Takes(fallback, acc, f, next) ==
    \/ /\ \A i \in DOMAIN acc.left : MatchRank(f, acc.left[i], fallback) = NoMatch
       /\ next = [acc EXCEPT !.out = Append(@, f)]
    \/ \E i \in DOMAIN acc.left :
          /\ MatchRank(f, acc.left[i], fallback) # NoMatch
          /\ next = [out |-> Append(acc.out, WithV0Metadata(f, acc.left[i])),
                     left |-> RemoveAt(acc.left, i)]

LEMMA StepTakes ==
    ASSUME NEW fallback, NEW acc, NEW f, Listed(acc.left)
    PROVE  Takes(fallback, acc, f, MergeStep(fallback, acc, f))
<1> DEFINE left == acc.left
           rank == [i \in DOMAIN left |-> MatchRank(f, left[i], fallback)]
           hits == {i \in DOMAIN left : rank[i] # NoMatch}
           best == CHOOSE i \in hits : \A j \in hits :
                    rank[i] < rank[j] \/ (rank[i] = rank[j] /\ i <= j)
<1>1. MergeStep(fallback, acc, f) =
          IF hits = {} THEN [acc EXCEPT !.out = Append(@, f)]
          ELSE [out |-> Append(acc.out, WithV0Metadata(f, left[best])),
                left |-> RemoveAt(left, best)]
  BY Zenon DEF MergeStep
<1>2. \A i \in DOMAIN left : rank[i] = MatchRank(f, left[i], fallback) /\ rank[i] \in Nat
  BY RankIsNatural
<1>3. DOMAIN left \subseteq Nat
  BY DEF Listed
<1> HIDE DEF left, rank, best
<1>4. ASSUME hits # {}
      PROVE  best \in hits
  <2> DEFINE ranks == {rank[i] : i \in hits}
  <2>1. ranks \subseteq Nat /\ ranks # {}
    BY <1>2, <1>4
  <2>2. PICK r \in ranks : \A q \in ranks : r <= q
    <3> HIDE DEF ranks
    <3> QED BY <2>1, HasLeast
  <2> DEFINE first == {i \in hits : rank[i] = r}
  <2>3. first \subseteq Nat /\ first # {}
    BY <1>3, <2>2
  <2>4. PICK i \in first : \A j \in first : i <= j
    <3> HIDE DEF first
    <3> QED BY <2>3, HasLeast
  <2>5. i \in hits /\ rank[i] = r
    OBVIOUS
  <2>6. ASSUME NEW j \in hits PROVE rank[i] < rank[j] \/ (rank[i] = rank[j] /\ i <= j)
    <3>1. rank[j] \in Nat /\ r \in Nat /\ r <= rank[j]
      BY <1>2, <2>1, <2>2
    <3>2. rank[j] = r => i <= j
      BY <2>4
    <3> QED BY <2>5, <3>1, <3>2
  <2>7. \E k \in hits : \A j \in hits : rank[k] < rank[j] \/ (rank[k] = rank[j] /\ k <= j)
    BY <2>5, <2>6
  <2> HIDE DEF hits
  <2> QED BY <2>7, Zenon DEF best
<1>5. CASE hits = {}
  <2>1. \A i \in DOMAIN left : MatchRank(f, left[i], fallback) = NoMatch
    BY <1>2, <1>5
  <2> HIDE DEF hits
  <2> QED BY <1>1, <1>5, <2>1, Zenon DEF Takes, left
<1>6. CASE hits # {}
  <2>1. best \in DOMAIN left /\ MatchRank(f, left[best], fallback) # NoMatch
    BY <1>2, <1>4, <1>6
  <2> HIDE DEF hits
  <2>2. MergeStep(fallback, acc, f) =
          [out |-> Append(acc.out, WithV0Metadata(f, left[best])),
                left |-> RemoveAt(left, best)]
    BY <1>1, <1>6, Zenon
  <2> QED BY <2>1, <2>2, Zenon DEF Takes, left
<1> QED BY <1>5, <1>6
(* The recursive function of MergeList is defined on every list.           *)
FragmentsMerged(fs, blocks, fallback, m, f) ==
    f = [n \in 0..m |-> IF n = 0 THEN [out |-> <<>>, left |-> blocks] ELSE MergeStep(fallback, f[n - 1], fs[n])]

LEMMA MergeListAfter ==
    ASSUME NEW fs, NEW blocks, NEW fallback, NEW m \in Nat
    PROVE  \E f : FragmentsMerged(fs, blocks, fallback, m, f)
<1> DEFINE Defined(k, f) == FragmentsMerged(fs, blocks, fallback, k, f)
           T == {k \in Nat : \E f : Defined(k, f)}
<1>1. 0 \in T
  <2> DEFINE f == [n \in 0..0 |-> [out |-> <<>>, left |-> blocks]]
  <2>1. Defined(0, f)
    <3>1. \A n \in 0..0 : n = 0
      OBVIOUS
    <3> QED BY <3>1, Zenon DEF FragmentsMerged
  <2> HIDE DEF Defined, f
  <2> QED BY <2>1
<1>2. ASSUME NEW k \in Nat, k \in T PROVE k + 1 \in T
  <2> HIDE DEF Defined
  <2>1. PICK f : Defined(k, f)
    BY <1>2
  <2> DEFINE next == MergeStep(fallback, f[k], fs[(k + 1)])
             g == [n \in 0..(k + 1) |-> IF n = k + 1 THEN next ELSE f[n]]
  <2>2. f = [n \in 0..k |-> IF n = 0 THEN [out |-> <<>>, left |-> blocks] ELSE MergeStep(fallback, f[n - 1], fs[n])]
    BY <2>1, Zenon DEF Defined, FragmentsMerged
  <2>3. ASSUME NEW n \in 0..(k + 1)
        PROVE  g[n] = IF n = 0 THEN [out |-> <<>>, left |-> blocks] ELSE MergeStep(fallback, g[n - 1], fs[n])
    <3>1. CASE n = k + 1
      <4>1. n # 0 /\ n - 1 = k /\ k \in 0..(k + 1) /\ k # k + 1
        BY <3>1
      <4>2. g[k] = f[k] /\ g[n] = next
        BY <3>1, <4>1, Zenon
      <4> HIDE DEF g
      <4> QED BY <3>1, <4>1, <4>2, Zenon
    <3>2. CASE n = 0
      <4>1. n \in 0..k /\ n # k + 1
        BY <3>2
      <4> QED BY <2>2, <3>2, <4>1, Zenon
    <3>3. CASE n # k + 1 /\ n # 0
      <4>1. n \in 0..k /\ n - 1 \in 0..(k + 1) /\ n - 1 # k + 1
        BY <3>3
      <4>2. g[n] = f[n] /\ g[n - 1] = f[n - 1]
        BY <3>3, <4>1, Zenon
      <4>3. f[n] = MergeStep(fallback, f[n - 1], fs[n])
        BY <2>2, <3>3, <4>1, Zenon
      <4> HIDE DEF g
      <4> QED BY <3>3, <4>2, <4>3, Zenon
    <3> QED BY <3>1, <3>2, <3>3, Zenon
  <2>4. g = [n \in 0..(k + 1) |-> g[n]]
    BY Zenon
  <2> HIDE DEF g
  <2>5. Defined(k + 1, g)
    BY <2>3, <2>4, Zenon DEF Defined, FragmentsMerged
  <2> QED BY <2>5
<1>3. m \in T
  <2> HIDE DEF T
  <2> QED BY <1>1, <1>2, SetInduction, Zenon
<1> QED BY <1>3, Zenon
(* What has become of the fragments and blocks after n steps: a block whose *)
(* text no other block has goes to a fragment as soon as one matches it.    *)
MergedSoFar(fs, blocks, fallback, acc, n) ==
    /\ DOMAIN acc = {"out", "left"} /\ acc = [out |-> acc.out, left |-> acc.left]
    /\ Listed(acc.out) /\ Listed(acc.left) /\ DOMAIN acc.out = 1..n
    /\ \A k \in 1..n : \/ acc.out[k] = fs[k]
                       \/ \E i \in DOMAIN blocks : acc.out[k] = WithV0Metadata(fs[k], blocks[i])
    /\ \A i \in DOMAIN acc.left : \E j \in DOMAIN blocks : acc.left[i] = blocks[j]
    /\ \A j \in DOMAIN blocks :
          (\A i \in DOMAIN blocks : blocks[i].text = blocks[j].text => blocks[i] = blocks[j])
          => \/ /\ \E i \in DOMAIN acc.left : acc.left[i] = blocks[j]
                /\ \A k \in 1..n : MatchRank(fs[k], blocks[j], fallback) = NoMatch
             \/ \E k \in 1..n : /\ fs[k].text = blocks[j].text
                                /\ acc.out[k] = WithV0Metadata(fs[k], blocks[j])

LEMMA MergedAppend ==
    ASSUME NEW s, NEW e, NEW n \in Nat, Listed(s), DOMAIN s = 1..n
    PROVE  /\ Listed(Append(s, e)) /\ DOMAIN Append(s, e) = 1..(n + 1)
           /\ \A k \in 1..n : Append(s, e)[k] = s[k]
           /\ Append(s, e)[n + 1] = e
<1>1. Len(s) = n
  BY DEF Listed
<1> DEFINE T == {s[i] : i \in 1..n}
<1>2. s \in Seq(T)
  BY <1>1, FunctionIsListed, Zenon DEF Listed
<1>3. Listed(Append(s, e))
  BY AppendIsListed
<1>4. s \in Seq(T \cup {e})
  <2> HIDE DEF T
  <2> QED BY <1>2
<1> HIDE DEF T
<1>5. /\ DOMAIN Append(s, e) = 1..(n + 1)
      /\ \A k \in 1..n : Append(s, e)[k] = s[k]
      /\ Append(s, e)[n + 1] = e
  BY <1>1, <1>4
<1> QED BY <1>3, <1>5

LEMMA MatchingText ==
    ASSUME NEW f, NEW b, NEW fallback, MatchRank(f, b, fallback) # NoMatch
    PROVE  f.text = b.text
  BY DEF MatchRank

LEMMA MergeListIs ==
    ASSUME NEW fs, NEW blocks, NEW fallback, Listed(fs), Listed(blocks)
    PROVE  MergedSoFar(fs, blocks, fallback, MergeList(fs, blocks, fallback), Len(fs))
<1> DEFINE N == Len(fs)
           start == [out |-> <<>>, left |-> blocks]
           after == CHOOSE f : f = [n \in 0..N |-> IF n = 0 THEN start
                                                  ELSE MergeStep(fallback, f[n - 1], fs[n])]
           So(acc, n) == MergedSoFar(fs, blocks, fallback, acc, n)
<1>1. N \in Nat
  BY DEF Listed
<1>2. MergeList(fs, blocks, fallback) = after[N]
  BY Zenon DEF MergeList
<1>3. \E f : f = [n \in 0..N |-> IF n = 0 THEN start ELSE MergeStep(fallback, f[n - 1], fs[n])]
  <2>1. \E f : FragmentsMerged(fs, blocks, fallback, N, f)
    <3> HIDE DEF N
    <3> QED BY <1>1, MergeListAfter, Zenon
  <2> QED BY <2>1, Zenon DEF FragmentsMerged
<1>4. after = [n \in 0..N |-> IF n = 0 THEN start ELSE MergeStep(fallback, after[n - 1], fs[n])]
  BY <1>3, Zenon
<1> HIDE DEF after, N
<1>5. So(after[0], 0)
  <2>1. after[0] = start
    BY <1>1, <1>4
  <2>2. Listed(<<>>) /\ DOMAIN <<>> = 1..0 /\ \A k \in 1..0 : FALSE
    BY DEF Listed
  <2>3. DOMAIN start = {"out", "left"} /\ start.out = <<>> /\ start.left = blocks
        /\ start = [out |-> start.out, left |-> start.left]
    OBVIOUS
  <2> HIDE DEF start
  <2> QED BY <2>1, <2>2, <2>3, Zenon DEF MergedSoFar
<1>6. ASSUME NEW n \in Nat, n + 1 <= N, So(after[n], n)
      PROVE  So(after[n + 1], n + 1)
  <2> DEFINE acc == after[n]  next == after[n + 1]  f == fs[n + 1]
  <2>1. next = MergeStep(fallback, acc, f)
    <3>1. n + 1 \in 0..N /\ n + 1 # 0 /\ (n + 1) - 1 = n
      BY <1>1, <1>6
    <3> QED BY <1>4, <3>1
  <2> HIDE DEF acc, next, f
  <2>2. /\ acc = [out |-> acc.out, left |-> acc.left]
        /\ Listed(acc.out) /\ Listed(acc.left) /\ DOMAIN acc.out = 1..n
    BY <1>6, Zenon DEF MergedSoFar, acc
  <2>3. \A k \in 1..n : \/ acc.out[k] = fs[k]
                        \/ \E i \in DOMAIN blocks : acc.out[k] = WithV0Metadata(fs[k], blocks[i])
    BY <1>6, Zenon DEF MergedSoFar, acc
  <2>4. \A i \in DOMAIN acc.left : \E j \in DOMAIN blocks : acc.left[i] = blocks[j]
    BY <1>6, Zenon DEF MergedSoFar, acc
  <2> DEFINE Alone(j) == \A i \in DOMAIN blocks : blocks[i].text = blocks[j].text => blocks[i] = blocks[j]
             Taken(a, j, m) == \E k \in 1..m : /\ fs[k].text = blocks[j].text
                                              /\ a.out[k] = WithV0Metadata(fs[k], blocks[j])
             Waits(a, j, m) == /\ \E i \in DOMAIN a.left : a.left[i] = blocks[j]
                               /\ \A k \in 1..m : MatchRank(fs[k], blocks[j], fallback) = NoMatch
  <2>5. \A j \in DOMAIN blocks : Alone(j) => Waits(acc, j, n) \/ Taken(acc, j, n)
    BY <1>6, Zenon DEF MergedSoFar, acc
  <2>6. Takes(fallback, acc, f, next)
    BY <2>1, <2>2, StepTakes, Zenon
  <2>7. 1..(n + 1) = (1..n) \cup {n + 1} /\ n + 1 \in 1..(n + 1) /\ 1..n \subseteq 1..(n + 1)
    OBVIOUS
  <2>71. \A e : /\ Listed(Append(acc.out, e)) /\ DOMAIN Append(acc.out, e) = 1..(n + 1)
                /\ \A k \in 1..n : Append(acc.out, e)[k] = acc.out[k]
                /\ Append(acc.out, e)[n + 1] = e
    <3> DEFINE old == acc.out
    <3>1. Listed(old) /\ DOMAIN old = 1..n
      BY <2>2
    <3> HIDE DEF old
    <3>2. ASSUME NEW e
          PROVE  /\ Listed(Append(old, e)) /\ DOMAIN Append(old, e) = 1..(n + 1)
                 /\ \A k \in 1..n : Append(old, e)[k] = old[k]
                 /\ Append(old, e)[n + 1] = e
      BY <3>1, MergedAppend
    <3> QED BY <3>2 DEF old
  <2>8. CASE /\ \A i \in DOMAIN acc.left : MatchRank(f, acc.left[i], fallback) = NoMatch
             /\ next = [acc EXCEPT !.out = Append(@, f)]
    <3>1. /\ DOMAIN next = {"out", "left"} /\ next = [out |-> next.out, left |-> next.left]
          /\ next.out = Append(acc.out, f) /\ next.left = acc.left
      BY <2>2, <2>8
    <3>2. /\ Listed(next.out) /\ DOMAIN next.out = 1..(n + 1)
          /\ \A k \in 1..n : next.out[k] = acc.out[k]
          /\ next.out[n + 1] = f
      <4> DEFINE longer == Append(acc.out, f)
      <4>1. /\ Listed(longer) /\ DOMAIN longer = 1..(n + 1)
            /\ \A k \in 1..n : longer[k] = acc.out[k]
            /\ longer[n + 1] = f
        BY <2>71, Zenon
      <4>2. next.out = longer
        BY <3>1
      <4> HIDE DEF longer
      <4> QED BY <4>1, <4>2
    <3>3. ASSUME NEW k \in 1..(n + 1)
          PROVE  \/ next.out[k] = fs[k]
                 \/ \E i \in DOMAIN blocks : next.out[k] = WithV0Metadata(fs[k], blocks[i])
      <4>1. CASE k \in 1..n
        BY <2>3, <3>2, <4>1, Zenon
      <4>2. CASE k = n + 1
        BY <3>2, <4>2 DEF f
      <4> QED BY <2>7, <4>1, <4>2
    <3>4. ASSUME NEW j \in DOMAIN blocks, Alone(j)
          PROVE  Waits(next, j, n + 1) \/ Taken(next, j, n + 1)
      <4>1. CASE Waits(acc, j, n)
        <5>1. PICK i \in DOMAIN acc.left : acc.left[i] = blocks[j]
          BY <4>1, Zenon
        <5>2. MatchRank(f, blocks[j], fallback) = NoMatch
          BY <2>8, <5>1, Zenon
        <5>3. ASSUME NEW k \in 1..(n + 1) PROVE MatchRank(fs[k], blocks[j], fallback) = NoMatch
          <6>1. CASE k \in 1..n
            BY <4>1, <6>1, Zenon
          <6>2. CASE k = n + 1
            BY <5>2, <6>2 DEF f
          <6> QED BY <2>7, <6>1, <6>2
        <5> QED BY <3>1, <5>1, <5>3, Zenon
      <4>2. CASE Taken(acc, j, n)
        <5>1. PICK k \in 1..n : /\ fs[k].text = blocks[j].text
                                /\ acc.out[k] = WithV0Metadata(fs[k], blocks[j])
          BY <4>2, Zenon
        <5>2. k \in 1..(n + 1) /\ next.out[k] = acc.out[k]
          BY <2>7, <3>2
        <5> QED BY <5>1, <5>2, Zenon
      <4> QED BY <2>5, <3>4, <4>1, <4>2, Zenon
    <3> HIDE DEF Waits, Taken
    <3>5. \A i \in DOMAIN next.left : \E j \in DOMAIN blocks : next.left[i] = blocks[j]
      BY <2>4, <3>1, Zenon
    <3>6. \A j \in DOMAIN blocks : Alone(j) => Waits(next, j, n + 1) \/ Taken(next, j, n + 1)
      BY <3>4, Zenon
    <3>7. Listed(next.left)
      BY <2>2, <3>1
    <3>8. MergedSoFar(fs, blocks, fallback, next, n + 1)
      BY <3>1, <3>2, <3>3, <3>5, <3>6, <3>7, Zenon DEF MergedSoFar, Waits, Taken
    <3> QED BY <3>8 DEF next
  <2>9. ASSUME NEW i \in DOMAIN acc.left,
               MatchRank(f, acc.left[i], fallback) # NoMatch,
               next = [out |-> Append(acc.out, WithV0Metadata(f, acc.left[i])),
                       left |-> RemoveAt(acc.left, i)]
        PROVE  So(after[n + 1], n + 1)
    <3> DEFINE source == acc.left[i]
    <3>1. /\ DOMAIN next = {"out", "left"} /\ next = [out |-> next.out, left |-> next.left]
          /\ next.out = Append(acc.out, WithV0Metadata(f, source))
          /\ next.left = RemoveAt(acc.left, i)
      BY <2>9
    <3>2. /\ Listed(next.out) /\ DOMAIN next.out = 1..(n + 1)
          /\ \A k \in 1..n : next.out[k] = acc.out[k]
          /\ next.out[n + 1] = WithV0Metadata(f, source)
      <4> DEFINE longer == Append(acc.out, WithV0Metadata(f, source))
      <4>1. /\ Listed(longer) /\ DOMAIN longer = 1..(n + 1)
            /\ \A k \in 1..n : longer[k] = acc.out[k]
            /\ longer[n + 1] = WithV0Metadata(f, source)
        BY <2>71, Zenon
      <4>2. next.out = longer
        BY <3>1
      <4> HIDE DEF longer
      <4> QED BY <4>1, <4>2
    <3>3. /\ Listed(next.left)
          /\ \A k \in DOMAIN next.left : \E j \in DOMAIN acc.left : next.left[k] = acc.left[j]
          /\ \A j \in DOMAIN acc.left : j # i =>
                \E k \in DOMAIN next.left : next.left[k] = acc.left[j]
      BY <2>2, <3>1, RemovedAt
    <3>4. \E j \in DOMAIN blocks : source = blocks[j]
      BY <2>4
    <3> HIDE DEF source
    <3>5. ASSUME NEW k \in 1..(n + 1)
          PROVE  \/ next.out[k] = fs[k]
                 \/ \E j \in DOMAIN blocks : next.out[k] = WithV0Metadata(fs[k], blocks[j])
      <4>1. CASE k \in 1..n
        BY <2>3, <3>2, <4>1, Zenon
      <4>2. CASE k = n + 1
        <5>1. next.out[k] = WithV0Metadata(fs[k], source)
          BY <3>2, <4>2 DEF f
        <5> QED BY <3>4, <5>1, Zenon
      <4> QED BY <2>7, <4>1, <4>2
    <3>6. ASSUME NEW k \in DOMAIN next.left
          PROVE  \E j \in DOMAIN blocks : next.left[k] = blocks[j]
      <4>1. PICK j \in DOMAIN acc.left : next.left[k] = acc.left[j]
        BY <3>3, Zenon
      <4> QED BY <2>4, <4>1, Zenon
    <3>7. ASSUME NEW j \in DOMAIN blocks, Alone(j)
          PROVE  Waits(next, j, n + 1) \/ Taken(next, j, n + 1)
      <4>1. CASE Taken(acc, j, n)
        <5>1. PICK k \in 1..n : /\ fs[k].text = blocks[j].text
                                /\ acc.out[k] = WithV0Metadata(fs[k], blocks[j])
          BY <4>1, Zenon
        <5>2. k \in 1..(n + 1) /\ next.out[k] = acc.out[k]
          BY <2>7, <3>2
        <5> QED BY <5>1, <5>2, Zenon
      <4>2. CASE Waits(acc, j, n) /\ MatchRank(f, blocks[j], fallback) = NoMatch
        <5>1. PICK m \in DOMAIN acc.left : acc.left[m] = blocks[j]
          BY <4>2, Zenon
        <5>2. m # i
          BY <2>9, <4>2, <5>1, Zenon
        <5>3. \E k \in DOMAIN next.left : next.left[k] = blocks[j]
          BY <3>3, <5>1, <5>2, Zenon
        <5>4. ASSUME NEW k \in 1..(n + 1) PROVE MatchRank(fs[k], blocks[j], fallback) = NoMatch
          <6>1. CASE k \in 1..n
            BY <4>2, <6>1, Zenon
          <6>2. CASE k = n + 1
            BY <4>2, <6>2 DEF f
          <6> QED BY <2>7, <6>1, <6>2
        <5> QED BY <5>3, <5>4, Zenon
      <4>3. CASE MatchRank(f, blocks[j], fallback) # NoMatch
        <5>1. f.text = blocks[j].text /\ f.text = source.text
          BY <2>9, <4>3, MatchingText, Zenon DEF source
        <5>2. source = blocks[j]
          BY <3>4, <3>7, <5>1, Zenon
        <5>3. /\ fs[n + 1].text = blocks[j].text
              /\ next.out[n + 1] = WithV0Metadata(fs[n + 1], blocks[j])
          BY <3>2, <5>1, <5>2 DEF f
        <5> QED BY <2>7, <5>3, Zenon
      <4> QED BY <2>5, <3>7, <4>1, <4>2, <4>3, Zenon
    <3> HIDE DEF Waits, Taken
    <3>8. \A j \in DOMAIN blocks : Alone(j) => Waits(next, j, n + 1) \/ Taken(next, j, n + 1)
      BY <3>7, Zenon
    <3>9. MergedSoFar(fs, blocks, fallback, next, n + 1)
      BY <3>1, <3>2, <3>3, <3>5, <3>6, <3>8, Zenon DEF MergedSoFar, Waits, Taken
    <3> QED BY <3>9 DEF next
  <2> HIDE DEF So
  <2> QED BY <2>6, <2>8, <2>9, Zenon DEF Takes
<1> DEFINE T == {n \in Nat : n <= N => So(after[n], n)}
<1>7. 0 \in T
  <2> HIDE DEF So
  <2> QED BY <1>5
<1>8. ASSUME NEW n \in Nat, n \in T PROVE n + 1 \in T
  <2> HIDE DEF So
  <2>1. n + 1 <= N => n <= N
    BY <1>1
  <2> QED BY <1>6, <1>8, <2>1
<1>9. \A n \in Nat : n \in T
  <2> HIDE DEF T
  <2> QED BY <1>7, <1>8, SetInduction, Zenon
<1>10. So(after[N], N)
  <2> HIDE DEF So
  <2>1. N <= N
    BY <1>1
  <2> QED BY <1>1, <1>9, <2>1
<1> QED BY <1>2, <1>10, Zenon DEF N

-----------------------------------------------------------------------------
(* The shape of fragments and pages.                                       *)
FragmentsShaped(fs) == Listed(fs) /\ \A k \in DOMAIN fs : FragmentShape(fs[k])

PageShape(page) ==
    /\ page = [number |-> page.number, sized |-> page.sized, unit |-> page.unit,
               fragments |-> page.fragments, regions |-> page.regions]
    /\ FragmentsShaped(page.fragments) /\ FragmentsShaped(page.regions)

PagesShaped(pages) == Listed(pages) /\ \A i \in DOMAIN pages : PageShape(pages[i])

LEMMA FragmentIsShaped ==
    ASSUME NEW kind, NEW text, NEW box, NEW conf
    PROVE  FragmentShape(Fragment(kind, text, box, conf))
  BY DEF FragmentShape, Fragment

LEMMA MetadataTaken ==
    ASSUME NEW f, NEW source, FragmentShape(f)
    PROVE  LET g == WithV0Metadata(f, source)
           IN  /\ FragmentShape(g)
               /\ g.text = f.text /\ g.page = f.page /\ g.keep = f.keep /\ g.box = f.box
               /\ f.kind # None => g.kind = f.kind
               /\ g.review = (f.review \/ source.review)
               /\ g.low = (f.low \/ source.low)
               /\ g.missing = (f.missing \/ source.missing)
               /\ g.warnings = f.warnings \cup source.warnings
               /\ g.rows = IF f.rows = None THEN source.rows ELSE f.rows
               /\ g.conf \in {f.conf, NoNumber, source.conf}
               /\ ~source.low /\ f.conf # NoNumber /\ ~source.missing => g.conf = f.conf
<1> DEFINE takeConf == ~source.missing /\ source.conf # NoNumber
                    /\ (source.low \/ f.conf = NoNumber)
           named == IF f.extractor = None /\ f.engine = None
                 THEN [f EXCEPT !.extractor = source.extractor, !.engine = source.engine]
                 ELSE f
           rows == IF f.rows = None THEN source.rows ELSE f.rows
           kind == IF f.kind = None /\ V0Type(source) \in BLOCK_TYPES \ {"paragraph"}
                    THEN V0Type(source) ELSE f.kind
           conf == CASE source.missing -> NoNumber
                      [] takeConf -> source.conf
                      [] OTHER -> f.conf
           extractor == IF takeConf /\ named.engine # None /\ named.extractor = None
                         THEN ExtractorName(source, named.engine) ELSE named.extractor
           engine == IF takeConf THEN None ELSE named.engine
           g == WithV0Metadata(f, source)
<1>1. g = [named EXCEPT !.rows = rows, !.review = f.review \/ source.review,
                        !.low = f.low \/ source.low, !.kind = kind,
                        !.missing = f.missing \/ source.missing, !.conf = conf,
                        !.extractor = extractor, !.engine = engine,
                        !.warnings = f.warnings \cup source.warnings]
  BY Zenon DEF WithV0Metadata
<1>2. /\ FragmentShape(named) /\ named.text = f.text /\ named.page = f.page
      /\ named.keep = f.keep /\ named.box = f.box
  BY DEF FragmentShape
<1>3. conf \in {f.conf, NoNumber, source.conf}
  BY Zenon
<1>4. ~source.low /\ f.conf # NoNumber /\ ~source.missing => conf = f.conf
  <2> HIDE DEF named
  <2> QED OBVIOUS
<1>5. f.kind # None => kind = f.kind
  BY Zenon
<1> HIDE DEF named, rows, kind, conf, extractor, engine, g
<1>6. g = [kind |-> kind, keep |-> f.keep, text |-> f.text, page |-> f.page,
           box |-> f.box, conf |-> conf, missing |-> f.missing \/ source.missing,
           low |-> f.low \/ source.low, review |-> f.review \/ source.review,
           warnings |-> f.warnings \cup source.warnings, extractor |-> extractor,
           engine |-> engine, rows |-> rows]
  BY <1>1, <1>2 DEF FragmentShape
<1>7. FragmentShape(g)
  BY <1>6 DEF FragmentShape
<1>8. /\ g.text = f.text /\ g.page = f.page /\ g.keep = f.keep /\ g.box = f.box
      /\ g.kind = kind /\ g.conf = conf /\ g.rows = rows
      /\ g.review = (f.review \/ source.review) /\ g.low = (f.low \/ source.low)
      /\ g.missing = (f.missing \/ source.missing)
      /\ g.warnings = f.warnings \cup source.warnings
  BY <1>6, Zenon
<1> QED BY <1>3, <1>4, <1>5, <1>7, <1>8, Zenon DEF g, rows

LEMMA BlockConverted ==
    ASSUME NEW b, NEW pages, FragmentShape(b)
    PROVE  LET f == V0BlockFragment(b, pages)
           IN  /\ FragmentShape(f)
               /\ f.text = b.text /\ f.page = PageNumber(b.page, 0)
               /\ b.kind # None => f.kind = b.kind
               /\ f.kind # None
               /\ f.review = b.review /\ f.low = b.low /\ f.warnings = b.warnings
               /\ f.rows = b.rows /\ f.conf = b.conf
               /\ f.missing = (b.conf = NoNumber)
               /\ f.box.at = b.box.at
<1> DEFINE on == {i \in DOMAIN pages : PageNumber(pages[i].number, i) = PageNumber(b.page, 0)}
           page == pages[CHOOSE i \in on : \A j \in on : j <= i]
           unit == IF b.box.at = None \/ b.box.unit # None \/ on = {}
                           THEN b.box.unit ELSE page.unit
           kind == IF b.kind = None THEN "paragraph" ELSE b.kind
           keep == b.kind # None /\ b.kind \notin BLOCK_TYPES
           engine == IF b.extractor # None THEN None ELSE b.engine
           f == V0BlockFragment(b, pages)
<1>1. f = [b EXCEPT !.box.unit = unit, !.kind = kind, !.keep = keep,
                    !.page = PageNumber(b.page, 0), !.missing = (b.conf = NoNumber),
                    !.engine = engine]
  BY Zenon DEF V0BlockFragment
<1>2. (b.kind # None => kind = b.kind) /\ kind # None
  BY DEF None
<1> HIDE DEF f, unit, kind, keep, engine
<1> DEFINE box == [b.box EXCEPT !.unit = unit]
<1>3. f = [kind |-> kind, keep |-> keep, text |-> b.text, page |-> PageNumber(b.page, 0),
           box |-> box, conf |-> b.conf, missing |-> (b.conf = NoNumber),
           low |-> b.low, review |-> b.review, warnings |-> b.warnings,
           extractor |-> b.extractor, engine |-> engine, rows |-> b.rows]
  BY <1>1 DEF FragmentShape
<1>4. box.at = b.box.at
  OBVIOUS
<1> HIDE DEF box
<1>5. FragmentShape(f)
  BY <1>3 DEF FragmentShape
<1>6. /\ f.text = b.text /\ f.page = PageNumber(b.page, 0) /\ f.kind = kind
      /\ f.review = b.review /\ f.low = b.low /\ f.warnings = b.warnings
      /\ f.rows = b.rows /\ f.conf = b.conf /\ f.missing = (b.conf = NoNumber)
      /\ f.box = box
  BY <1>3, Zenon
<1> QED BY <1>2, <1>4, <1>5, <1>6, Zenon DEF f

NumbersOf(pages) == {PageNumber(pages[i].number, i) : i \in DOMAIN pages}

(* The blocks of a page.                                                   *)
LEMMA BlocksOfPageIs ==
    ASSUME NEW data, NEW index, FragmentsShaped(data.blocks)
    PROVE  LET blocks == BlocksOfPage(data, index)
               fragment(i) == V0BlockFragment(data.blocks[i], data.pages)
           IN  /\ FragmentsShaped(blocks)
               /\ \A k \in DOMAIN blocks : \E i \in DOMAIN data.blocks : blocks[k] = fragment(i)
               /\ \A k \in DOMAIN blocks :
                     \/ blocks[k].page = PageNumber(data.pages[index].number, index)
                     \/ blocks[k].page \notin NumbersOf(data.pages)
               /\ \A i \in DOMAIN data.blocks :
                     fragment(i).page = PageNumber(data.pages[index].number, index)
                     => \E k \in DOMAIN blocks : blocks[k] = fragment(i)
<1> DEFINE known == NumbersOf(data.pages)
           here == PageNumber(data.pages[index].number, index)
           converted == [i \in DOMAIN data.blocks |-> V0BlockFragment(data.blocks[i], data.pages)]
           mine == {i \in DOMAIN converted : converted[i].page = here}
           homeless == {i \in DOMAIN converted : converted[i].page \notin known}
           first == Picked(converted, mine)
           second == IF index = 1 THEN Picked(converted, homeless) ELSE <<>>
           blocks == BlocksOfPage(data, index)
<1>1. blocks = first \o second
  BY Zenon DEF BlocksOfPage, NumbersOf
<1>2. /\ DOMAIN converted = DOMAIN data.blocks
      /\ \A i \in DOMAIN converted : /\ converted[i] = V0BlockFragment(data.blocks[i], data.pages)
                                     /\ FragmentShape(converted[i])
  BY BlockConverted, Zenon DEF FragmentsShaped
<1>3. Listed(converted)
  <2>1. Listed(data.blocks) /\ converted = [i \in DOMAIN data.blocks |-> converted[i]]
    BY Zenon DEF FragmentsShaped
  <2> HIDE DEF converted
  <2> QED BY <2>1, ChangeIsListed, Zenon
<1>4. mine \in SUBSET DOMAIN converted /\ homeless \in SUBSET DOMAIN converted
  OBVIOUS
<1>5. /\ \A i \in DOMAIN converted : converted[i].page = here => i \in mine
      /\ \A i \in mine : converted[i].page = here
      /\ \A i \in homeless : converted[i].page \notin known
  BY Zenon
<1> HIDE DEF converted, mine, homeless, blocks, here, known
<1>6. /\ Listed(first)
      /\ \A n \in mine : \E k \in DOMAIN first : first[k] = converted[n]
      /\ \A k \in DOMAIN first : \E n \in mine : first[k] = converted[n]
  BY <1>3, <1>4, PickedIs
<1>7. /\ Listed(second)
      /\ \A k \in DOMAIN second : \E n \in homeless : second[k] = converted[n]
  <2>1. CASE index = 1
    BY <1>3, <1>4, <2>1, PickedIs
  <2>2. CASE index # 1
    <3>1. second = <<>>
      BY <2>2
    <3> QED BY <3>1 DEF Listed
  <2> QED BY <2>1, <2>2
<1> HIDE DEF first, second
<1>8. /\ Listed(first \o second)
      /\ DOMAIN (first \o second) = 1..(Len(first) + Len(second))
      /\ \A k \in DOMAIN first : (first \o second)[k] = first[k]
      /\ \A k \in DOMAIN second : (first \o second)[Len(first) + k] = second[k]
      /\ DOMAIN first = 1..Len(first) /\ DOMAIN second = 1..Len(second)
      /\ Len(first) \in Nat /\ Len(second) \in Nat
  BY <1>6, <1>7, JoinedLists DEF Listed
<1> DEFINE a == Len(first)  b == Len(second)
<1>9. /\ Listed(blocks) /\ DOMAIN blocks = 1..(a + b) /\ a \in Nat /\ b \in Nat
      /\ \A k \in 1..a : blocks[k] = first[k]
      /\ \A k \in 1..b : blocks[a + k] = second[k]
      /\ DOMAIN first = 1..a /\ DOMAIN second = 1..b
  BY <1>1, <1>8
<1> HIDE DEF a, b
<1>10. ASSUME NEW k \in DOMAIN blocks
       PROVE  /\ \E i \in DOMAIN converted : blocks[k] = converted[i]
              /\ blocks[k].page = here \/ blocks[k].page \notin known
  <2>1. CASE k \in 1..a
    <3>1. PICK n \in mine : first[k] = converted[n]
      BY <1>6, <1>9, <2>1
    <3>2. n \in DOMAIN converted /\ blocks[k] = converted[n]
      BY <1>4, <1>9, <2>1, <3>1
    <3> QED BY <1>5, <3>2, Zenon
  <2>2. CASE k \notin 1..a
    <3>1. k - a \in 1..b /\ a + (k - a) = k
      BY <1>9, <2>2
    <3>2. PICK n \in homeless : second[k - a] = converted[n]
      BY <1>7, <1>9, <3>1
    <3>3. n \in DOMAIN converted /\ blocks[k] = converted[n]
      BY <1>4, <1>9, <3>1, <3>2
    <3> QED BY <1>5, <3>3, Zenon
  <2> QED BY <2>1, <2>2
<1>11. ASSUME NEW i \in DOMAIN converted, converted[i].page = here
       PROVE  \E k \in DOMAIN blocks : blocks[k] = converted[i]
  <2>1. PICK k \in DOMAIN first : first[k] = converted[i]
    BY <1>5, <1>6, <1>11, Zenon
  <2>2. k \in DOMAIN blocks /\ blocks[k] = first[k]
    BY <1>9
  <2> QED BY <2>1, <2>2, Zenon
<1>12. FragmentsShaped(blocks)
  <2>1. \A k \in DOMAIN blocks : FragmentShape(blocks[k])
    BY <1>2, <1>10, Zenon
  <2> QED BY <1>9, <2>1, Zenon DEF FragmentsShaped
<1>13. \A k \in DOMAIN blocks : \E i \in DOMAIN data.blocks :
          blocks[k] = V0BlockFragment(data.blocks[i], data.pages)
  BY <1>2, <1>10, Zenon
<1>14. \A k \in DOMAIN blocks : blocks[k].page = here \/ blocks[k].page \notin known
  BY <1>10
<1>15. ASSUME NEW i \in DOMAIN data.blocks,
              V0BlockFragment(data.blocks[i], data.pages).page = here
       PROVE  \E k \in DOMAIN blocks : blocks[k] = V0BlockFragment(data.blocks[i], data.pages)
  BY <1>2, <1>11, <1>15, Zenon
<1> QED BY <1>12, <1>13, <1>14, <1>15, Zenon DEF blocks, here, known

(* A fragment after an adaptation: as it was, or with a block's metadata.  *)
Adapted(f, g, blocks) ==
    g = f \/ \E i \in DOMAIN blocks : g = WithV0Metadata(f, blocks[i])

AdaptedList(fs, gs, blocks) ==
    Listed(gs) /\ DOMAIN gs = DOMAIN fs /\ \A k \in DOMAIN fs : Adapted(fs[k], gs[k], blocks)

MergedWith(fs, blocks, left, fallback, a) ==
               /\ AdaptedList(fs, a.out, blocks) /\ FragmentsShaped(a.out)
               /\ Listed(a.left)
               /\ \A i \in DOMAIN a.left : \E j \in DOMAIN blocks : a.left[i] = blocks[j]
               /\ \A i \in DOMAIN a.left : \E j \in DOMAIN left : a.left[i] = left[j]
               /\ \A j \in DOMAIN left :
                     (\A i \in DOMAIN left : left[i].text = left[j].text => left[i] = left[j])
                     => \/ /\ \E i \in DOMAIN a.left : a.left[i] = left[j]
                           /\ \A k \in DOMAIN fs : MatchRank(fs[k], left[j], fallback) = NoMatch
                        \/ \E k \in DOMAIN fs : /\ fs[k].text = left[j].text
                                                /\ a.out[k] = WithV0Metadata(fs[k], left[j])

LEMMA MergedList ==
    ASSUME NEW fs, NEW blocks, NEW left, NEW fallback, FragmentsShaped(fs), Listed(left),
           \A i \in DOMAIN left : \E j \in DOMAIN blocks : left[i] = blocks[j]
    PROVE  MergedWith(fs, blocks, left, fallback, MergeList(fs, left, fallback))
<1> DEFINE a == MergeList(fs, left, fallback)
           N == Len(fs)
<1>1. Listed(fs) /\ DOMAIN fs = 1..N /\ \A k \in DOMAIN fs : FragmentShape(fs[k])
  BY DEF FragmentsShaped, Listed
<1>2. MergedSoFar(fs, left, fallback, a, N)
  BY <1>1, MergeListIs, Zenon
<1> HIDE DEF a, N
<1>3. /\ Listed(a.out) /\ Listed(a.left) /\ DOMAIN a.out = 1..N
      /\ \A k \in 1..N : \/ a.out[k] = fs[k]
                         \/ \E i \in DOMAIN left : a.out[k] = WithV0Metadata(fs[k], left[i])
      /\ \A i \in DOMAIN a.left : \E j \in DOMAIN left : a.left[i] = left[j]
  BY <1>2, Zenon DEF MergedSoFar
<1>4. \A j \in DOMAIN left :
         (\A i \in DOMAIN left : left[i].text = left[j].text => left[i] = left[j])
         => \/ /\ \E i \in DOMAIN a.left : a.left[i] = left[j]
               /\ \A k \in 1..N : MatchRank(fs[k], left[j], fallback) = NoMatch
            \/ \E k \in 1..N : /\ fs[k].text = left[j].text
                               /\ a.out[k] = WithV0Metadata(fs[k], left[j])
  BY <1>2, Zenon DEF MergedSoFar
<1>5. ASSUME NEW k \in DOMAIN fs
      PROVE  Adapted(fs[k], a.out[k], blocks) /\ FragmentShape(a.out[k])
  <2>1. CASE a.out[k] = fs[k]
    BY <1>1, <2>1, Zenon DEF Adapted
  <2>2. ASSUME NEW i \in DOMAIN left, a.out[k] = WithV0Metadata(fs[k], left[i])
        PROVE  Adapted(fs[k], a.out[k], blocks) /\ FragmentShape(a.out[k])
    <3>1. PICK j \in DOMAIN blocks : left[i] = blocks[j]
      BY Zenon
    <3>2. FragmentShape(WithV0Metadata(fs[k], left[i]))
      BY <1>1, MetadataTaken
    <3>3. FragmentShape(a.out[k])
      BY <2>2, <3>2
    <3> QED BY <2>2, <3>1, <3>3, Zenon DEF Adapted
  <2> QED BY <1>1, <1>3, <2>1, <2>2, Zenon
<1>6. AdaptedList(fs, a.out, blocks)
  BY <1>1, <1>3, <1>5, Zenon DEF AdaptedList
<1>7. FragmentsShaped(a.out)
  BY <1>1, <1>3, <1>5, Zenon DEF FragmentsShaped
<1>8. ASSUME NEW i \in DOMAIN a.left PROVE \E j \in DOMAIN blocks : a.left[i] = blocks[j]
  <2>1. PICK j \in DOMAIN left : a.left[i] = left[j]
    BY <1>3, Zenon
  <2> QED BY <2>1, Zenon
<1>9. MergedWith(fs, blocks, left, fallback, a)
  BY <1>1, <1>3, <1>4, <1>6, <1>7, <1>8, Zenon DEF MergedWith
<1> QED BY <1>9, Zenon DEF a

LEMMA MergePageIs ==
    ASSUME NEW page, NEW blocks, NEW fallback, PageShape(page), Listed(blocks)
    PROVE  LET new == MergePage(page, blocks, fallback)
           IN  /\ PageShape(new) /\ new.number = page.number
               /\ AdaptedList(page.fragments, new.fragments, blocks)
               /\ AdaptedList(page.regions, new.regions, blocks)
               /\ \A j \in DOMAIN blocks :
                     (/\ HasMergeMetadata(blocks[j])
                      /\ \A i \in DOMAIN blocks : blocks[i].text = blocks[j].text => blocks[i] = blocks[j]
                      /\ \/ \E k \in DOMAIN page.fragments :
                               MatchRank(page.fragments[k], blocks[j], fallback) # NoMatch
                         \/ \E k \in DOMAIN page.regions :
                               MatchRank(page.regions[k], blocks[j], fallback) # NoMatch)
                     => \/ \E k \in DOMAIN page.fragments :
                              /\ page.fragments[k].text = blocks[j].text
                              /\ new.fragments[k] = WithV0Metadata(page.fragments[k], blocks[j])
                        \/ \E k \in DOMAIN page.regions :
                              /\ page.regions[k].text = blocks[j].text
                              /\ new.regions[k] = WithV0Metadata(page.regions[k], blocks[j])
<1> DEFINE new == MergePage(page, blocks, fallback)
           has == {i \in DOMAIN blocks : HasMergeMetadata(blocks[i])}
           marked == Picked(blocks, has)
           a == MergeList(page.fragments, marked, fallback)
           b == MergeList(page.regions, a.left, fallback)
<1>1. new = [page EXCEPT !.fragments = a.out, !.regions = b.out]
  BY Zenon DEF MergePage
<1>2. /\ Listed(marked)
      /\ \A n \in has : \E k \in DOMAIN marked : marked[k] = blocks[n]
      /\ \A k \in DOMAIN marked : \E n \in DOMAIN blocks : marked[k] = blocks[n]
  <2>1. has \in SUBSET DOMAIN blocks
    OBVIOUS
  <2> HIDE DEF has
  <2> QED BY <2>1, PickedIs
<1>3. \A i \in DOMAIN blocks : HasMergeMetadata(blocks[i]) => i \in has
  BY Zenon
<1> HIDE DEF new, has, marked, a, b
<1>4. FragmentsShaped(page.fragments) /\ FragmentsShaped(page.regions)
  BY DEF PageShape
<1>5. /\ AdaptedList(page.fragments, a.out, blocks) /\ FragmentsShaped(a.out)
      /\ Listed(a.left)
      /\ \A i \in DOMAIN a.left : \E j \in DOMAIN blocks : a.left[i] = blocks[j]
      /\ \A j \in DOMAIN marked :
            (\A i \in DOMAIN marked : marked[i].text = marked[j].text => marked[i] = marked[j])
            => \/ /\ \E i \in DOMAIN a.left : a.left[i] = marked[j]
                  /\ \A k \in DOMAIN page.fragments :
                        MatchRank(page.fragments[k], marked[j], fallback) = NoMatch
               \/ \E k \in DOMAIN page.fragments :
                     /\ page.fragments[k].text = marked[j].text
                     /\ a.out[k] = WithV0Metadata(page.fragments[k], marked[j])
  <2>1. MergedWith(page.fragments, blocks, marked, fallback, MergeList(page.fragments, marked, fallback))
    BY <1>2, <1>4, MergedList, Zenon
  <2>2. MergedWith(page.fragments, blocks, marked, fallback, a)
    BY <2>1, Zenon DEF a
  <2> QED BY <2>2, Zenon DEF MergedWith
<1>6. /\ AdaptedList(page.regions, b.out, blocks) /\ FragmentsShaped(b.out)
      /\ \A j \in DOMAIN a.left :
            (\A i \in DOMAIN a.left : a.left[i].text = a.left[j].text => a.left[i] = a.left[j])
            => \/ \A k \in DOMAIN page.regions :
                        MatchRank(page.regions[k], a.left[j], fallback) = NoMatch
               \/ \E k \in DOMAIN page.regions :
                     /\ page.regions[k].text = a.left[j].text
                     /\ b.out[k] = WithV0Metadata(page.regions[k], a.left[j])
  <2>1. MergedWith(page.regions, blocks, a.left, fallback, MergeList(page.regions, a.left, fallback))
    BY <1>4, <1>5, MergedList, Zenon
  <2>2. MergedWith(page.regions, blocks, a.left, fallback, b)
    BY <2>1, Zenon DEF b
  <2> QED BY <2>2, Zenon DEF MergedWith
<1>7. /\ new.fragments = a.out /\ new.regions = b.out /\ new.number = page.number
      /\ new = [number |-> new.number, sized |-> new.sized, unit |-> new.unit,
                fragments |-> new.fragments, regions |-> new.regions]
  BY <1>1 DEF PageShape
<1>8. PageShape(new)
  BY <1>5, <1>6, <1>7, Zenon DEF PageShape
<1>9. ASSUME NEW j \in DOMAIN blocks, HasMergeMetadata(blocks[j]),
             \A i \in DOMAIN blocks : blocks[i].text = blocks[j].text => blocks[i] = blocks[j],
             \/ \E k \in DOMAIN page.fragments :
                   MatchRank(page.fragments[k], blocks[j], fallback) # NoMatch
             \/ \E k \in DOMAIN page.regions :
                   MatchRank(page.regions[k], blocks[j], fallback) # NoMatch
      PROVE  \/ \E k \in DOMAIN page.fragments :
                   /\ page.fragments[k].text = blocks[j].text
                   /\ new.fragments[k] = WithV0Metadata(page.fragments[k], blocks[j])
             \/ \E k \in DOMAIN page.regions :
                   /\ page.regions[k].text = blocks[j].text
                   /\ new.regions[k] = WithV0Metadata(page.regions[k], blocks[j])
  <2>1. PICK m \in DOMAIN marked : marked[m] = blocks[j]
    BY <1>2, <1>3, <1>9, Zenon
  <2>2. ASSUME NEW i \in DOMAIN marked, marked[i].text = marked[m].text
        PROVE  marked[i] = marked[m]
    <3>1. PICK n \in DOMAIN blocks : marked[i] = blocks[n]
      BY <1>2, Zenon
    <3> QED BY <1>9, <2>1, <2>2, <3>1, Zenon
  <2>3. \/ /\ \E i \in DOMAIN a.left : a.left[i] = blocks[j]
           /\ \A k \in DOMAIN page.fragments :
                 MatchRank(page.fragments[k], blocks[j], fallback) = NoMatch
        \/ \E k \in DOMAIN page.fragments :
              /\ page.fragments[k].text = blocks[j].text
              /\ a.out[k] = WithV0Metadata(page.fragments[k], blocks[j])
    BY <1>5, <2>1, <2>2, Zenon
  <2>4. CASE \E k \in DOMAIN page.fragments :
              /\ page.fragments[k].text = blocks[j].text
              /\ a.out[k] = WithV0Metadata(page.fragments[k], blocks[j])
    BY <1>7, <2>4
  <2>5. ASSUME NEW i \in DOMAIN a.left, a.left[i] = blocks[j],
               \A k \in DOMAIN page.fragments :
                  MatchRank(page.fragments[k], blocks[j], fallback) = NoMatch
        PROVE  \E k \in DOMAIN page.regions :
                   /\ page.regions[k].text = blocks[j].text
                   /\ new.regions[k] = WithV0Metadata(page.regions[k], blocks[j])
    <3>1. ASSUME NEW n \in DOMAIN a.left, a.left[n].text = a.left[i].text
          PROVE  a.left[n] = a.left[i]
      <4>1. PICK q \in DOMAIN blocks : a.left[n] = blocks[q]
        BY <1>5, Zenon
      <4> QED BY <1>9, <2>5, <3>1, <4>1, Zenon
    <3>2. \/ \A k \in DOMAIN page.regions :
                        MatchRank(page.regions[k], blocks[j], fallback) = NoMatch
          \/ \E k \in DOMAIN page.regions :
                     /\ page.regions[k].text = blocks[j].text
                     /\ b.out[k] = WithV0Metadata(page.regions[k], blocks[j])
      BY <1>6, <2>5, <3>1, Zenon
    <3> QED BY <1>7, <1>9, <2>5, <3>2
  <2> QED BY <2>3, <2>4, <2>5, Zenon
<1> QED BY <1>5, <1>6, <1>7, <1>8, <1>9 DEF new

-----------------------------------------------------------------------------
(* The pages of the text parser, through both adaptations.                 *)
ExtractorOf(data) == IF data.extractor = None THEN "unknown" ELSE data.extractor

LEMMA AdaptPageIs ==
    ASSUME NEW data, NEW p, PageShape(data.pages[p]), FragmentsShaped(data.blocks)
    PROVE  LET page == data.pages[p]
               blocks == BlocksOfPage(data, p)
           IN  /\ page.fragments # <<>> \/ page.regions # <<>>
                  => AdaptPage(data, p) = MergePage(page, blocks, ExtractorOf(data))
               /\ page.fragments = <<>> /\ page.regions = <<>> =>
                     /\ PageShape(AdaptPage(data, p))
                     /\ AdaptPage(data, p).number = page.number
                     /\ AdaptPage(data, p).fragments = blocks
                     /\ AdaptPage(data, p).regions = <<>>
<1> DEFINE page == data.pages[p]
           blocks == BlocksOfPage(data, p)
           other == IF blocks # <<>> THEN [page EXCEPT !.fragments = blocks] ELSE page
<1>1. AdaptPage(data, p) = IF page.fragments \o page.regions # <<>>
                           THEN MergePage(page, blocks, ExtractorOf(data)) ELSE other
  BY Zenon DEF AdaptPage, ExtractorOf
<1>2. FragmentsShaped(blocks)
  BY BlocksOfPageIs, Zenon
<1> HIDE DEF page, blocks
<1>3. Listed(page.fragments) /\ Listed(page.regions)
  BY Zenon DEF PageShape, FragmentsShaped, page
<1>4. page.fragments \o page.regions = <<>> <=> page.fragments = <<>> /\ page.regions = <<>>
  <2> DEFINE a == page.fragments
             b == page.regions
  <2>1. /\ Listed(a) /\ Listed(b) /\ Listed(a \o b) /\ Len(a \o b) = Len(a) + Len(b)
    BY <1>3, JoinedLists
  <2> HIDE DEF a, b
  <2>2. Len(a) \in Nat /\ Len(b) \in Nat
    BY <2>1 DEF Listed
  <2>3. ASSUME NEW s, Listed(s) PROVE s = <<>> <=> Len(s) = 0
    BY <2>3 DEF Listed
  <2>4. a \o b = <<>> <=> a = <<>> /\ b = <<>>
    BY <2>1, <2>2, <2>3
  <2> QED BY <2>4 DEF a, b
<1>5. PageShape(page)
  BY DEF page
<1>6. ASSUME page.fragments = <<>>, page.regions = <<>>
      PROVE  /\ PageShape(other) /\ other.number = page.number
             /\ other.fragments = blocks /\ other.regions = <<>>
  <2>1. CASE blocks = <<>>
    BY <1>5, <1>6, <2>1, Zenon
  <2>2. CASE blocks # <<>>
    <3>1. other = [number |-> page.number, sized |-> page.sized, unit |-> page.unit,
                   fragments |-> blocks, regions |-> <<>>]
      BY <1>5, <1>6, <2>2 DEF PageShape
    <3> HIDE DEF other
    <3>2. FragmentsShaped(<<>>)
      BY <1>5, <1>6, Zenon DEF PageShape
    <3> QED BY <1>2, <3>1, <3>2 DEF PageShape
  <2> QED BY <2>1, <2>2
<1> HIDE DEF other
<1>7. page.fragments = <<>> /\ page.regions = <<>> => AdaptPage(data, p) = other
  BY <1>1, <1>4, Zenon
<1>8. page.fragments # <<>> \/ page.regions # <<>>
                  => AdaptPage(data, p) = MergePage(page, blocks, ExtractorOf(data))
  BY <1>1, <1>4, Zenon
<1>9. page.fragments = <<>> /\ page.regions = <<>> =>
         /\ PageShape(AdaptPage(data, p)) /\ AdaptPage(data, p).number = page.number
         /\ AdaptPage(data, p).fragments = blocks /\ AdaptPage(data, p).regions = <<>>
  BY <1>6, <1>7
<1> QED BY <1>8, <1>9, Zenon DEF page, blocks

LEMMA AdaptedPages ==
    ASSUME NEW data, data.pages # <<>>, data.blocks # <<>>, "pages" \in DOMAIN data
    PROVE  AdaptV0Blocks(data).pages = [i \in DOMAIN data.pages |-> AdaptPage(data, i)]
<1> DEFINE pages == [i \in DOMAIN data.pages |-> AdaptPage(data, i)]
<1>1. AdaptV0Blocks(data) = [data EXCEPT !.pages = pages]
  BY Zenon DEF AdaptV0Blocks
<1> HIDE DEF pages
<1>2. [data EXCEPT !.pages = pages].pages = pages
  OBVIOUS
<1> QED BY <1>1, <1>2, Zenon DEF pages

(* Blocks as the text parser makes them: no rows, no doubt but the mark.    *)
TextBlock(b) ==
    /\ FragmentShape(b)
    /\ ~b.low /\ ~b.missing /\ b.rows = None /\ b.conf # NoNumber

TextBlocks(bs) == Listed(bs) /\ \A j \in DOMAIN bs : TextBlock(bs[j])

LEMMA TextConverted ==
    ASSUME NEW b, NEW pages, TextBlock(b)
    PROVE  TextBlock(V0BlockFragment(b, pages))
<1> DEFINE f == V0BlockFragment(b, pages)
<1>1. /\ FragmentShape(f) /\ f.low = b.low /\ f.rows = b.rows /\ f.conf = b.conf
      /\ f.missing = (b.conf = NoNumber)
  BY BlockConverted, Zenon DEF TextBlock
<1> HIDE DEF f
<1>2. TextBlock(f)
  BY <1>1, Zenon DEF TextBlock
<1> QED BY <1>2 DEF f

(* A page all of whose fragments name it; a fragment with rows has their    *)
(* text.                                                                    *)
OwnPage(page) ==
    /\ PageShape(page) /\ page.regions = <<>> /\ page.fragments # <<>>
    /\ page.number # NoNumber
    /\ \A k \in DOMAIN page.fragments :
          LET f == page.fragments[k]
          IN  /\ f.page = page.number /\ f.kind # None
              /\ f.rows # None => f.rows = f.text

OwnPages(pages) ==
    /\ Listed(pages) /\ \A p \in DOMAIN pages : OwnPage(pages[p])
    /\ \A p, q \in DOMAIN pages : pages[p].number = pages[q].number => p = q

\* What an adaptation leaves of a fragment.
Preserved(f, g) ==
    /\ g.kind = f.kind /\ g.text = f.text /\ g.page = f.page /\ g.rows = f.rows
    /\ f.review => g.review
    /\ f.conf # NoNumber => g.conf = f.conf

LEMMA TextMetadata ==
    ASSUME NEW f, NEW b, FragmentShape(f), f.kind # None, TextBlock(b)
    PROVE  Preserved(f, WithV0Metadata(f, b))
<1> DEFINE g == WithV0Metadata(f, b)
<1>1. /\ g.text = f.text /\ g.page = f.page
      /\ f.kind # None => g.kind = f.kind
      /\ g.review = (f.review \/ b.review)
      /\ g.rows = IF f.rows = None THEN b.rows ELSE f.rows
      /\ ~b.low /\ f.conf # NoNumber /\ ~b.missing => g.conf = f.conf
  BY MetadataTaken
<1> HIDE DEF g
<1>2. Preserved(f, g)
  BY <1>1 DEF Preserved, TextBlock
<1> QED BY <1>2 DEF g

PagesPreserved(pages, new) ==
    /\ DOMAIN new = DOMAIN pages
    /\ \A p \in DOMAIN pages :
          /\ new[p].number = pages[p].number
          /\ DOMAIN new[p].fragments = DOMAIN pages[p].fragments
          /\ \A k \in DOMAIN pages[p].fragments :
                Preserved(pages[p].fragments[k], new[p].fragments[k])

LEMMA EmptyIfNoDomain ==
    ASSUME NEW s, Listed(s), DOMAIN s = {}
    PROVE  s = <<>>
  BY DEF Listed

LEMMA TextBlocksOfPage ==
    ASSUME NEW data, NEW p, TextBlocks(data.blocks)
    PROVE  /\ FragmentsShaped(data.blocks)
           /\ FragmentsShaped(BlocksOfPage(data, p))
           /\ \A k \in DOMAIN BlocksOfPage(data, p) : TextBlock(BlocksOfPage(data, p)[k])
<1>1. FragmentsShaped(data.blocks)
  BY Zenon DEF TextBlocks, TextBlock, FragmentsShaped
<1> DEFINE blocks == BlocksOfPage(data, p)
<1>2. /\ FragmentsShaped(blocks)
      /\ \A k \in DOMAIN blocks : \E i \in DOMAIN data.blocks :
            blocks[k] = V0BlockFragment(data.blocks[i], data.pages)
  BY <1>1, BlocksOfPageIs
<1> HIDE DEF blocks
<1>3. ASSUME NEW k \in DOMAIN blocks PROVE TextBlock(blocks[k])
  <2>1. PICK i \in DOMAIN data.blocks : blocks[k] = V0BlockFragment(data.blocks[i], data.pages)
    BY <1>2, Zenon
  <2>2. TextBlock(V0BlockFragment(data.blocks[i], data.pages))
    BY TextConverted, Zenon DEF TextBlocks
  <2> QED BY <2>1, <2>2
<1> QED BY <1>1, <1>2, <1>3, Zenon DEF blocks

LEMMA PagePreserved ==
    ASSUME NEW data, NEW p, OwnPage(data.pages[p]), TextBlocks(data.blocks)
    PROVE  LET page == data.pages[p]
               new == AdaptPage(data, p)
           IN  /\ OwnPage(new) /\ new.number = page.number
               /\ DOMAIN new.fragments = DOMAIN page.fragments
               /\ \A k \in DOMAIN page.fragments :
                     Preserved(page.fragments[k], new.fragments[k])
<1> DEFINE page == data.pages[p]
           new == AdaptPage(data, p)
           blocks == BlocksOfPage(data, p)
           fallback == ExtractorOf(data)
<1>1. /\ FragmentsShaped(data.blocks) /\ FragmentsShaped(blocks)
      /\ \A k \in DOMAIN blocks : TextBlock(blocks[k])
  BY TextBlocksOfPage, Zenon
<1>2. new = MergePage(page, blocks, fallback)
  BY <1>1, AdaptPageIs, Zenon DEF OwnPage
<1> HIDE DEF new, page, blocks, fallback
<1>3. OwnPage(page)
  BY DEF page
<1>4. PageShape(page) /\ FragmentsShaped(page.fragments) /\ Listed(blocks)
      /\ page.regions = <<>>
  BY <1>1, <1>3, Zenon DEF OwnPage, PageShape, FragmentsShaped
<1>5. /\ PageShape(new) /\ new.number = page.number
      /\ AdaptedList(page.fragments, new.fragments, blocks)
      /\ AdaptedList(page.regions, new.regions, blocks)
  <2> DEFINE m == MergePage(page, blocks, fallback)
  <2>1. /\ PageShape(m) /\ m.number = page.number
        /\ AdaptedList(page.fragments, m.fragments, blocks)
        /\ AdaptedList(page.regions, m.regions, blocks)
    BY <1>4, MergePageIs, Zenon
  <2> QED BY <1>2, <2>1, Zenon
<1>6. new.regions = <<>>
  <2>1. Listed(new.regions) /\ DOMAIN new.regions = DOMAIN page.regions
    BY <1>5, Zenon DEF AdaptedList
  <2>2. DOMAIN new.regions = {}
    BY <1>4, <2>1
  <2> QED BY <2>1, <2>2, EmptyIfNoDomain, Zenon
<1>7. Listed(new.fragments) /\ DOMAIN new.fragments = DOMAIN page.fragments
  BY <1>5, Zenon DEF AdaptedList
<1>8. ASSUME NEW k \in DOMAIN page.fragments
      PROVE  Preserved(page.fragments[k], new.fragments[k])
  <2> DEFINE f == page.fragments[k]
             g == new.fragments[k]
  <2>1. Adapted(f, g, blocks)
    BY <1>5, Zenon DEF AdaptedList
  <2>2. FragmentShape(f) /\ f.kind # None
    BY <1>3, <1>4, Zenon DEF OwnPage, FragmentsShaped
  <2> HIDE DEF f, g
  <2>3. ASSUME g = f PROVE Preserved(f, g)
    BY <2>3 DEF Preserved
  <2>4. ASSUME NEW i \in DOMAIN blocks, g = WithV0Metadata(f, blocks[i])
        PROVE  Preserved(f, g)
    <3>1. Preserved(f, WithV0Metadata(f, blocks[i]))
      BY <1>1, <2>2, TextMetadata, Zenon
    <3> QED BY <2>4, <3>1, Zenon
  <2>5. Preserved(f, g)
    BY <2>1, <2>3, <2>4 DEF Adapted
  <2> QED BY <2>5 DEF f, g
<1>9. new.fragments # <<>>
  <2>1. DOMAIN page.fragments # {}
    BY <1>3, <1>4, EmptyIfNoDomain, Zenon DEF OwnPage, FragmentsShaped
  <2> QED BY <1>7, <2>1
<1>10. ASSUME NEW k \in DOMAIN new.fragments
       PROVE  LET f == new.fragments[k]
              IN  /\ f.page = new.number /\ f.kind # None
                  /\ f.rows # None => f.rows = f.text
  <2>1. Preserved(page.fragments[k], new.fragments[k])
    BY <1>7, <1>8
  <2>2. /\ page.fragments[k].page = page.number /\ page.fragments[k].kind # None
        /\ page.fragments[k].rows # None => page.fragments[k].rows = page.fragments[k].text
    BY <1>3, <1>7, Zenon DEF OwnPage
  <2> QED BY <1>5, <2>1, <2>2, Zenon DEF Preserved
<1>11. new.number # NoNumber
  BY <1>3, <1>5, Zenon DEF OwnPage
<1>12. OwnPage(new)
  BY <1>5, <1>6, <1>9, <1>10, <1>11, Zenon DEF OwnPage
<1> QED BY <1>5, <1>7, <1>8, <1>12, Zenon DEF new, page

LEMMA AdaptationPreserves ==
    ASSUME NEW data, "pages" \in DOMAIN data, OwnPages(data.pages), TextBlocks(data.blocks)
    PROVE  /\ OwnPages(AdaptV0Blocks(data).pages)
           /\ PagesPreserved(data.pages, AdaptV0Blocks(data).pages)
<1> DEFINE pages == data.pages
           new == AdaptV0Blocks(data).pages
<1>1. CASE data.pages = <<>> \/ data.blocks = <<>>
  <2>1. new = pages
    BY <1>1, Zenon DEF AdaptV0Blocks
  <2>2. PagesPreserved(pages, pages)
    BY Zenon DEF PagesPreserved, Preserved
  <2> HIDE DEF new
  <2>3. OwnPages(new) /\ PagesPreserved(pages, new)
    BY <2>1, <2>2
  <2> QED BY <2>3 DEF new
<1>2. CASE data.pages # <<>> /\ data.blocks # <<>>
  <2>1. new = [i \in DOMAIN data.pages |-> AdaptPage(data, i)]
    BY <1>2, AdaptedPages, Zenon
  <2> HIDE DEF new
  <2>2. DOMAIN new = DOMAIN pages /\ \A p \in DOMAIN pages : new[p] = AdaptPage(data, p)
    BY <2>1
  <2>3. ASSUME NEW p \in DOMAIN pages
        PROVE  /\ OwnPage(new[p]) /\ new[p].number = pages[p].number
               /\ DOMAIN new[p].fragments = DOMAIN pages[p].fragments
               /\ \A k \in DOMAIN pages[p].fragments :
                     Preserved(pages[p].fragments[k], new[p].fragments[k])
    <3>1. OwnPage(data.pages[p])
      BY DEF OwnPages
    <3> DEFINE a == AdaptPage(data, p)
    <3>2. /\ OwnPage(a) /\ a.number = data.pages[p].number
          /\ DOMAIN a.fragments = DOMAIN data.pages[p].fragments
          /\ \A k \in DOMAIN data.pages[p].fragments :
                     Preserved(data.pages[p].fragments[k], a.fragments[k])
      BY <3>1, PagePreserved, Zenon
    <3>3. new[p] = a
      BY <2>2
    <3> HIDE DEF a
    <3> QED BY <3>2, <3>3, Zenon
  <2>4. Listed(new)
    <3>1. Listed(pages) /\ new = [i \in DOMAIN pages |-> new[i]]
      BY <2>1 DEF OwnPages
    <3> QED BY <3>1, ChangeIsListed, Zenon
  <2>5. OwnPages(new)
    <3>1. ASSUME NEW p \in DOMAIN new, NEW q \in DOMAIN new, new[p].number = new[q].number
          PROVE  p = q
      BY <2>2, <2>3, <3>1, Zenon DEF OwnPages
    <3>2. \A p \in DOMAIN new : OwnPage(new[p])
      BY <2>2, <2>3, Zenon
    <3> QED BY <2>4, <3>1, <3>2, Zenon DEF OwnPages
  <2>6. PagesPreserved(pages, new)
    BY <2>2, <2>3, Zenon DEF PagesPreserved
  <2> QED BY <2>5, <2>6 DEF new
<1> QED BY <1>1, <1>2, Zenon

\* The block that stands for a page without a text layer.
Placeholder(f) ==
    f.kind = "paragraph" /\ f.text = EMPTY_PAGE_REVIEW_TEXT /\ f.review /\ f.conf = 0

\* A block of the text parser.
TextPdfBlock(p, kind, text, conf) ==
    [Fragment(kind, text, [at |-> text, unit |-> None, fits |-> TRUE], conf)
        EXCEPT !.page = p, !.review = kind = "table" \/ conf = 0,
               !.extractor = IF kind = "table" THEN "table-heuristic" ELSE "pymupdf"]

LEMMA TextPdfBlockIs ==
    ASSUME NEW p, NEW kind, NEW text, NEW conf, conf # NoNumber
    PROVE  /\ TextBlock(TextPdfBlock(p, kind, text, conf))
           /\ TextPdfBlock(p, kind, text, conf).page = p
           /\ TextPdfBlock(p, "paragraph", EMPTY_PAGE_REVIEW_TEXT, 0).page = p
           /\ Placeholder(TextPdfBlock(p, "paragraph", EMPTY_PAGE_REVIEW_TEXT, 0))
<1> DEFINE f(k, x, c) == TextPdfBlock(p, k, x, c)
<1>1. ASSUME NEW k, NEW x, NEW c
      PROVE  f(k, x, c) = [kind |-> k, keep |-> FALSE, text |-> x, page |-> p,
                           box |-> [at |-> x, unit |-> None, fits |-> TRUE], conf |-> c,
                           missing |-> FALSE, low |-> FALSE,
                           review |-> (k = "table" \/ c = 0), warnings |-> {},
                           extractor |-> IF k = "table" THEN "table-heuristic" ELSE "pymupdf",
                           engine |-> None, rows |-> None]
  <2> DEFINE box == [at |-> x, unit |-> None, fits |-> TRUE]
             review == (k = "table" \/ c = 0)
             extractor == IF k = "table" THEN "table-heuristic" ELSE "pymupdf"
             g == Fragment(k, x, box, c)
  <2>1. f(k, x, c) = [g EXCEPT !.page = p, !.review = review, !.extractor = extractor]
    BY Zenon DEF TextPdfBlock
  <2> HIDE DEF box, review, extractor, f
  <2>2. f(k, x, c) = [kind |-> k, keep |-> FALSE, text |-> x, page |-> p, box |-> box,
                      conf |-> c, missing |-> FALSE, low |-> FALSE, review |-> review,
                      warnings |-> {}, extractor |-> extractor, engine |-> None, rows |-> None]
    BY <2>1 DEF Fragment
  <2> QED BY <2>2, Zenon DEF box, review, extractor
<1> HIDE DEF f
<1>2. TextBlock(f(kind, text, conf)) /\ f(kind, text, conf).page = p
  BY <1>1 DEF TextBlock, FragmentShape
<1>3. Placeholder(f("paragraph", EMPTY_PAGE_REVIEW_TEXT, 0))
  BY <1>1 DEF Placeholder
<1>4. f("paragraph", EMPTY_PAGE_REVIEW_TEXT, 0).page = p
  BY <1>1
<1> QED BY <1>2, <1>3, <1>4 DEF f

\* The blocks of the p-th page of a text layer.
LayerBlocks(layer, p) ==
    IF layer[p] = <<>> THEN <<TextPdfBlock(p, "paragraph", EMPTY_PAGE_REVIEW_TEXT, 0)>>
    ELSE [i \in DOMAIN layer[p] |->
             TextPdfBlock(p, layer[p][i][1], layer[p][i][2],
                          IF layer[p][i][1] = "table" THEN 600 ELSE 900)]

LEMMA LayerBlocksAre ==
    ASSUME NEW layer, NEW p, Listed(layer[p])
    PROVE  LET bs == LayerBlocks(layer, p)
           IN  /\ Listed(bs) /\ 1 \in DOMAIN bs
               /\ \A i \in DOMAIN bs : TextBlock(bs[i]) /\ bs[i].page = p
               /\ layer[p] = <<>> => Placeholder(bs[1])
<1> DEFINE bs == LayerBlocks(layer, p)
           empty == TextPdfBlock(p, "paragraph", EMPTY_PAGE_REVIEW_TEXT, 0)
<1>1. CASE layer[p] = <<>>
  <2>1. bs = <<empty>>
    BY <1>1, Zenon DEF LayerBlocks
  <2>2. TextBlock(empty) /\ empty.page = p /\ Placeholder(empty)
    <3>1. 0 # NoNumber
      BY DEF NoNumber
    <3> QED BY <3>1, TextPdfBlockIs
  <2> HIDE DEF bs, empty
  <2>3. Listed(bs) /\ DOMAIN bs = {1} /\ bs[1] = empty
    BY <2>1 DEF Listed
  <2>4. /\ Listed(bs) /\ 1 \in DOMAIN bs
        /\ \A i \in DOMAIN bs : TextBlock(bs[i]) /\ bs[i].page = p
        /\ Placeholder(bs[1])
    BY <2>2, <2>3
  <2> QED BY <2>4 DEF bs
<1>2. CASE layer[p] # <<>>
  <2> DEFINE conf(i) == IF layer[p][i][1] = "table" THEN 600 ELSE 900
  <2>1. bs = [i \in DOMAIN layer[p] |->
                TextPdfBlock(p, layer[p][i][1], layer[p][i][2], conf(i))]
    BY <1>2, Zenon DEF LayerBlocks
  <2>2. \A i : conf(i) # NoNumber
    BY DEF NoNumber
  <2> HIDE DEF bs, conf
  <2>3. DOMAIN bs = DOMAIN layer[p] /\ bs = [i \in DOMAIN layer[p] |-> bs[i]]
    BY <2>1
  <2>4. Listed(bs)
    BY <2>3, ChangeIsListed, Zenon
  <2>5. \A i \in DOMAIN bs : TextBlock(bs[i]) /\ bs[i].page = p
    <3> SUFFICES ASSUME NEW i \in DOMAIN bs PROVE TextBlock(bs[i]) /\ bs[i].page = p
      OBVIOUS
    <3> DEFINE f == TextPdfBlock(p, layer[p][i][1], layer[p][i][2], conf(i))
    <3>1. bs[i] = f
      BY <2>1, <2>3
    <3>2. TextBlock(f) /\ f.page = p
      BY <2>2, TextPdfBlockIs
    <3> HIDE DEF f
    <3> QED BY <3>1, <3>2
  <2>6. 1 \in DOMAIN bs
    BY <1>2, <2>3, NonemptyHasFirst
  <2>7. /\ Listed(bs) /\ 1 \in DOMAIN bs
        /\ \A i \in DOMAIN bs : TextBlock(bs[i]) /\ bs[i].page = p
        /\ layer[p] = <<>> => Placeholder(bs[1])
    BY <1>2, <2>4, <2>5, <2>6
  <2> QED BY <2>7 DEF bs
<1> QED BY <1>1, <1>2

\* A text layer: a list of pages, each a list of lines.
LayerListed(layer) == Listed(layer) /\ \A p \in DOMAIN layer : Listed(layer[p])

LEMMA TextPdfIs ==
    ASSUME NEW layer, LayerListed(layer)
    PROVE  LET d == ParseTextPdf(layer)
           IN  /\ DOMAIN d = DOMAIN NoOutput /\ d.extractor = None
               /\ d.pages = [p \in DOMAIN layer |-> DefaultPage(p, <<>>)]
               /\ TextBlocks(d.blocks)
               /\ \A j \in DOMAIN d.blocks : d.blocks[j].page \in DOMAIN layer
               /\ \A p \in DOMAIN layer : \E j \in DOMAIN d.blocks :
                     /\ d.blocks[j].page = p
                     /\ layer[p] = <<>> => Placeholder(d.blocks[j])
<1> DEFINE pages == [p \in DOMAIN layer |-> DefaultPage(p, <<>>)]
           seqs == [p \in DOMAIN layer |-> LayerBlocks(layer, p)]
           bs == FlattenSeq(seqs)
           d == ParseTextPdf(layer)
<1>1. d = [NoOutput EXCEPT !.pages = pages, !.blocks = bs]
  BY Zenon DEF ParseTextPdf, LayerBlocks, TextPdfBlock
<1> HIDE DEF d
<1>2. /\ DOMAIN seqs = DOMAIN layer
      /\ \A p \in DOMAIN layer : seqs[p] = LayerBlocks(layer, p)
  OBVIOUS
<1>3. Listed(seqs)
  <2>1. Listed(layer) /\ seqs = [p \in DOMAIN layer |-> seqs[p]]
    BY Zenon DEF LayerListed
  <2> HIDE DEF seqs
  <2> QED BY <2>1, ChangeIsListed, Zenon
<1> HIDE DEF seqs
<1>4. ASSUME NEW p \in DOMAIN layer
      PROVE  /\ Listed(seqs[p]) /\ 1 \in DOMAIN seqs[p]
             /\ \A i \in DOMAIN seqs[p] : TextBlock(seqs[p][i]) /\ seqs[p][i].page = p
             /\ layer[p] = <<>> => Placeholder(seqs[p][1])
  <2>1. Listed(layer[p])
    BY Zenon DEF LayerListed
  <2> DEFINE b == LayerBlocks(layer, p)
  <2>2. /\ Listed(b) /\ 1 \in DOMAIN b
        /\ \A i \in DOMAIN b : TextBlock(b[i]) /\ b[i].page = p
        /\ layer[p] = <<>> => Placeholder(b[1])
    BY <2>1, LayerBlocksAre, Zenon
  <2> HIDE DEF b
  <2>3. seqs[p] = b
    BY <1>2 DEF b
  <2> QED BY <2>2, <2>3
<1>5. /\ Listed(bs)
      /\ \E start \in [DOMAIN seqs -> Nat] :
            /\ \A i \in DOMAIN seqs : \A k \in DOMAIN seqs[i] :
                  start[i] + k \in DOMAIN bs /\ bs[start[i] + k] = seqs[i][k]
            /\ \A n \in DOMAIN bs : \E i \in DOMAIN seqs : \E k \in DOMAIN seqs[i] : n = start[i] + k
  <2>1. \A p \in DOMAIN seqs : Listed(seqs[p])
    BY <1>2, <1>4
  <2> QED BY <1>3, <2>1, FlattenIs
<1> HIDE DEF bs
<1>6. PICK start \in [DOMAIN seqs -> Nat] :
            /\ \A i \in DOMAIN seqs : \A k \in DOMAIN seqs[i] :
                  start[i] + k \in DOMAIN bs /\ bs[start[i] + k] = seqs[i][k]
            /\ \A n \in DOMAIN bs : \E i \in DOMAIN seqs : \E k \in DOMAIN seqs[i] : n = start[i] + k
  BY <1>5, Zenon
<1>7. ASSUME NEW n \in DOMAIN bs PROVE TextBlock(bs[n]) /\ bs[n].page \in DOMAIN layer
  <2>1. PICK i \in DOMAIN layer : \E k \in DOMAIN seqs[i] : n = start[i] + k
    BY <1>2, <1>6
  <2>2. PICK k \in DOMAIN seqs[i] : n = start[i] + k
    BY <2>1
  <2>3. bs[n] = seqs[i][k]
    BY <1>2, <1>6, <2>2
  <2>4. TextBlock(seqs[i][k]) /\ seqs[i][k].page = i
    BY <1>4
  <2> QED BY <2>3, <2>4
<1>8. ASSUME NEW p \in DOMAIN layer
      PROVE  \E j \in DOMAIN bs : bs[j].page = p /\ (layer[p] = <<>> => Placeholder(bs[j]))
  <2>1. start[p] + 1 \in DOMAIN bs /\ bs[start[p] + 1] = seqs[p][1]
    BY <1>2, <1>4, <1>6
  <2>2. seqs[p][1].page = p /\ (layer[p] = <<>> => Placeholder(seqs[p][1]))
    BY <1>4
  <2> QED BY <2>1, <2>2
<1>9. TextBlocks(bs)
  BY <1>5, <1>7, Zenon DEF TextBlocks
<1> HIDE DEF pages
<1>10. DOMAIN d = DOMAIN NoOutput /\ d.extractor = None /\ d.pages = pages /\ d.blocks = bs
  BY <1>1 DEF NoOutput
<1> QED BY <1>7, <1>8, <1>9, <1>10 DEF d, pages

LEMMA PlaceholderConverted ==
    ASSUME NEW b, NEW pages, TextBlock(b)
    PROVE  LET f == V0BlockFragment(b, pages)
           IN  /\ TextBlock(f) /\ f.page = PageNumber(b.page, 0) /\ f.kind # None
               /\ Placeholder(b) => Placeholder(f)
<1> DEFINE f == V0BlockFragment(b, pages)
<1>1. /\ f.text = b.text /\ f.page = PageNumber(b.page, 0)
      /\ b.kind # None => f.kind = b.kind
      /\ f.kind # None /\ f.review = b.review /\ f.conf = b.conf
  BY BlockConverted, Zenon DEF TextBlock
<1>2. TextBlock(f)
  BY TextConverted, Zenon
<1> HIDE DEF f
<1>3. Placeholder(b) => Placeholder(f)
  BY <1>1 DEF Placeholder, None
<1> QED BY <1>1, <1>2, <1>3 DEF f

\* The pages of the text parser with the blocks in them.
TextPages(layer, pages) ==
    /\ OwnPages(pages)
    /\ DOMAIN pages = DOMAIN layer
    /\ \A p \in DOMAIN layer :
          /\ pages[p].number = p
          /\ layer[p] = <<>> => \E k \in DOMAIN pages[p].fragments :
                                   Placeholder(pages[p].fragments[k])

LEMMA TextPageIs ==
    ASSUME NEW layer, LayerListed(layer), NEW p \in DOMAIN layer
    PROVE  LET page == AdaptPage(ParseTextPdf(layer), p)
           IN  /\ OwnPage(page) /\ page.number = p
               /\ layer[p] = <<>> => \E k \in DOMAIN page.fragments : Placeholder(page.fragments[k])
<1> DEFINE d == ParseTextPdf(layer)
           page == AdaptPage(d, p)
           blocks == BlocksOfPage(d, p)
<1>1. /\ d.pages = [q \in DOMAIN layer |-> DefaultPage(q, <<>>)]
      /\ TextBlocks(d.blocks)
      /\ \A j \in DOMAIN d.blocks : d.blocks[j].page \in DOMAIN layer
      /\ \A q \in DOMAIN layer : \E j \in DOMAIN d.blocks :
            /\ d.blocks[j].page = q
            /\ layer[q] = <<>> => Placeholder(d.blocks[j])
  BY TextPdfIs, Zenon
<1> HIDE DEF d
<1>2. DOMAIN layer \subseteq Nat \ {0}
  BY DEF LayerListed, Listed
<1>3. /\ DOMAIN d.pages = DOMAIN layer
      /\ \A q \in DOMAIN layer : d.pages[q] = DefaultPage(q, <<>>) /\ d.pages[q].number = q
  BY <1>1 DEF DefaultPage
<1>4. \A q \in DOMAIN layer : PageNumber(q, q) = q /\ PageNumber(q, 0) = q /\ q # NoNumber
  BY <1>2 DEF PageNumber, NoNumber
<1>5. NumbersOf(d.pages) = DOMAIN layer
  <2>1. \A q \in DOMAIN d.pages : PageNumber(d.pages[q].number, q) = q
    BY <1>3, <1>4
  <2>2. NumbersOf(d.pages) = DOMAIN d.pages
    BY <2>1 DEF NumbersOf
  <2> QED BY <1>3, <2>2
<1>6. PageShape(d.pages[p]) /\ d.pages[p].fragments = <<>> /\ d.pages[p].regions = <<>>
  <2>1. Listed(<<>>)
    BY DEF Listed
  <2>2. FragmentsShaped(<<>>)
    BY <2>1 DEF FragmentsShaped
  <2>3. d.pages[p] = [number |-> p, sized |-> TRUE, unit |-> "pt",
                      fragments |-> <<>>, regions |-> <<>>]
    BY <1>3 DEF DefaultPage
  <2> DEFINE q == d.pages[p]
  <2>4. q.fragments = <<>> /\ q.regions = <<>>
        /\ q = [number |-> q.number, sized |-> q.sized, unit |-> q.unit,
                fragments |-> q.fragments, regions |-> q.regions]
    BY <2>3
  <2> HIDE DEF q
  <2>5. PageShape(q)
    BY <2>2, <2>4 DEF PageShape
  <2> QED BY <2>4, <2>5 DEF q
<1>7. /\ FragmentsShaped(d.blocks) /\ FragmentsShaped(blocks)
      /\ \A k \in DOMAIN blocks : TextBlock(blocks[k])
  BY <1>1, TextBlocksOfPage, Zenon
<1>8. /\ PageShape(page) /\ page.number = d.pages[p].number
      /\ page.fragments = blocks /\ page.regions = <<>>
  BY <1>6, <1>7, AdaptPageIs, Zenon
<1> DEFINE fragment(i) == V0BlockFragment(d.blocks[i], d.pages)
<1>9. /\ \A k \in DOMAIN blocks : \E i \in DOMAIN d.blocks : blocks[k] = fragment(i)
      /\ \A k \in DOMAIN blocks : blocks[k].page = p \/ blocks[k].page \notin DOMAIN layer
      /\ \A i \in DOMAIN d.blocks :
            fragment(i).page = p => \E k \in DOMAIN blocks : blocks[k] = fragment(i)
  <2>1. PageNumber(d.pages[p].number, p) = p
    BY <1>3, <1>4
  <2> QED BY <1>5, <1>7, <2>1, BlocksOfPageIs
<1>10. ASSUME NEW i \in DOMAIN d.blocks
       PROVE  /\ TextBlock(fragment(i)) /\ fragment(i).page = d.blocks[i].page
              /\ fragment(i).kind # None
              /\ Placeholder(d.blocks[i]) => Placeholder(fragment(i))
  <2>1. TextBlock(d.blocks[i]) /\ d.blocks[i].page \in DOMAIN layer
    BY <1>1 DEF TextBlocks
  <2>2. PageNumber(d.blocks[i].page, 0) = d.blocks[i].page
    BY <1>4, <2>1
  <2> QED BY <2>1, <2>2, PlaceholderConverted
<1> HIDE DEF fragment, page, blocks
<1>11. ASSUME NEW k \in DOMAIN blocks
       PROVE  blocks[k].page = p /\ blocks[k].kind # None /\ blocks[k].rows = None
  <2>1. PICK i \in DOMAIN d.blocks : blocks[k] = fragment(i)
    BY <1>9
  <2>2. blocks[k].page \in DOMAIN layer
    BY <1>1, <1>10, <2>1
  <2> QED BY <1>7, <1>9, <1>10, <2>1, <2>2 DEF TextBlock
<1>12. PICK j \in DOMAIN d.blocks :
          d.blocks[j].page = p /\ (layer[p] = <<>> => Placeholder(d.blocks[j]))
  BY <1>1
<1>13. PICK n \in DOMAIN blocks : blocks[n] = fragment(j)
  BY <1>9, <1>10, <1>12
<1>14. layer[p] = <<>> => Placeholder(page.fragments[n])
  BY <1>8, <1>10, <1>12, <1>13
<1>15. page.fragments # <<>>
  BY <1>8, <1>13
<1>16. OwnPage(page) /\ page.number = p
  BY <1>3, <1>4, <1>8, <1>11, <1>15 DEF OwnPage
<1> QED BY <1>8, <1>13, <1>14, <1>16 DEF page, d

LEMMA TextPagesAre ==
    ASSUME NEW layer, LayerListed(layer)
    PROVE  LET t == AdaptV0Blocks(ParseTextPdf(layer))
           IN  /\ DOMAIN t = DOMAIN NoOutput
               /\ TextBlocks(t.blocks)
               /\ TextPages(layer, t.pages)
<1> DEFINE d == ParseTextPdf(layer)
           t == AdaptV0Blocks(d)
<1>1. /\ DOMAIN d = DOMAIN NoOutput
      /\ d.pages = [p \in DOMAIN layer |-> DefaultPage(p, <<>>)]
      /\ TextBlocks(d.blocks)
      /\ \A p \in DOMAIN layer : \E j \in DOMAIN d.blocks :
            /\ d.blocks[j].page = p
            /\ layer[p] = <<>> => Placeholder(d.blocks[j])
  BY TextPdfIs, Zenon
<1>2. \A p \in DOMAIN layer : /\ OwnPage(AdaptPage(d, p)) /\ AdaptPage(d, p).number = p
                              /\ layer[p] = <<>> => \E k \in DOMAIN AdaptPage(d, p).fragments :
                                       Placeholder(AdaptPage(d, p).fragments[k])
  BY TextPageIs, Zenon
<1> HIDE DEF d
<1>3. "pages" \in DOMAIN d /\ "blocks" \in DOMAIN d
  BY <1>1 DEF NoOutput
<1>4. CASE layer = <<>>
  <2>1. d.pages = <<>> /\ DOMAIN layer = {}
    BY <1>1, <1>4
  <2>2. t = d
    BY <2>1, Zenon DEF AdaptV0Blocks
  <2>3. TextPages(layer, t.pages)
    <3>1. Listed(d.pages) /\ DOMAIN d.pages = {}
      BY <2>1 DEF Listed
    <3> HIDE DEF t
    <3> QED BY <2>1, <2>2, <3>1 DEF TextPages, OwnPages
  <2>4. DOMAIN t = DOMAIN NoOutput /\ TextBlocks(t.blocks)
    BY <1>1, <2>2
  <2> QED BY <2>3, <2>4, Zenon DEF d
<1>5. CASE layer # <<>>
  <2>1. 1 \in DOMAIN layer
    BY <1>5, NonemptyHasFirst DEF LayerListed
  <2>2. d.pages # <<>> /\ d.blocks # <<>>
    BY <1>1, <2>1
  <2>3. t.pages = [p \in DOMAIN layer |-> AdaptPage(d, p)]
    <3>1. DOMAIN d.pages = DOMAIN layer
      BY <1>1
    <3>2. t.pages = [p \in DOMAIN d.pages |-> AdaptPage(d, p)]
      BY <1>3, <2>2, AdaptedPages, Zenon
    <3> QED BY <3>1, <3>2
  <2>4. DOMAIN t = DOMAIN NoOutput /\ t.blocks = d.blocks
    <3> DEFINE pages == [i \in DOMAIN d.pages |-> AdaptPage(d, i)]
    <3>1. t = [d EXCEPT !.pages = pages]
      BY <2>2, Zenon DEF AdaptV0Blocks
    <3> HIDE DEF pages, t
    <3> QED BY <1>1, <1>3, <3>1
  <2> DEFINE pages == t.pages
  <2>5. /\ DOMAIN pages = DOMAIN layer
        /\ \A p \in DOMAIN layer : pages[p] = AdaptPage(d, p)
    BY <2>3
  <2>6. Listed(pages)
    <3>1. pages = [p \in DOMAIN layer |-> pages[p]]
      BY <2>3
    <3> HIDE DEF pages
    <3> QED BY <3>1, ChangeIsListed, Zenon DEF LayerListed
  <2> HIDE DEF pages
  <2>7. \A p \in DOMAIN layer : OwnPage(pages[p]) /\ pages[p].number = p
    BY <1>2, <2>5
  <2>8. \A p \in DOMAIN layer : layer[p] = <<>> => \E k \in DOMAIN pages[p].fragments :
                                       Placeholder(pages[p].fragments[k])
    BY <1>2, <2>5
  <2>9. OwnPages(pages)
    BY <2>5, <2>6, <2>7 DEF OwnPages
  <2>10. TextPages(layer, pages)
    BY <2>5, <2>7, <2>8, <2>9, Zenon DEF TextPages
  <2>11. TextBlocks(t.blocks) /\ TextPages(layer, t.pages)
    BY <1>1, <2>4, <2>10 DEF pages
  <2> QED BY <2>4, <2>11, Zenon DEF d
<1> QED BY <1>4, <1>5 DEF d

-----------------------------------------------------------------------------
(* Placing a table.                                                        *)
LEMMA TableMerged ==
    ASSUME NEW f, NEW t, FragmentShape(f)
    PROVE  LET g == MergeTable(f, t)
           IN  /\ FragmentShape(g) /\ g.kind = f.kind /\ g.page = f.page
               /\ g.text = t.rows /\ g.rows = t.rows
<1> DEFINE box == TableBox(t, {"all"})
           conf == IF box # NoBox THEN 900 ELSE 0
           review == box = NoBox
           low == IF box # NoBox THEN FALSE ELSE f.low
           g == MergeTable(f, t)
<1>1. g = [f EXCEPT !.text = t.rows, !.rows = t.rows, !.extractor = t.candidate,
                    !.conf = conf, !.box = box, !.review = review, !.missing = review,
                    !.low = low]
  BY Zenon DEF MergeTable
<1> HIDE DEF box, conf, review, low, g
<1>2. g = [kind |-> f.kind, keep |-> f.keep, text |-> t.rows, page |-> f.page, box |-> box,
           conf |-> conf, missing |-> review, low |-> low, review |-> review,
           warnings |-> f.warnings, extractor |-> t.candidate, engine |-> f.engine,
           rows |-> t.rows]
  BY <1>1 DEF FragmentShape
<1>3. FragmentShape(g)
  BY <1>2 DEF FragmentShape
<1>4. g.kind = f.kind /\ g.page = f.page /\ g.text = t.rows /\ g.rows = t.rows
  BY <1>2
<1> QED BY <1>3, <1>4 DEF g

(* The key of a fragment on its own page.                                  *)
OwnFragment(f, number) ==
    /\ FragmentShape(f) /\ f.page = number /\ f.kind # None
    /\ f.rows # None => f.rows = f.text

KeyOn(number, f) == IF f.kind # "table" \/ f.text = None THEN NoKey ELSE <<number, f.text>>

LEMMA OwnKey ==
    ASSUME NEW f, NEW page, NEW n, OwnFragment(f, n), n # NoNumber
    PROVE  FragmentKey(f, page) = KeyOn(n, f)
  BY DEF FragmentKey, OwnFragment, PageNumber, KeyOn

LEMMA OwnPageFragments ==
    ASSUME NEW page, OwnPage(page)
    PROVE  /\ Listed(page.fragments) /\ page.number # NoNumber
           /\ \A k \in DOMAIN page.fragments : OwnFragment(page.fragments[k], page.number)
<1>1. FragmentsShaped(page.fragments) /\ page.number # NoNumber
  BY Zenon DEF OwnPage, PageShape
<1> QED BY <1>1, Zenon DEF OwnPage, OwnFragment, FragmentsShaped

LEMMA FragmentsMakeOwnPage ==
    ASSUME NEW page, NEW fs, OwnPage(page), Listed(fs), fs # <<>>,
           \A k \in DOMAIN fs : OwnFragment(fs[k], page.number)
    PROVE  LET new == [page EXCEPT !.fragments = fs]
           IN  /\ OwnPage(new) /\ new.number = page.number /\ new.fragments = fs
               /\ new.regions = <<>>
<1> DEFINE new == [page EXCEPT !.fragments = fs]
<1>1. new = [number |-> page.number, sized |-> page.sized, unit |-> page.unit,
             fragments |-> fs, regions |-> page.regions]
  BY DEF OwnPage, PageShape
<1> HIDE DEF new
<1>2. /\ new = [number |-> new.number, sized |-> new.sized, unit |-> new.unit,
                fragments |-> new.fragments, regions |-> new.regions]
      /\ new.number = page.number /\ new.fragments = fs /\ new.regions = page.regions
  BY <1>1
<1>3. FragmentsShaped(fs)
  BY Zenon DEF FragmentsShaped, OwnFragment
<1>4. PageShape(new)
  BY <1>2, <1>3, Zenon DEF PageShape, OwnPage
<1>5. OwnPage(new)
  BY <1>2, <1>4, Zenon DEF OwnPage, OwnFragment
<1>6. new.regions = <<>>
  BY <1>2, Zenon DEF OwnPage
<1> QED BY <1>2, <1>5, <1>6 DEF new

(* The places of such pages are among the fragments.                       *)
SpotOf(p, k) == <<p, "fragments", k>>

LEMMA OwnPlaces ==
    ASSUME NEW pages, \A p \in DOMAIN pages : pages[p].regions = <<>>
    PROVE  /\ \A p \in DOMAIN pages : \A k \in DOMAIN pages[p].fragments :
                 SpotOf(p, k) \in Places(pages)
           /\ \A pl \in Places(pages) : \E p \in DOMAIN pages :
                 \E k \in DOMAIN pages[p].fragments : pl = SpotOf(p, k)
<1>1. ASSUME NEW p \in DOMAIN pages, NEW k \in DOMAIN pages[p].fragments
      PROVE  SpotOf(p, k) \in Places(pages)
  <2>1. SpotOf(p, k) \in {<<p, "fragments", j>> : j \in DOMAIN pages[p]["fragments"]}
    BY DEF SpotOf
  <2> DEFINE on(q, c) == {<<q, c, j>> : j \in DOMAIN pages[q][c]}
             all == {on(q, c) : q \in DOMAIN pages, c \in {"fragments", "regions"}}
  <2>2. Places(pages) = UNION all
    BY DEF Places
  <2>3. on(p, "fragments") \in all
    <3> HIDE DEF on
    <3> QED OBVIOUS
  <2>4. SpotOf(p, k) \in on(p, "fragments")
    BY <2>1
  <2> HIDE DEF on, all
  <2> QED BY <2>2, <2>3, <2>4
<1>2. ASSUME NEW pl \in Places(pages)
      PROVE  \E p \in DOMAIN pages : \E k \in DOMAIN pages[p].fragments : pl = SpotOf(p, k)
  <2>1. PICK p \in DOMAIN pages : \E c \in {"fragments", "regions"} :
           pl \in {<<p, c, k>> : k \in DOMAIN pages[p][c]}
    BY DEF Places
  <2>2. PICK c \in {"fragments", "regions"} :
           pl \in {<<p, c, k>> : k \in DOMAIN pages[p][c]}
    BY <2>1
  <2>3. PICK k \in DOMAIN pages[p][c] : pl = <<p, c, k>>
    BY <2>2
  <2>4. pages[p]["regions"] = <<>>
    OBVIOUS
  <2>5. c = "fragments"
    BY <2>3, <2>4
  <2> QED BY <2>3, <2>5 DEF SpotOf
<1> QED BY <1>1, <1>2

LEMMA AtPlace ==
    ASSUME NEW pages, NEW p, NEW k
    PROVE  /\ At(pages, SpotOf(p, k)) = pages[p].fragments[k]
           /\ KeyAt(pages, SpotOf(p, k)) = FragmentKey(pages[p].fragments[k], pages[p])
           /\ SpotOf(p, k)[1] = p /\ SpotOf(p, k)[2] = "fragments" /\ SpotOf(p, k)[3] = k
  BY DEF At, KeyAt, SpotOf

LEMMA SamePlace ==
    ASSUME NEW p, NEW k, NEW q, NEW j, SpotOf(p, k) = SpotOf(q, j)
    PROVE  p = q /\ k = j
  BY DEF SpotOf

(* The first place of a nonempty set.                                      *)
LEMMA FirstPlace ==
    ASSUME NEW pages, OwnPages(pages), NEW hits \in SUBSET Places(pages), hits # {}
    PROVE  \E pl \in hits : \A q \in hits : NotAfter(pl, q)
<1>1. DOMAIN pages \subseteq Nat /\ \A p \in DOMAIN pages : pages[p].regions = <<>>
  BY DEF OwnPages, OwnPage, Listed
<1>2. \A p \in DOMAIN pages : DOMAIN pages[p].fragments \subseteq Nat
  BY OwnPageFragments DEF OwnPages, Listed
<1>3. \A pl \in hits : \E p \in DOMAIN pages : \E k \in DOMAIN pages[p].fragments : pl = SpotOf(p, k)
  BY <1>1, OwnPlaces
<1> DEFINE P == {p \in DOMAIN pages : \E k \in DOMAIN pages[p].fragments : SpotOf(p, k) \in hits}
<1>4. P \in SUBSET Nat /\ P # {}
  BY <1>1, <1>3
<1>5. PICK p \in P : \A q \in P : p <= q
  BY <1>4, HasLeast
<1> DEFINE K == {k \in DOMAIN pages[p].fragments : SpotOf(p, k) \in hits}
<1>6. K \in SUBSET Nat /\ K # {}
  BY <1>2
<1>7. PICK k \in K : \A j \in K : k <= j
  BY <1>6, HasLeast
<1>8. ASSUME NEW pl \in hits PROVE NotAfter(SpotOf(p, k), pl)
  <2>1. PICK q \in DOMAIN pages : \E j \in DOMAIN pages[q].fragments : pl = SpotOf(q, j)
    BY <1>3
  <2>2. PICK j \in DOMAIN pages[q].fragments : pl = SpotOf(q, j)
    BY <2>1
  <2>3. q \in P /\ p <= q /\ p \in Nat /\ q \in Nat
    BY <1>1, <1>5, <2>2
  <2>4. CASE p = q
    <3>1. j \in K /\ k <= j
      BY <1>7, <2>2, <2>4
    <3> QED BY <2>2, <2>4, <3>1 DEF NotAfter, SpotOf
  <2>5. CASE p # q
    <3>1. p < q
      BY <2>3, <2>5
    <3> QED BY <2>2, <3>1 DEF NotAfter, SpotOf
  <2> QED BY <2>4, <2>5
<1> QED BY <1>7, <1>8

LEMMA PageChanged ==
    ASSUME NEW pages, OwnPages(pages), NEW p \in DOMAIN pages, NEW fs, Listed(fs), fs # <<>>,
           \A k \in DOMAIN fs : OwnFragment(fs[k], pages[p].number)
    PROVE  LET new == [pages EXCEPT ![p].fragments = fs]
           IN  /\ OwnPages(new) /\ DOMAIN new = DOMAIN pages
               /\ \A q \in DOMAIN pages : new[q].number = pages[q].number
               /\ \A q \in DOMAIN pages : q # p => new[q] = pages[q]
               /\ new[p].fragments = fs
<1> DEFINE page == [pages[p] EXCEPT !.fragments = fs]
           new == [pages EXCEPT ![p].fragments = fs]
<1>1. OwnPage(pages[p])
  BY DEF OwnPages
<1>2. OwnPage(page) /\ page.number = pages[p].number /\ page.fragments = fs
  BY <1>1, FragmentsMakeOwnPage
<1>3. new = [pages EXCEPT ![p] = page]
  OBVIOUS
<1> HIDE DEF page, new
<1>4. /\ DOMAIN new = DOMAIN pages /\ new[p] = page
      /\ \A q \in DOMAIN pages : q # p => new[q] = pages[q]
      /\ new = [q \in DOMAIN pages |-> new[q]]
  BY <1>3
<1>5. Listed(new)
  BY <1>4, ChangeIsListed, Zenon DEF OwnPages
<1>6. \A q \in DOMAIN pages : new[q].number = pages[q].number
  BY <1>2, <1>4
<1>7. OwnPages(new)
  BY <1>2, <1>4, <1>5, <1>6 DEF OwnPages
<1> QED BY <1>2, <1>4, <1>6, <1>7 DEF new

(* A table is put at one place, free or new, and nothing else changes.      *)
PlacedAt(acc, new, t, np) ==
    /\ Places(new.pages) = Places(acc.pages) \cup {np}
    /\ np \in Places(acc.pages) => np \in acc.free
    /\ KeyAt(new.pages, np) = TableKey(t)
    /\ \A q \in Places(acc.pages) :
          q # np => /\ At(new.pages, q) = At(acc.pages, q)
                    /\ KeyAt(new.pages, q) = KeyAt(acc.pages, q)
    /\ DOMAIN acc.pages \subseteq DOMAIN new.pages
    /\ \A p \in DOMAIN acc.pages : new.pages[p].number = acc.pages[p].number
    /\ new.free = acc.free \ {np}
    /\ new.keys = (acc.keys \cup {TableKey(t)}) \ {NoKey}

PdfAcc(acc) ==
    /\ acc = [pages |-> acc.pages, free |-> acc.free, keys |-> acc.keys]
    /\ OwnPages(acc.pages)
    /\ acc.free \subseteq Places(acc.pages)
    /\ \A pl \in acc.free : KeyAt(acc.pages, pl) # NoKey
    /\ NoKey \notin acc.keys

LEMMA OwnPagesPlaces ==
    ASSUME NEW pages, OwnPages(pages)
    PROVE  /\ \A p \in DOMAIN pages : \A k \in DOMAIN pages[p].fragments :
                 /\ SpotOf(p, k) \in Places(pages)
                 /\ OwnFragment(pages[p].fragments[k], pages[p].number)
                 /\ KeyAt(pages, SpotOf(p, k)) = KeyOn(pages[p].number, pages[p].fragments[k])
           /\ \A pl \in Places(pages) : \E p \in DOMAIN pages :
                 \E k \in DOMAIN pages[p].fragments : pl = SpotOf(p, k)
<1>1. \A p \in DOMAIN pages : OwnPage(pages[p]) /\ pages[p].regions = <<>>
  BY Zenon DEF OwnPages, OwnPage
<1>2. /\ \A p \in DOMAIN pages : \A k \in DOMAIN pages[p].fragments :
                 SpotOf(p, k) \in Places(pages)
      /\ \A pl \in Places(pages) : \E p \in DOMAIN pages :
                 \E k \in DOMAIN pages[p].fragments : pl = SpotOf(p, k)
  BY <1>1, OwnPlaces, Zenon
<1>3. ASSUME NEW p \in DOMAIN pages, NEW k \in DOMAIN pages[p].fragments
      PROVE  /\ OwnFragment(pages[p].fragments[k], pages[p].number)
             /\ KeyAt(pages, SpotOf(p, k)) = KeyOn(pages[p].number, pages[p].fragments[k])
  <2>1. OwnFragment(pages[p].fragments[k], pages[p].number) /\ pages[p].number # NoNumber
    BY <1>1, OwnPageFragments, Zenon
  <2>2. FragmentKey(pages[p].fragments[k], pages[p]) = KeyOn(pages[p].number, pages[p].fragments[k])
    BY <2>1, OwnKey, Zenon
  <2> QED BY <2>1, <2>2, AtPlace
<1> QED BY <1>2, <1>3, Zenon

(* The places of two lists of pages of which the second has more in them.   *)
Grown(pages, new, p, k) ==
    /\ p \in DOMAIN new /\ k \in DOMAIN new[p].fragments
    /\ DOMAIN pages \subseteq DOMAIN new
    /\ \A q \in DOMAIN pages : /\ new[q].number = pages[q].number
                               /\ DOMAIN pages[q].fragments \subseteq DOMAIN new[q].fragments
    /\ \A q \in DOMAIN pages : \A j \in DOMAIN pages[q].fragments :
          q # p \/ j # k => new[q].fragments[j] = pages[q].fragments[j]
    /\ \A q \in DOMAIN new : \A j \in DOMAIN new[q].fragments :
          (q = p /\ j = k) \/ (q \in DOMAIN pages /\ j \in DOMAIN pages[q].fragments)

LEMMA PlacesGrow ==
    ASSUME NEW pages, NEW new, OwnPages(pages), OwnPages(new), NEW p, NEW k,
           Grown(pages, new, p, k), NEW np, np = SpotOf(p, k)
    PROVE  /\ Places(new) = Places(pages) \cup {np}
           /\ \A pl \in Places(pages) : pl # np =>
                 At(new, pl) = At(pages, pl) /\ KeyAt(new, pl) = KeyAt(pages, pl)
           /\ KeyAt(new, np) = KeyOn(new[p].number, new[p].fragments[k])
<1> USE DEF Grown
<1>1. /\ \A q \in DOMAIN pages : \A j \in DOMAIN pages[q].fragments :
            /\ SpotOf(q, j) \in Places(pages)
            /\ KeyAt(pages, SpotOf(q, j)) = KeyOn(pages[q].number, pages[q].fragments[j])
      /\ \A pl \in Places(pages) : \E q \in DOMAIN pages :
            \E j \in DOMAIN pages[q].fragments : pl = SpotOf(q, j)
  BY OwnPagesPlaces, Zenon
<1>2. /\ \A q \in DOMAIN new : \A j \in DOMAIN new[q].fragments :
            /\ SpotOf(q, j) \in Places(new)
            /\ KeyAt(new, SpotOf(q, j)) = KeyOn(new[q].number, new[q].fragments[j])
      /\ \A pl \in Places(new) : \E q \in DOMAIN new :
            \E j \in DOMAIN new[q].fragments : pl = SpotOf(q, j)
  BY OwnPagesPlaces, Zenon
<1>3. ASSUME NEW pl \in Places(new) PROVE pl \in Places(pages) \cup {np}
  <2>1. PICK q \in DOMAIN new : \E j \in DOMAIN new[q].fragments : pl = SpotOf(q, j)
    BY <1>2, Zenon
  <2>2. PICK j \in DOMAIN new[q].fragments : pl = SpotOf(q, j)
    BY <2>1, Zenon
  <2> QED BY <1>1, <2>2
<1>4. ASSUME NEW pl \in Places(pages)
      PROVE  /\ pl \in Places(new)
             /\ pl # np =>
                   At(new, pl) = At(pages, pl) /\ KeyAt(new, pl) = KeyAt(pages, pl)
  <2>1. PICK q \in DOMAIN pages : \E j \in DOMAIN pages[q].fragments : pl = SpotOf(q, j)
    BY <1>1, Zenon
  <2>2. PICK j \in DOMAIN pages[q].fragments : pl = SpotOf(q, j)
    BY <2>1, Zenon
  <2>3. q \in DOMAIN new /\ j \in DOMAIN new[q].fragments /\ new[q].number = pages[q].number
    OBVIOUS
  <2>4. pl # np => new[q].fragments[j] = pages[q].fragments[j]
    BY <2>2, Zenon
  <2>5. At(new, pl) = new[q].fragments[j] /\ At(pages, pl) = pages[q].fragments[j]
    BY <2>2, AtPlace
  <2>6. /\ KeyAt(new, pl) = KeyOn(new[q].number, new[q].fragments[j])
        /\ KeyAt(pages, pl) = KeyOn(pages[q].number, pages[q].fragments[j])
    BY <1>1, <1>2, <2>2, <2>3, Zenon
  <2>7. pl \in Places(new)
    BY <1>2, <2>2, <2>3, Zenon
  <2>8. ASSUME pl # np
        PROVE  At(new, pl) = At(pages, pl) /\ KeyAt(new, pl) = KeyAt(pages, pl)
    <3>1. new[q].fragments[j] = pages[q].fragments[j]
      BY <2>4, <2>8
    <3> QED BY <2>3, <2>5, <2>6, <3>1
  <2> QED BY <2>7, <2>8
<1>5. np \in Places(new) /\ KeyAt(new, np) = KeyOn(new[p].number, new[p].fragments[k])
  BY <1>2, Zenon
<1>6. Places(new) = Places(pages) \cup {np}
  BY <1>3, <1>4, <1>5
<1> QED BY <1>4, <1>5, <1>6, Zenon

LEMMA MergedPlaced ==
    ASSUME NEW acc, NEW t, NEW pl \in acc.free, PdfAcc(acc),
           TableKey(t) # NoKey, KeyAt(acc.pages, pl) = TableKey(t)
    PROVE  LET new == MergedAt(acc, pl, t)
           IN  PdfAcc(new) /\ PlacedAt(acc, new, t, pl)
<1> DEFINE pages == acc.pages
           new == MergedAt(acc, pl, t)
<1>1. OwnPages(pages) /\ pl \in Places(pages)
  BY Zenon DEF PdfAcc
<1>2. PICK p \in DOMAIN pages : \E j \in DOMAIN pages[p].fragments : pl = SpotOf(p, j)
  BY <1>1, OwnPagesPlaces, Zenon
<1>3. PICK k \in DOMAIN pages[p].fragments : pl = SpotOf(p, k)
  BY <1>2, Zenon
<1> DEFINE f == pages[p].fragments[k]
           g == MergeTable(f, t)
           fs == [pages[p].fragments EXCEPT ![k] = g]
           after == [pages EXCEPT ![p].fragments = fs]
           n == pages[p].number
<1>4. [acc.pages EXCEPT ![pl[1]][pl[2]][pl[3]] = MergeTable(@, t)] = after
  <2>1. pl[1] = p /\ pl[2] = "fragments" /\ pl[3] = k
    BY <1>3 DEF SpotOf
  <2> HIDE DEF pages
  <2>2. [pages EXCEPT ![pl[1]][pl[2]][pl[3]] = MergeTable(@, t)] = after
    BY <2>1
  <2> QED BY <2>2 DEF pages
<1>5. /\ new = [pages |-> after, free |-> acc.free \ {pl}, keys |-> acc.keys \cup {TableKey(t)}]
  BY <1>4 DEF MergedAt
<1>6. /\ OwnFragment(f, n) /\ KeyOn(n, f) = TableKey(t)
      /\ \A j \in DOMAIN pages[p].fragments : OwnFragment(pages[p].fragments[j], n)
      /\ Listed(pages[p].fragments) /\ OwnPage(pages[p])
  <2>1. /\ \A j \in DOMAIN pages[p].fragments : OwnFragment(pages[p].fragments[j], n)
        /\ KeyAt(pages, SpotOf(p, k)) = KeyOn(n, f)
    BY <1>1, OwnPagesPlaces
  <2>2. OwnPage(pages[p])
    BY <1>1 DEF OwnPages
  <2> QED BY <1>3, <2>1, <2>2, OwnPageFragments
<1>7. /\ FragmentShape(g) /\ g.kind = f.kind /\ g.page = f.page
      /\ g.text = t.rows /\ g.rows = t.rows
  BY <1>6, TableMerged DEF OwnFragment
<1>8. OwnFragment(g, n) /\ KeyOn(n, g) = TableKey(t)
  <2>1. t.rows # None /\ f.text = t.rows /\ f.kind = "table"
    <3>1. t.rows # None /\ TableKey(t) = <<PageNumber(t.page, 1), t.rows>>
      BY DEF TableKey
    <3> QED BY <1>6, <3>1 DEF KeyOn
  <2>2. OwnFragment(g, n)
    BY <1>6, <1>7 DEF OwnFragment
  <2>3. KeyOn(n, g) = KeyOn(n, f)
    BY <1>7, <2>1 DEF KeyOn
  <2> QED BY <1>6, <2>2, <2>3
<1> HIDE DEF g, f
<1>9. /\ Listed(fs) /\ DOMAIN fs = DOMAIN pages[p].fragments /\ fs[k] = g
      /\ \A j \in DOMAIN fs : j # k => fs[j] = pages[p].fragments[j]
      /\ fs # <<>>
  <2>1. /\ DOMAIN fs = DOMAIN pages[p].fragments /\ fs[k] = g
        /\ \A j \in DOMAIN fs : j # k => fs[j] = pages[p].fragments[j]
        /\ fs = [j \in DOMAIN pages[p].fragments |-> fs[j]]
    OBVIOUS
  <2> HIDE DEF fs
  <2>2. Listed(fs)
    BY <1>6, <2>1, ChangeIsListed, Zenon
  <2>3. fs # <<>>
    BY <2>1
  <2> QED BY <2>1, <2>2, <2>3
<1>10. \A j \in DOMAIN fs : OwnFragment(fs[j], n)
  <2> HIDE DEF fs, n
  <2> QED BY <1>6, <1>8, <1>9
<1> HIDE DEF fs
<1>11. /\ OwnPages(after) /\ DOMAIN after = DOMAIN pages
       /\ \A q \in DOMAIN pages : after[q].number = pages[q].number
       /\ \A q \in DOMAIN pages : q # p => after[q] = pages[q]
       /\ after[p].fragments = fs
  BY <1>1, <1>9, <1>10, PageChanged
<1> HIDE DEF after
<1>12. /\ Places(after) = Places(pages) \cup {pl}
       /\ \A q \in Places(pages) : q # pl =>
             At(after, q) = At(pages, q) /\ KeyAt(after, q) = KeyAt(pages, q)
       /\ KeyAt(after, pl) = KeyOn(after[p].number, after[p].fragments[k])
  <2>1. \A q \in DOMAIN pages : /\ after[q].number = pages[q].number
                                /\ DOMAIN pages[q].fragments \subseteq DOMAIN after[q].fragments
                                /\ DOMAIN after[q].fragments = DOMAIN pages[q].fragments
    BY <1>9, <1>11
  <2>2. \A q \in DOMAIN pages : \A j \in DOMAIN pages[q].fragments :
              q # p \/ j # k => after[q].fragments[j] = pages[q].fragments[j]
    BY <1>9, <1>11
  <2>3. \A q \in DOMAIN after : \A j \in DOMAIN after[q].fragments :
              (q = p /\ j = k) \/ (q \in DOMAIN pages /\ j \in DOMAIN pages[q].fragments)
    BY <1>11, <2>1
  <2>4. p \in DOMAIN after /\ k \in DOMAIN after[p].fragments /\ DOMAIN pages \subseteq DOMAIN after
    BY <1>9, <1>11
  <2> HIDE DEF pages
  <2>5. Grown(pages, after, p, k)
    BY <1>11, <2>1, <2>2, <2>3, <2>4, Zenon DEF Grown
  <2> QED BY <1>1, <1>3, <1>11, <2>5, PlacesGrow
<1>13. KeyAt(after, pl) = TableKey(t)
  BY <1>8, <1>9, <1>11, <1>12
<1>14. new.pages = after /\ new.free = acc.free \ {pl} /\ new.keys = acc.keys \cup {TableKey(t)}
       /\ new = [pages |-> new.pages, free |-> new.free, keys |-> new.keys]
  BY <1>5
<1> HIDE DEF new
<1>15. PdfAcc(new)
  <2>1. NoKey \notin new.keys
    BY <1>14 DEF PdfAcc
  <2>2. new.free \subseteq Places(new.pages)
    BY <1>12, <1>14 DEF PdfAcc
  <2>3. \A q \in new.free : KeyAt(new.pages, q) # NoKey
    BY <1>12, <1>14 DEF PdfAcc
  <2> QED BY <1>11, <1>14, <2>1, <2>2, <2>3, Zenon DEF PdfAcc
<1>16. PlacedAt(acc, new, t, pl)
  <2>1. new.keys = (acc.keys \cup {TableKey(t)}) \ {NoKey}
    BY <1>14 DEF PdfAcc
  <2>2. DOMAIN acc.pages \subseteq DOMAIN new.pages
    BY <1>11, <1>14
  <2> QED BY <1>11, <1>12, <1>13, <1>14, <2>1, <2>2, Zenon DEF PlacedAt
<1> QED BY <1>15, <1>16 DEF new

LEMMA NewPage ==
    ASSUME NEW n, NEW f, OwnFragment(f, n), n # NoNumber
    PROVE  LET page == DefaultPage(n, <<f>>)
           IN  OwnPage(page) /\ page.number = n /\ page.fragments = <<f>>
<1> DEFINE fs == <<f>>
           page == DefaultPage(n, fs)
<1>1. Listed(fs) /\ DOMAIN fs = {1} /\ fs[1] = f /\ fs # <<>>
  BY DEF Listed
<1>2. FragmentsShaped(fs) /\ FragmentsShaped(<<>>)
  <2>1. Listed(<<>>) /\ DOMAIN <<>> = {}
    BY DEF Listed
  <2> HIDE DEF fs
  <2> QED BY <1>1, <2>1 DEF FragmentsShaped, OwnFragment
<1> HIDE DEF fs
<1>3. /\ page = [number |-> page.number, sized |-> page.sized, unit |-> page.unit,
                 fragments |-> page.fragments, regions |-> page.regions]
      /\ page.number = n /\ page.fragments = fs /\ page.regions = <<>>
  BY DEF DefaultPage
<1> HIDE DEF page
<1>4. PageShape(page)
  BY <1>2, <1>3, Zenon DEF PageShape
<1>5. OwnPage(page)
  BY <1>1, <1>3, <1>4 DEF OwnPage, OwnFragment
<1> QED BY <1>3, <1>5 DEF page, fs

LEMMA FreshFragment ==
    ASSUME NEW t, NEW n, n = PageNumber(t.page, 1)
    PROVE  LET f == MergeTable([Fragment("table", None, NoBox, NoNumber) EXCEPT !.page = n], t)
           IN  OwnFragment(f, n) /\ n # NoNumber /\ KeyOn(n, f) = TableKey(t)
<1> DEFINE e == [Fragment("table", None, NoBox, NoNumber) EXCEPT !.page = n]
           f == MergeTable(e, t)
<1>1. FragmentShape(e) /\ e.kind = "table" /\ e.page = n
  <2>1. e = [kind |-> "table", keep |-> FALSE, text |-> None, page |-> n, box |-> NoBox,
             conf |-> NoNumber, missing |-> FALSE, low |-> FALSE, review |-> FALSE,
             warnings |-> {}, extractor |-> None, engine |-> None, rows |-> None]
    <3> DEFINE g == Fragment("table", None, NoBox, NoNumber)
    <3>1. e = [g EXCEPT !.page = n]
      OBVIOUS
    <3> HIDE DEF e
    <3> QED BY <3>1 DEF Fragment
  <2> HIDE DEF e
  <2> QED BY <2>1 DEF FragmentShape
<1> HIDE DEF e
<1>2. FragmentShape(f) /\ f.kind = "table" /\ f.page = n /\ f.text = t.rows /\ f.rows = t.rows
  BY <1>1, TableMerged
<1> HIDE DEF f
<1>3. n # NoNumber
  BY DEF PageNumber, NoNumber
<1>4. OwnFragment(f, n)
  BY <1>2 DEF OwnFragment, None
<1>5. KeyOn(n, f) = TableKey(t)
  BY <1>2 DEF KeyOn, TableKey
<1> QED BY <1>3, <1>4, <1>5 DEF e, f

LEMMA TableAdded ==
    ASSUME NEW pages, OwnPages(pages), NEW n, NEW f, OwnFragment(f, n), n # NoNumber
    PROVE  LET new == WithTable(pages, n, f)
           IN  /\ OwnPages(new)
               /\ \E p, k : /\ Grown(pages, new, p, k)
                            /\ SpotOf(p, k) \notin Places(pages)
                            /\ new[p].number = n /\ new[p].fragments[k] = f
<1> DEFINE on == {p \in DOMAIN pages : pages[p].number = n}
           last == CHOOSE p \in on : \A q \in on : q <= p
           new == WithTable(pages, n, f)
<1>1. new = IF on = {} THEN Append(pages, DefaultPage(n, <<f>>))
            ELSE [pages EXCEPT ![last].fragments = Append(@, f)]
  BY DEF WithTable
<1>2. /\ Listed(pages) /\ DOMAIN pages = 1..Len(pages) /\ Len(pages) \in Nat
      /\ \A p \in DOMAIN pages : OwnPage(pages[p])
  BY DEF OwnPages, Listed
<1>3. /\ \A pl \in Places(pages) : \E p \in DOMAIN pages :
            \E k \in DOMAIN pages[p].fragments : pl = SpotOf(p, k)
  BY OwnPagesPlaces, Zenon
<1>4. CASE on = {}
  <2> DEFINE page == DefaultPage(n, <<f>>)
             N == Len(pages)
  <2>1. OwnPage(page) /\ page.number = n /\ page.fragments = <<f>>
    BY NewPage
  <2> HIDE DEF page
  <2>2. new = Append(pages, page)
    BY <1>1, <1>4 DEF page
  <2> HIDE DEF new, N
  <2>3. /\ N \in Nat /\ DOMAIN pages = 1..N
    BY <1>2 DEF N
  <2>4. /\ Listed(new) /\ DOMAIN new = 1..(N + 1)
        /\ \A k \in 1..N : new[k] = pages[k]
        /\ new[N + 1] = page
    BY <1>2, <2>2, <2>3, MergedAppend
  <2>5. \A q \in DOMAIN new : q = N + 1 \/ q \in DOMAIN pages
    BY <2>3, <2>4
  <2>6. N + 1 \in DOMAIN new /\ N + 1 \notin DOMAIN pages /\ DOMAIN pages \subseteq DOMAIN new
    BY <2>3, <2>4
  <2>7. \A q \in DOMAIN pages : new[q] = pages[q] /\ pages[q].number # n
    BY <1>4, <2>3, <2>4
  <2>8. OwnPages(new)
    <3>1. \A q \in DOMAIN new : OwnPage(new[q])
      BY <1>2, <2>1, <2>4, <2>5, <2>7
    <3>2. ASSUME NEW p \in DOMAIN new, NEW q \in DOMAIN new, new[p].number = new[q].number
          PROVE  p = q
      <4>1. new[N + 1].number = n
        BY <2>1, <2>4
      <4> QED BY <2>5, <2>7, <3>2, <4>1 DEF OwnPages
    <3> QED BY <2>4, <3>1, <3>2 DEF OwnPages
  <2>9. page.fragments[1] = f /\ DOMAIN page.fragments = {1}
    BY <2>1
  <2>10. Grown(pages, new, N + 1, 1)
    BY <2>4, <2>5, <2>6, <2>7, <2>9 DEF Grown
  <2>11. SpotOf(N + 1, 1) \notin Places(pages)
    BY <1>3, <2>6, SamePlace
  <2>12. new[N + 1].number = n /\ new[N + 1].fragments[1] = f
    BY <2>1, <2>4, <2>9
  <2>13. OwnPages(new) /\ \E p, k : /\ Grown(pages, new, p, k)
                            /\ SpotOf(p, k) \notin Places(pages)
                            /\ new[p].number = n /\ new[p].fragments[k] = f
    BY <2>8, <2>10, <2>11, <2>12
  <2> QED BY <2>13 DEF new
<1>5. CASE on # {}
  <2>1. PICK p \in on : TRUE
    BY <1>5
  <2>2. p \in DOMAIN pages /\ pages[p].number = n /\ \A q \in on : q = p
    BY DEF OwnPages
  <2>3. last = p
    <3>1. \A q \in on : q <= p
      BY <1>2, <2>2
    <3>2. p \in on
      OBVIOUS
    <3> HIDE DEF on
    <3>3. last \in on
      BY <3>1, <3>2
    <3> QED BY <2>2, <3>3
  <2> DEFINE old == pages[p].fragments
             fs == Append(old, f)
             N == Len(old)
  <2>4. new = [pages EXCEPT ![p].fragments = fs]
    <3> HIDE DEF last, on, new
    <3> QED BY <1>1, <1>5, <2>3
  <2>5. /\ Listed(old) /\ \A k \in DOMAIN old : OwnFragment(old[k], n)
        /\ N \in Nat /\ DOMAIN old = 1..N
    <3>1. Listed(old) /\ \A k \in DOMAIN old : OwnFragment(old[k], n)
      BY <1>2, <2>2, OwnPageFragments
    <3> QED BY <3>1 DEF Listed
  <2> HIDE DEF N, old, on, last, new
  <2>6. /\ Listed(fs) /\ DOMAIN fs = 1..(N + 1)
        /\ \A k \in 1..N : fs[k] = old[k]
        /\ fs[N + 1] = f
    BY <2>5, MergedAppend
  <2> HIDE DEF fs
  <2>7. /\ N + 1 \in DOMAIN fs /\ N + 1 \notin DOMAIN old /\ DOMAIN old \subseteq DOMAIN fs
        /\ \A k \in DOMAIN fs : k = N + 1 \/ k \in DOMAIN old
        /\ \A k \in DOMAIN old : fs[k] = old[k]
        /\ fs # <<>>
    BY <2>5, <2>6
  <2>8. \A k \in DOMAIN fs : OwnFragment(fs[k], pages[p].number)
    BY <2>2, <2>5, <2>6, <2>7
  <2>9. /\ OwnPages(new) /\ DOMAIN new = DOMAIN pages
        /\ \A q \in DOMAIN pages : new[q].number = pages[q].number
        /\ \A q \in DOMAIN pages : q # p => new[q] = pages[q]
        /\ new[p].fragments = fs
    <3> DEFINE m == [pages EXCEPT ![p].fragments = fs]
    <3>1. /\ OwnPages(m) /\ DOMAIN m = DOMAIN pages
          /\ \A q \in DOMAIN pages : m[q].number = pages[q].number
          /\ \A q \in DOMAIN pages : q # p => m[q] = pages[q]
          /\ m[p].fragments = fs
      BY <2>2, <2>6, <2>7, <2>8, PageChanged, Zenon
    <3> HIDE DEF m
    <3>2. new = m
      BY <2>4 DEF m
    <3> QED BY <3>1, <3>2
  <2>10. Grown(pages, new, p, N + 1)
    <3>1. /\ \A q \in DOMAIN pages : /\ new[q].number = pages[q].number
                                     /\ DOMAIN pages[q].fragments \subseteq DOMAIN new[q].fragments
      BY <2>7, <2>9 DEF old
    <3>2. \A q \in DOMAIN pages : \A j \in DOMAIN pages[q].fragments :
             new[q].fragments[j] = pages[q].fragments[j]
      BY <2>7, <2>9 DEF old
    <3>3. \A q \in DOMAIN new : \A j \in DOMAIN new[q].fragments :
             (q = p /\ j = N + 1) \/ (q \in DOMAIN pages /\ j \in DOMAIN pages[q].fragments)
      BY <2>7, <2>9 DEF old
    <3>4. p \in DOMAIN new /\ N + 1 \in DOMAIN new[p].fragments /\ DOMAIN pages \subseteq DOMAIN new
      BY <2>2, <2>7, <2>9
    <3> QED BY <3>1, <3>2, <3>3, <3>4, Zenon DEF Grown
  <2>11. SpotOf(p, N + 1) \notin Places(pages)
    <3> SUFFICES ASSUME SpotOf(p, N + 1) \in Places(pages) PROVE FALSE
      OBVIOUS
    <3>1. PICK q \in DOMAIN pages : \E j \in DOMAIN pages[q].fragments : SpotOf(p, N + 1) = SpotOf(q, j)
      BY <1>3, Zenon
    <3>2. PICK j \in DOMAIN pages[q].fragments : SpotOf(p, N + 1) = SpotOf(q, j)
      BY <3>1, Zenon
    <3>3. p = q /\ N + 1 = j
      BY <3>2, SamePlace
    <3> QED BY <2>7, <3>2, <3>3 DEF old
  <2>12. new[p].number = n /\ new[p].fragments[N + 1] = f
    BY <2>2, <2>6, <2>9
  <2>13. OwnPages(new) /\ \E q, k : /\ Grown(pages, new, q, k)
                            /\ SpotOf(q, k) \notin Places(pages)
                            /\ new[q].number = n /\ new[q].fragments[k] = f
    BY <2>9, <2>10, <2>11, <2>12, Zenon
  <2> QED BY <2>13, Zenon DEF new
<1> QED BY <1>4, <1>5

LEMMA AppendedPlaced ==
    ASSUME NEW acc, NEW t, PdfAcc(acc)
    PROVE  LET new == Appended(acc, t)
           IN  PdfAcc(new) /\ \E np : PlacedAt(acc, new, t, np)
<1> DEFINE n == PageNumber(t.page, 1)
           f == MergeTable([Fragment("table", None, NoBox, NoNumber) EXCEPT !.page = n], t)
           pages == acc.pages
           after == WithTable(pages, n, f)
           new == Appended(acc, t)
<1>1. OwnFragment(f, n) /\ n # NoNumber /\ KeyOn(n, f) = TableKey(t)
  BY FreshFragment
<1>2. new = [acc EXCEPT !.pages = after, !.keys = acc.keys \cup ({TableKey(t)} \ {NoKey})]
  BY DEF Appended
<1> HIDE DEF f, n, new
<1>3. OwnPages(pages)
  BY DEF PdfAcc
<1>4. /\ OwnPages(after)
      /\ \E p, k : /\ Grown(pages, after, p, k)
                   /\ SpotOf(p, k) \notin Places(pages)
                   /\ after[p].number = n /\ after[p].fragments[k] = f
  BY <1>1, <1>3, TableAdded
<1> HIDE DEF after
<1>5. PICK p, k : /\ Grown(pages, after, p, k)
                  /\ SpotOf(p, k) \notin Places(pages)
                  /\ after[p].number = n /\ after[p].fragments[k] = f
  BY <1>4
<1> DEFINE np == SpotOf(p, k)
<1>6. np = SpotOf(p, k) /\ np \notin Places(pages)
  BY <1>5
<1> HIDE DEF np
<1>7. /\ Places(after) = Places(pages) \cup {np}
      /\ \A q \in Places(pages) : q # np =>
            At(after, q) = At(pages, q) /\ KeyAt(after, q) = KeyAt(pages, q)
      /\ KeyAt(after, np) = KeyOn(after[p].number, after[p].fragments[k])
  BY <1>3, <1>4, <1>5, <1>6, PlacesGrow
<1>8. KeyAt(after, np) = TableKey(t)
  BY <1>1, <1>5, <1>7
<1>9. /\ new.pages = after /\ new.free = acc.free
      /\ new.keys = acc.keys \cup ({TableKey(t)} \ {NoKey})
      /\ new = [pages |-> new.pages, free |-> new.free, keys |-> new.keys]
  BY <1>2 DEF PdfAcc
<1>10. PdfAcc(new)
  <2>1. NoKey \notin new.keys
    BY <1>9 DEF PdfAcc
  <2>2. new.free \subseteq Places(new.pages)
    BY <1>7, <1>9 DEF PdfAcc
  <2>3. \A q \in new.free : KeyAt(new.pages, q) # NoKey
    BY <1>6, <1>7, <1>9 DEF PdfAcc
  <2> QED BY <1>4, <1>9, <2>1, <2>2, <2>3, Zenon DEF PdfAcc
<1>11. PlacedAt(acc, new, t, np)
  <2>1. new.keys = (acc.keys \cup {TableKey(t)}) \ {NoKey}
    BY <1>9 DEF PdfAcc
  <2>2. new.free = acc.free \ {np}
    BY <1>6, <1>9 DEF PdfAcc
  <2>3. /\ DOMAIN acc.pages \subseteq DOMAIN new.pages
        /\ \A q \in DOMAIN acc.pages : new.pages[q].number = acc.pages[q].number
    BY <1>5, <1>9 DEF Grown
  <2> QED BY <1>6, <1>7, <1>8, <1>9, <2>1, <2>2, <2>3 DEF PlacedAt
<1> QED BY <1>10, <1>11 DEF new

LEMMA TablePlaced ==
    ASSUME NEW acc, NEW t, PdfAcc(acc)
    PROVE  PdfAcc(PlaceTable(acc, t)) /\ \E np : PlacedAt(acc, PlaceTable(acc, t), t, np)
<1> DEFINE pages == acc.pages
           hits == {pl \in acc.free : /\ TableKey(t) # NoKey
                                      /\ KeyAt(pages, pl) = TableKey(t)
                                      /\ At(pages, pl).extractor # t.candidate}
           first == CHOOSE pl \in hits : \A q \in hits : NotAfter(pl, q)
<1>1. PlaceTable(acc, t) = IF hits = {} THEN Appended(acc, t) ELSE MergedAt(acc, first, t)
  BY DEF PlaceTable
<1>2. CASE hits = {}
  BY <1>1, <1>2, AppendedPlaced
<1>3. CASE hits # {}
  <2>1. OwnPages(pages) /\ hits \in SUBSET Places(pages)
    BY DEF PdfAcc
  <2>2. \A pl \in hits : pl \in acc.free /\ TableKey(t) # NoKey /\ KeyAt(pages, pl) = TableKey(t)
    OBVIOUS
  <2> HIDE DEF hits
  <2>3. first \in hits
    BY <1>3, <2>1, FirstPlace
  <2> HIDE DEF first
  <2>4. PdfAcc(MergedAt(acc, first, t)) /\ PlacedAt(acc, MergedAt(acc, first, t), t, first)
    BY <2>2, <2>3, MergedPlaced
  <2> QED BY <1>1, <1>3, <2>4
<1> QED BY <1>2, <1>3

-----------------------------------------------------------------------------
(* What is true while tables are placed: as many places have been taken     *)
(* under a key as tables with that key have been placed, and a fragment     *)
(* that is no table is untouched.                                           *)
Taken(acc) == {pl \in Places(acc.pages) \ acc.free : KeyAt(acc.pages, pl) # NoKey}
TakenFor(acc, K) == {pl \in Taken(acc) : KeyAt(acc.pages, pl) = K}
KeyedBy(S, key, K) == {x \in S : key[x] = K}

PlacedSoFar(start, acc, S, key) ==
    /\ PdfAcc(acc)
    /\ DOMAIN start.pages \subseteq DOMAIN acc.pages
    /\ \A p \in DOMAIN start.pages : acc.pages[p].number = start.pages[p].number
    /\ \A q \in Places(start.pages) : KeyAt(start.pages, q) = NoKey =>
          /\ q \in Places(acc.pages) /\ At(acc.pages, q) = At(start.pages, q)
          /\ KeyAt(acc.pages, q) = NoKey
    /\ acc.keys = {key[x] : x \in S} \ {NoKey}
    /\ IsFiniteSet(S) /\ IsFiniteSet(Taken(acc))
    /\ \A K : K # NoKey => Cardinality(TakenFor(acc, K)) = Cardinality(KeyedBy(S, key, K))

LEMMA OneMorePlaced ==
    ASSUME NEW start, NEW acc, NEW S, NEW key, PlacedSoFar(start, acc, S, key),
           NEW new, NEW t, NEW np, PdfAcc(new), PlacedAt(acc, new, t, np),
           NEW x, x \notin S, key[x] = TableKey(t)
    PROVE  PlacedSoFar(start, new, S \cup {x}, key)
<1> DEFINE R == S \cup {x}
           k == TableKey(t)
<1>1. /\ Places(new.pages) = Places(acc.pages) \cup {np}
      /\ np \in Places(acc.pages) => np \in acc.free
      /\ KeyAt(new.pages, np) = k
      /\ \A q \in Places(acc.pages) :
            q # np => /\ At(new.pages, q) = At(acc.pages, q)
                      /\ KeyAt(new.pages, q) = KeyAt(acc.pages, q)
      /\ DOMAIN acc.pages \subseteq DOMAIN new.pages
      /\ \A p \in DOMAIN acc.pages : new.pages[p].number = acc.pages[p].number
      /\ new.free = acc.free \ {np}
      /\ new.keys = (acc.keys \cup {k}) \ {NoKey}
  BY Zenon DEF PlacedAt
<1>2. /\ PdfAcc(acc)
      /\ DOMAIN start.pages \subseteq DOMAIN acc.pages
      /\ \A p \in DOMAIN start.pages : acc.pages[p].number = start.pages[p].number
      /\ \A q \in Places(start.pages) : KeyAt(start.pages, q) = NoKey =>
            /\ q \in Places(acc.pages) /\ At(acc.pages, q) = At(start.pages, q)
            /\ KeyAt(acc.pages, q) = NoKey
      /\ acc.keys = {key[y] : y \in S} \ {NoKey}
      /\ IsFiniteSet(S) /\ IsFiniteSet(Taken(acc))
      /\ \A K : K # NoKey => Cardinality(TakenFor(acc, K)) = Cardinality(KeyedBy(S, key, K))
  BY Zenon DEF PlacedSoFar
<1> HIDE DEF k
<1>3. \A pl \in acc.free : pl \in Places(acc.pages) /\ KeyAt(acc.pages, pl) # NoKey
  BY <1>2 DEF PdfAcc
<1>4. np \notin Taken(acc) /\ np \in Places(new.pages) /\ np \notin new.free
  BY <1>1 DEF Taken
<1>5. ASSUME NEW q \in Taken(acc)
      PROVE  q \in Taken(new) /\ KeyAt(new.pages, q) = KeyAt(acc.pages, q) /\ q # np
  <2>1. q \in Places(acc.pages) /\ q \notin acc.free /\ KeyAt(acc.pages, q) # NoKey /\ q # np
    BY <1>4 DEF Taken
  <2> QED BY <1>1, <2>1 DEF Taken
<1>6. ASSUME NEW q \in Taken(new), q # np
      PROVE  q \in Taken(acc) /\ KeyAt(new.pages, q) = KeyAt(acc.pages, q)
  <2>1. q \in Places(new.pages) /\ q \notin new.free /\ KeyAt(new.pages, q) # NoKey
    BY DEF Taken
  <2> QED BY <1>1, <1>6, <2>1 DEF Taken
<1>7. np \in Taken(new) <=> k # NoKey
  BY <1>1, <1>4 DEF Taken
<1>8. Taken(new) = IF k = NoKey THEN Taken(acc) ELSE Taken(acc) \cup {np}
  BY <1>5, <1>6, <1>7
<1>9. IsFiniteSet(Taken(new)) /\ IsFiniteSet(R)
  BY <1>2, <1>8, FS_AddElement
<1>10. ASSUME NEW K, K # NoKey
       PROVE  Cardinality(TakenFor(new, K)) = Cardinality(KeyedBy(R, key, K))
  <2>1. TakenFor(acc, K) \in SUBSET Taken(acc) /\ KeyedBy(S, key, K) \in SUBSET S
    BY DEF TakenFor, KeyedBy
  <2>2. IsFiniteSet(TakenFor(acc, K)) /\ IsFiniteSet(KeyedBy(S, key, K))
    BY <1>2, <2>1, FS_Subset
  <2>3. CASE K = k
    <3>1. TakenFor(new, K) = TakenFor(acc, K) \cup {np}
      BY <1>1, <1>5, <1>6, <1>7, <1>10, <2>3 DEF TakenFor
    <3>2. KeyedBy(R, key, K) = KeyedBy(S, key, K) \cup {x}
      BY <2>3 DEF KeyedBy, k
    <3>3. np \notin TakenFor(acc, K) /\ x \notin KeyedBy(S, key, K)
      BY <1>4 DEF TakenFor, KeyedBy
    <3>4. /\ Cardinality(TakenFor(acc, K) \cup {np}) = Cardinality(TakenFor(acc, K)) + 1
          /\ Cardinality(KeyedBy(S, key, K) \cup {x}) = Cardinality(KeyedBy(S, key, K)) + 1
      BY <2>2, <3>3, FS_AddElement
    <3> QED BY <1>2, <1>10, <3>1, <3>2, <3>4
  <2>4. CASE K # k
    <3>1. TakenFor(new, K) = TakenFor(acc, K)
      BY <1>1, <1>5, <1>6, <2>4 DEF TakenFor
    <3>2. KeyedBy(R, key, K) = KeyedBy(S, key, K)
      BY <2>4 DEF KeyedBy, k
    <3> QED BY <1>2, <1>10, <3>1, <3>2
  <2> QED BY <2>3, <2>4
<1>11. new.keys = {key[y] : y \in R} \ {NoKey}
  BY <1>1, <1>2 DEF k
<1>12. ASSUME NEW q \in Places(start.pages), KeyAt(start.pages, q) = NoKey
       PROVE  /\ q \in Places(new.pages) /\ At(new.pages, q) = At(start.pages, q)
              /\ KeyAt(new.pages, q) = NoKey
  <2>1. /\ q \in Places(acc.pages) /\ At(acc.pages, q) = At(start.pages, q)
        /\ KeyAt(acc.pages, q) = NoKey
    BY <1>2, <1>12
  <2>2. q # np
    BY <1>1, <1>3, <2>1
  <2> QED BY <1>1, <2>1, <2>2
<1>13. /\ DOMAIN start.pages \subseteq DOMAIN new.pages
       /\ \A p \in DOMAIN start.pages : new.pages[p].number = start.pages[p].number
  BY <1>1, <1>2
<1> HIDE DEF R
<1>14. PlacedSoFar(start, new, R, key)
  BY <1>9, <1>10, <1>11, <1>12, <1>13, Zenon DEF PlacedSoFar
<1> QED BY <1>14 DEF R

LEMMA NothingPlaced ==
    ASSUME NEW start, NEW key, PdfAcc(start), start.keys = {},
           \A pl \in Places(start.pages) : KeyAt(start.pages, pl) # NoKey => pl \in start.free
    PROVE  PlacedSoFar(start, start, {}, key)
<1>1. Taken(start) = {}
  BY DEF Taken
<1>2. \A K : TakenFor(start, K) = {} /\ KeyedBy({}, key, K) = {}
  BY <1>1 DEF TakenFor, KeyedBy
<1>3. IsFiniteSet({})
  BY FS_EmptySet
<1>4. start.keys = {key[x] : x \in {}} \ {NoKey}
  OBVIOUS
<1> QED BY <1>1, <1>2, <1>3, <1>4, Zenon DEF PlacedSoFar

(* All tables of a candidate.                                              *)
WithPairs(S, i, n) == S \cup {<<i, k>> : k \in 1..n}

LEMMA TablesArePlaced ==
    ASSUME NEW start, NEW acc, NEW S, NEW key, PlacedSoFar(start, acc, S, key),
           NEW tables, NEW i, Len(tables) \in Nat,
           \A k \in 1..Len(tables) : <<i, k>> \notin S /\ key[<<i, k>>] = TableKey(tables[k])
    PROVE  PlacedSoFar(start, PlaceTables(acc, tables), WithPairs(S, i, Len(tables)), key)
<1> DEFINE N == Len(tables)
           after == CHOOSE f : f = [n \in 0..N |->
                          IF n = 0 THEN acc ELSE PlaceTable(f[n - 1], tables[n])]
           Done(n) == S \cup {<<i, k>> : k \in 1..n}
           T == {n \in Nat : n <= N => PlacedSoFar(start, after[n], Done(n), key)}
<1>0. N \in Nat
  OBVIOUS
<1>1. PlaceTables(acc, tables) = after[N]
  BY Zenon DEF PlaceTables
<1>2. after = [n \in 0..N |-> IF n = 0 THEN acc ELSE PlaceTable(after[n - 1], tables[n])]
  <2>1. \E f : TablesPlaced(acc, tables, N, f)
    BY <1>0, PlaceTablesAfter, Zenon
  <2> QED BY <2>1, Zenon DEF TablesPlaced
<1> HIDE DEF after
<1>3. 0 \in T
  <2>1. after[0] = acc
    BY <1>0, <1>2
  <2>2. Done(0) = S
    OBVIOUS
  <2> HIDE DEF Done
  <2> QED BY <2>1, <2>2
<1>4. ASSUME NEW n \in Nat, n \in T PROVE n + 1 \in T
  <2> SUFFICES ASSUME n + 1 <= N PROVE PlacedSoFar(start, after[n + 1], Done(n + 1), key)
    OBVIOUS
  <2>1. n + 1 \in 0..N /\ n + 1 # 0 /\ (n + 1) - 1 = n /\ n + 1 \in 1..N /\ n <= N
    BY <1>0
  <2>2. after[n + 1] = PlaceTable(after[n], tables[n + 1])
    BY <1>2, <2>1, Zenon
  <2>3. PlacedSoFar(start, after[n], Done(n), key)
    BY <1>4, <2>1
  <2> DEFINE x == <<i, n + 1>>
             t == tables[n + 1]
             new == after[n + 1]
  <2>4. Done(n + 1) = Done(n) \cup {x}
    <3>1. 1..(n + 1) = (1..n) \cup {n + 1}
      OBVIOUS
    <3> QED BY <3>1
  <2>5. x \notin Done(n) /\ key[x] = TableKey(t)
    <3>1. x \notin S /\ key[x] = TableKey(t)
      BY <2>1
    <3>2. \A k \in 1..n : x # <<i, k>>
      OBVIOUS
    <3> QED BY <3>1, <3>2
  <2>6. PdfAcc(after[n])
    BY <2>3, Zenon DEF PlacedSoFar
  <2>7. PdfAcc(new) /\ \E np : PlacedAt(after[n], new, t, np)
    BY <2>2, <2>6, TablePlaced
  <2> HIDE DEF Done, x, t, new
  <2>8. PlacedSoFar(start, new, Done(n) \cup {x}, key)
    BY <2>3, <2>5, <2>7, OneMorePlaced, Zenon
  <2> QED BY <2>4, <2>8 DEF new
<1>5. N \in T
  <2> HIDE DEF T
  <2> QED BY <1>0, <1>3, <1>4, SetInduction, Zenon
<1>6. PlacedSoFar(start, after[N], Done(N), key)
  BY <1>0, <1>5
<1> QED BY <1>1, <1>6, Zenon DEF WithPairs

(* The tables of the candidates that have the selected name.               *)
Chosen(report, c) == c.ok /\ c.name = report.selected

ChosenUpTo(report, n) ==
    {x \in (1..n) \X Nat : /\ Chosen(report, report.candidates[x[1]])
                           /\ x[2] \in 1..Len(report.candidates[x[1]].tables)}

ChosenKey(report) ==
    [x \in Nat \X Nat |-> TableKey(CandidateTables(report.candidates[x[1]])[x[2]])]

LEMMA OneMoreCandidate ==
    ASSUME NEW report, NEW n \in Nat
    PROVE  LET new == {<<n + 1, k>> : k \in 1..Len(report.candidates[n + 1].tables)}
           IN  /\ Chosen(report, report.candidates[n + 1]) =>
                     ChosenUpTo(report, n + 1) = ChosenUpTo(report, n) \cup new
               /\ ~Chosen(report, report.candidates[n + 1]) =>
                     ChosenUpTo(report, n + 1) = ChosenUpTo(report, n)
<1> DEFINE c == report.candidates[n + 1]
           L == Len(c.tables)
           new == {<<n + 1, k>> : k \in 1..L}
           A == ChosenUpTo(report, n)
           B == ChosenUpTo(report, n + 1)
           In(x) == /\ Chosen(report, report.candidates[x[1]])
                    /\ x[2] \in 1..Len(report.candidates[x[1]].tables)
<1>1. A = {x \in (1..n) \X Nat : In(x)} /\ B = {x \in (1..(n + 1)) \X Nat : In(x)}
  BY DEF ChosenUpTo
<1>2. 1..(n + 1) = (1..n) \cup {n + 1} /\ n + 1 \notin 1..n
  OBVIOUS
<1>3. \A k : In(<<n + 1, k>>) <=> Chosen(report, c) /\ k \in 1..L
  OBVIOUS
<1> HIDE DEF A, B, In, L
<1>4. B \subseteq A \cup {<<n + 1, k>> : k \in {j \in Nat : In(<<n + 1, j>>)}}
  <2> SUFFICES ASSUME NEW x \in B, x \notin A
               PROVE  \E k \in Nat : x = <<n + 1, k>> /\ In(<<n + 1, k>>)
    OBVIOUS
  <2>1. PICK i \in 1..(n + 1), k \in Nat : x = <<i, k>>
    BY <1>1
  <2>2. i = n + 1 /\ In(<<i, k>>)
    BY <1>1, <1>2, <2>1
  <2> QED BY <2>1, <2>2
<1>5. A \subseteq B
  BY <1>1
<1>6. ASSUME NEW k \in Nat, In(<<n + 1, k>>) PROVE <<n + 1, k>> \in B
  BY <1>1, <1>6
<1>7. CASE Chosen(report, c)
  <2>1. \A k \in 1..L : In(<<n + 1, k>>) /\ k \in Nat
    BY <1>3, <1>7
  <2>2. \A x \in new : x \in B
    BY <1>6, <2>1
  <2>3. \A x \in B : x \in A \cup new
    BY <1>3, <1>4
  <2>4. B = A \cup new
    BY <1>5, <2>2, <2>3
  <2> QED BY <1>7, <2>4 DEF A, B, L
<1>8. CASE ~Chosen(report, c)
  <2>1. B = A
    BY <1>3, <1>4, <1>5, <1>8
  <2> QED BY <1>8, <2>1 DEF A, B
<1> QED BY <1>7, <1>8

LEMMA SelectedArePlaced ==
    ASSUME NEW start, NEW report, TablesListed(report),
           PlacedSoFar(start, start, {}, ChosenKey(report))
    PROVE  PlacedSoFar(start, PlaceSelected(start, report),
                       ChosenUpTo(report, Len(report.candidates)), ChosenKey(report))
<1> DEFINE N == Len(report.candidates)
           key == ChosenKey(report)
           after == CHOOSE f : f = [n \in 0..N |->
                          IF n = 0 THEN start ELSE PlaceCandidate(f[n - 1], report, n)]
           T == {n \in Nat : n <= N => PlacedSoFar(start, after[n], ChosenUpTo(report, n), key)}
<1>0. N \in Nat /\ DOMAIN report.candidates = 1..N
  BY DEF TablesListed, Listed
<1>1. PlaceSelected(start, report) = after[N]
  BY Zenon DEF PlaceSelected
<1>2. after = [n \in 0..N |-> IF n = 0 THEN start ELSE PlaceCandidate(after[n - 1], report, n)]
  <2>1. \E f : CandidatesPlaced(start, report, N, f)
    BY <1>0, PlaceSelectedAfter, Zenon
  <2> QED BY <2>1, Zenon DEF CandidatesPlaced
<1> HIDE DEF after, N, key
<1>3. 0 \in T
  <2>1. 0 \in 0..N
    BY <1>0
  <2>2. after[0] = start
    BY <1>2, <2>1, Zenon
  <2>3. ChosenUpTo(report, 0) = {}
    BY DEF ChosenUpTo
  <2>4. PlacedSoFar(start, after[0], ChosenUpTo(report, 0), key)
    BY <2>2, <2>3 DEF key
  <2> QED BY <2>4
<1>4. ASSUME NEW n \in Nat, n \in T PROVE n + 1 \in T
  <2> SUFFICES ASSUME n + 1 <= N
               PROVE  PlacedSoFar(start, after[n + 1], ChosenUpTo(report, n + 1), key)
    OBVIOUS
  <2>1. n + 1 \in 0..N /\ n + 1 # 0 /\ (n + 1) - 1 = n /\ n + 1 \in 1..N
    BY <1>0
  <2>2. after[n + 1] = PlaceCandidate(after[n], report, n + 1)
    BY <1>2, <2>1, Zenon
  <2>3. PlacedSoFar(start, after[n], ChosenUpTo(report, n), key)
    BY <1>0, <1>4
  <2> DEFINE c == report.candidates[n + 1]
             ts == CandidateTables(c)
             L == Len(c.tables)
             new == {<<n + 1, k>> : k \in 1..L}
             A == ChosenUpTo(report, n)
             B == ChosenUpTo(report, n + 1)
  <2>4. Listed(c.tables)
    BY <1>0, <2>1, Zenon DEF TablesListed
  <2>5. L \in Nat /\ Len(ts) = L
    <3>1. L \in Nat /\ DOMAIN c.tables = 1..L
      BY <2>4 DEF Listed
    <3>2. ts = [k \in 1..L |-> ts[k]]
      BY <3>1 DEF CandidateTables
    <3> HIDE DEF ts, L
    <3> QED BY <3>1, <3>2, FunctionIsListed, Zenon
  <2>6. CASE ~Chosen(report, c)
    <3>1. after[n + 1] = after[n]
      BY <2>2, <2>6, Zenon DEF PlaceCandidate, Chosen
    <3>2. ChosenUpTo(report, n + 1) = ChosenUpTo(report, n)
      BY <2>6, OneMoreCandidate
    <3> QED BY <2>3, <3>1, <3>2
  <2>7. CASE Chosen(report, c)
    <3>1. after[n + 1] = PlaceTables(after[n], ts)
      BY <2>2, <2>7, Zenon DEF PlaceCandidate, Chosen
    <3>2. B = A \cup new
      BY <2>7, OneMoreCandidate
    <3>3. ASSUME NEW k \in 1..Len(ts)
          PROVE  <<n + 1, k>> \notin ChosenUpTo(report, n) /\ key[<<n + 1, k>>] = TableKey(ts[k])
      <4>1. n + 1 \notin 1..n /\ n + 1 \in Nat /\ k \in Nat
        BY <2>5
      <4>2. <<n + 1, k>> \notin ChosenUpTo(report, n)
        BY <4>1 DEF ChosenUpTo
      <4>3. key[<<n + 1, k>>] = TableKey(ts[k])
        BY <4>1 DEF key, ChosenKey
      <4> QED BY <4>2, <4>3
    <3> DEFINE fresh == {<<n + 1, k>> : k \in 1..Len(ts)}
    <3>4. PlacedSoFar(start, PlaceTables(after[n], ts), A \cup fresh, key)
      <4>1. Len(ts) \in Nat
        BY <2>5
      <4> HIDE DEF ts, L
      <4> DEFINE acc == after[n]
                 S == ChosenUpTo(report, n)
      <4>2. PlacedSoFar(start, acc, S, key)
        BY <2>3
      <4>3. \A k \in 1..Len(ts) : <<n + 1, k>> \notin S /\ key[<<n + 1, k>>] = TableKey(ts[k])
        BY <3>3
      <4> HIDE DEF acc, S
      <4> DEFINE i == n + 1
      <4> HIDE DEF i
      <4>4. \A k \in 1..Len(ts) : <<i, k>> \notin S /\ key[<<i, k>>] = TableKey(ts[k])
        BY <4>3 DEF i
      <4>5. PlacedSoFar(start, PlaceTables(acc, ts), S \cup {<<i, k>> : k \in 1..Len(ts)}, key)
        <5>1. PlacedSoFar(start, PlaceTables(acc, ts), WithPairs(S, i, Len(ts)), key)
          BY <4>1, <4>2, <4>4, TablesArePlaced, Zenon
        <5> QED BY <5>1, Zenon DEF WithPairs
      <4> QED BY <4>5 DEF acc, S, i
    <3>5. fresh = new
      <4> HIDE DEF ts, L
      <4> QED BY <2>5
    <3> HIDE DEF ts, A, B, fresh, new
    <3>6. PlacedSoFar(start, after[n + 1], B, key)
      BY <3>1, <3>2, <3>4, <3>5
    <3> QED BY <3>6 DEF B
  <2> QED BY <2>6, <2>7
<1>5. N \in T
  <2> HIDE DEF T
  <2> QED BY <1>0, <1>3, <1>4, SetInduction, Zenon
<1>6. PlacedSoFar(start, after[N], ChosenUpTo(report, N), key)
  BY <1>0, <1>5
<1> QED BY <1>1, <1>6 DEF N, key

-----------------------------------------------------------------------------
(* Dropping the stale fragments.                                           *)
Stale(acc) == {pl \in acc.free : KeyAt(acc.pages, pl) \in acc.keys}

KeptOn(acc, p) == {k \in DOMAIN acc.pages[p].fragments : SpotOf(p, k) \notin Stale(acc)}

LEMMA PickedFrom ==
    ASSUME NEW s, Listed(s), NEW P \in SUBSET DOMAIN s
    PROVE  LET at == Ascending(P)
           IN  /\ DOMAIN Picked(s, P) = 1..Cardinality(P) /\ Cardinality(P) \in Nat
               /\ IsFiniteSet(P)
               /\ Listed(Picked(s, P))
               /\ \A k \in 1..Cardinality(P) : at[k] \in P /\ Picked(s, P)[k] = s[at[k]]
               /\ \A j, k \in 1..Cardinality(P) : at[j] = at[k] => j = k
               /\ \A n \in P : \E k \in 1..Cardinality(P) : at[k] = n
<1> DEFINE at == Ascending(P)
           N == Cardinality(P)
<1>1. IsFiniteSet(P) /\ P \in SUBSET Nat
  <2>1. DOMAIN s = 1..Len(s) /\ Len(s) \in Nat
    BY DEF Listed
  <2>2. IsFiniteSet(1..Len(s))
    BY <2>1, FS_Interval
  <2>3. IsFiniteSet(P)
    BY <2>1, <2>2, FS_Subset
  <2> QED BY <2>1, <2>3
<1>2. /\ N \in Nat /\ DOMAIN at = 1..N
      /\ \A k \in 1..N : at[k] \in P
      /\ \A j, k \in 1..N : j < k => at[j] < at[k]
      /\ \A n \in P : \E k \in 1..N : at[k] = n
  BY <1>1, AscendingIs
<1>3. Picked(s, P) = [k \in 1..N |-> s[at[k]]]
  BY DEF Picked
<1>4. Listed(Picked(s, P))
  BY PickedIs
<1> HIDE DEF at, N
<1>5. ASSUME NEW j \in 1..N, NEW k \in 1..N, at[j] = at[k] PROVE j = k
  <2>1. j < k \/ k < j \/ j = k
    BY <1>2
  <2>2. at[j] \in Nat /\ at[k] \in Nat
    BY <1>1, <1>2
  <2> QED BY <1>2, <1>5, <2>1, <2>2
<1>6. DOMAIN Picked(s, P) = 1..N /\ \A k \in 1..N : Picked(s, P)[k] = s[at[k]]
  BY <1>3
<1> QED BY <1>1, <1>2, <1>4, <1>5, <1>6 DEF at, N

LEMMA RegionsStayEmpty ==
    ASSUME NEW page, PageShape(page), page.regions = <<>>, NEW fs
    PROVE  [page EXCEPT !.fragments = fs, !.regions = <<>>] = [page EXCEPT !.fragments = fs]
<1> DEFINE a == page.number
           b == page.sized
           c == page.unit
           d == page.fragments
           e == page.regions
           both == [page EXCEPT !.fragments = fs, !.regions = e]
           one == [page EXCEPT !.fragments = fs]
<1>1. page = [number |-> a, sized |-> b, unit |-> c, fragments |-> d, regions |-> e]
  BY Zenon DEF PageShape
<1> HIDE DEF a, b, c, d, e
<1>11. both = [page EXCEPT !.fragments = fs, !.regions = e]
  OBVIOUS
<1>2. both = [number |-> a, sized |-> b, unit |-> c, fragments |-> fs, regions |-> e]
  <2> HIDE DEF both
  <2> QED BY <1>1, <1>11
<1>3. one = [number |-> a, sized |-> b, unit |-> c, fragments |-> fs, regions |-> e]
  BY <1>1
<1> HIDE DEF both, one
<1>4. both = one
  BY <1>2, <1>3
<1>5. [page EXCEPT !.fragments = fs, !.regions = e] = one
  BY <1>4 DEF both
<1>6. e = <<>>
  BY DEF e
<1> QED BY <1>5, <1>6, Zenon DEF one

LEMMA DroppedIs ==
    ASSUME NEW acc, PdfAcc(acc), \A p \in DOMAIN acc.pages : KeptOn(acc, p) # {}
    PROVE  LET new == DropStale(acc)
           IN  /\ OwnPages(new) /\ DOMAIN new = DOMAIN acc.pages
               /\ \A p \in DOMAIN acc.pages :
                     /\ new[p].number = acc.pages[p].number
                     /\ new[p].fragments = Picked(acc.pages[p].fragments, KeptOn(acc, p))
<1> DEFINE pages == acc.pages
           stale == {pl \in acc.free : KeyAt(acc.pages, pl) \in acc.keys}
           kept(p, c) == Picked(pages[p][c], {k \in DOMAIN pages[p][c] : <<p, c, k>> \notin stale})
           page(p) == [pages[p] EXCEPT !.fragments = kept(p, "fragments"),
                                       !.regions = kept(p, "regions")]
           new == DropStale(acc)
<1>1. new = [p \in DOMAIN pages |-> page(p)]
  BY Zenon DEF DropStale
<1>2. OwnPages(pages)
  BY DEF PdfAcc
<1>3. ASSUME NEW p \in DOMAIN pages
      PROVE  /\ OwnPage(page(p)) /\ page(p).number = pages[p].number
             /\ page(p).fragments = Picked(pages[p].fragments, KeptOn(acc, p))
  <2> DEFINE old == pages[p]
             P == KeptOn(acc, p)
             fs == Picked(old.fragments, P)
  <2>1. OwnPage(old) /\ old.regions = <<>>
    BY <1>2 DEF OwnPages, OwnPage
  <2>2. kept(p, "fragments") = fs
    BY DEF KeptOn, SpotOf, Stale
  <2>3. kept(p, "regions") = <<>>
    <3> DEFINE Q == {k \in DOMAIN old.regions : <<p, "regions", k>> \notin stale}
    <3>1. Q = {}
      BY <2>1
    <3>2. kept(p, "regions") = Picked(<<>>, {})
      BY <2>1, <3>1
    <3>3. Listed(<<>>) /\ {} \in SUBSET DOMAIN <<>>
      BY DEF Listed
    <3> DEFINE e == Picked(<<>>, {})
    <3>4. Listed(e) /\ DOMAIN e = 1..Cardinality({})
      BY <3>3, PickedFrom
    <3>5. Cardinality({}) = 0
      BY FS_EmptySet
    <3> HIDE DEF e
    <3>6. DOMAIN e = {}
      BY <3>4, <3>5
    <3>7. e = <<>>
      BY <3>4, <3>6, EmptyIfNoDomain
    <3> QED BY <3>2, <3>7 DEF e
  <2>4. page(p) = [old EXCEPT !.fragments = fs, !.regions = <<>>]
    BY <2>2, <2>3
  <2>5. [old EXCEPT !.fragments = fs, !.regions = <<>>] = [old EXCEPT !.fragments = fs]
    <3> HIDE DEF fs
    <3> QED BY <2>1, RegionsStayEmpty, Zenon DEF OwnPage
  <2>6. /\ Listed(old.fragments)
        /\ \A k \in DOMAIN old.fragments : OwnFragment(old.fragments[k], old.number)
    BY <2>1, OwnPageFragments
  <2>7. P # {} /\ P \in SUBSET DOMAIN old.fragments
    BY DEF KeptOn
  <2> HIDE DEF old, P, fs, page
  <2>8. /\ Listed(fs) /\ \A k \in DOMAIN fs : \E n \in P : fs[k] = old.fragments[n]
        /\ \A n \in P : \E k \in DOMAIN fs : fs[k] = old.fragments[n]
    BY <2>6, <2>7, PickedIs DEF fs
  <2>9. \A k \in DOMAIN fs : OwnFragment(fs[k], old.number)
    BY <2>6, <2>7, <2>8
  <2>10. fs # <<>>
    BY <2>7, <2>8
  <2> DEFINE g == [old EXCEPT !.fragments = fs]
  <2>11. OwnPage(g) /\ g.number = old.number /\ g.fragments = fs
    BY <2>1, <2>8, <2>9, <2>10, FragmentsMakeOwnPage
  <2> HIDE DEF g
  <2>12. page(p) = g
    BY <2>4, <2>5 DEF g
  <2>13. OwnPage(page(p)) /\ page(p).number = old.number /\ page(p).fragments = fs
    BY <2>11, <2>12
  <2> QED BY <2>13 DEF old, fs, P
<1> HIDE DEF page, new
<1>4. DOMAIN new = DOMAIN pages /\ \A p \in DOMAIN pages : new[p] = page(p)
  BY <1>1
<1>5. Listed(new)
  <2>1. new = [p \in DOMAIN pages |-> new[p]]
    BY <1>1
  <2> QED BY <1>2, <2>1, ChangeIsListed, Zenon DEF OwnPages
<1>6. OwnPages(new)
  <2>1. \A p \in DOMAIN pages : new[p].number = pages[p].number /\ OwnPage(new[p])
    BY <1>3, <1>4
  <2> QED BY <1>2, <1>4, <1>5, <2>1 DEF OwnPages
<1>7. \A p \in DOMAIN pages :
         /\ new[p].number = pages[p].number
         /\ new[p].fragments = Picked(pages[p].fragments, KeptOn(acc, p))
  BY <1>3, <1>4
<1> QED BY <1>4, <1>6, <1>7 DEF new, pages

(* A page always keeps a fragment: one is dropped only if another with the *)
(* same key was taken on the same page.                                    *)
LEMMA PagesKeepFragments ==
    ASSUME NEW start, NEW acc, NEW S, NEW key, PlacedSoFar(start, acc, S, key)
    PROVE  \A p \in DOMAIN acc.pages : KeptOn(acc, p) # {}
<1> DEFINE pages == acc.pages
<1>1. /\ PdfAcc(acc) /\ OwnPages(pages)
      /\ acc.keys = {key[x] : x \in S} \ {NoKey}
      /\ IsFiniteSet(S) /\ IsFiniteSet(Taken(acc))
      /\ \A K : K # NoKey => Cardinality(TakenFor(acc, K)) = Cardinality(KeyedBy(S, key, K))
  BY Zenon DEF PlacedSoFar, PdfAcc
<1> SUFFICES ASSUME NEW p \in DOMAIN pages PROVE KeptOn(acc, p) # {}
  OBVIOUS
<1>2. 1 \in DOMAIN pages[p].fragments
  <2>1. OwnPage(pages[p])
    BY <1>1 DEF OwnPages
  <2>2. Listed(pages[p].fragments) /\ pages[p].fragments # <<>>
    BY <2>1, OwnPageFragments DEF OwnPage
  <2> QED BY <2>2, NonemptyHasFirst
<1>3. CASE SpotOf(p, 1) \notin Stale(acc)
  <2>1. 1 \in KeptOn(acc, p)
    BY <1>2, <1>3 DEF KeptOn
  <2> QED BY <2>1
<1>4. CASE SpotOf(p, 1) \in Stale(acc)
  <2> DEFINE K == KeyAt(pages, SpotOf(p, 1))
  <2>1. K \in acc.keys /\ K # NoKey
    BY <1>1, <1>4 DEF Stale, PdfAcc
  <2>2. K = KeyOn(pages[p].number, pages[p].fragments[1])
    BY <1>1, <1>2, OwnPagesPlaces, Zenon
  <2> HIDE DEF K
  <2>3. PICK x \in S : key[x] = K
    BY <1>1, <2>1
  <2>4. KeyedBy(S, key, K) # {} /\ IsFiniteSet(KeyedBy(S, key, K))
    <3>1. x \in KeyedBy(S, key, K) /\ KeyedBy(S, key, K) \subseteq S
      BY <2>3 DEF KeyedBy
    <3> QED BY <1>1, <3>1, FS_Subset
  <2>5. Cardinality(KeyedBy(S, key, K)) # 0
    BY <2>4, FS_EmptySet
  <2>6. TakenFor(acc, K) # {}
    BY <1>1, <2>1, <2>5, FS_EmptySet
  <2>7. PICK pl \in Taken(acc) : KeyAt(pages, pl) = K
    BY <2>6 DEF TakenFor
  <2>8. pl \in Places(pages) /\ pl \notin acc.free
    BY <2>7 DEF Taken
  <2>9. PICK q \in DOMAIN pages : \E k \in DOMAIN pages[q].fragments : pl = SpotOf(q, k)
    BY <1>1, <2>8, OwnPagesPlaces, Zenon
  <2>10. PICK k \in DOMAIN pages[q].fragments : pl = SpotOf(q, k)
    BY <2>9
  <2>11. K = KeyOn(pages[q].number, pages[q].fragments[k])
    BY <1>1, <2>7, <2>10, OwnPagesPlaces, Zenon
  <2>12. pages[q].number = pages[p].number
    BY <2>1, <2>2, <2>11 DEF KeyOn
  <2>13. q = p
    BY <1>1, <2>12 DEF OwnPages
  <2>14. k \in KeptOn(acc, p)
    BY <2>8, <2>10, <2>13 DEF KeptOn, Stale
  <2> QED BY <2>14
<1> QED BY <1>3, <1>4

LEMMA SameSize ==
    ASSUME NEW A, NEW B, NEW f, f \in [A -> B], IsFiniteSet(B),
           \A x, y \in A : f[x] = f[y] => x = y,
           \A y \in B : \E x \in A : f[x] = y
    PROVE  IsFiniteSet(A) /\ Cardinality(A) = Cardinality(B)
<1>1. f \in Injection(A, B) /\ f \in Surjection(A, B)
  BY DEF Injection, Surjection, IsInjective
<1>2. /\ IsFiniteSet(A)
      /\ Cardinality(A) = Cardinality(B) <=> f \in Surjection(A, B)
  BY <1>1, FS_Injection
<1> QED BY <1>1, <1>2

\* The places a key is found at.
PlacesWith(pages, K) == {pl \in Places(pages) : KeyAt(pages, pl) = K}

\* Where a fragment that was kept came from.
CameFrom(acc, pl) == SpotOf(pl[1], Ascending(KeptOn(acc, pl[1]))[pl[3]])

LEMMA KeptPlace ==
    ASSUME NEW acc, PdfAcc(acc), \A p \in DOMAIN acc.pages : KeptOn(acc, p) # {},
           NEW p \in DOMAIN acc.pages, NEW new, new = DropStale(acc)
    PROVE  LET old == acc.pages[p].fragments
               at == Ascending(KeptOn(acc, p))
           IN  /\ \A k \in DOMAIN new[p].fragments :
                     /\ at[k] \in DOMAIN old /\ SpotOf(p, at[k]) \notin Stale(acc)
                     /\ new[p].fragments[k] = old[at[k]]
                     /\ CameFrom(acc, SpotOf(p, k)) = SpotOf(p, at[k])
                     /\ KeyAt(new, SpotOf(p, k)) = KeyAt(acc.pages, SpotOf(p, at[k]))
               /\ \A j, k \in DOMAIN new[p].fragments : at[j] = at[k] => j = k
               /\ \A n \in DOMAIN old : SpotOf(p, n) \notin Stale(acc) =>
                     \E k \in DOMAIN new[p].fragments : at[k] = n
<1> DEFINE old == acc.pages[p].fragments
           P == KeptOn(acc, p)
           at == Ascending(P)
           N == Cardinality(P)
<1>1. /\ OwnPages(new) /\ DOMAIN new = DOMAIN acc.pages
      /\ new[p].number = acc.pages[p].number
      /\ new[p].fragments = Picked(old, P)
  BY DroppedIs
<1>2. OwnPages(acc.pages) /\ Listed(old)
  <2>1. OwnPages(acc.pages) /\ OwnPage(acc.pages[p])
    BY Zenon DEF PdfAcc, OwnPages
  <2> QED BY <2>1, OwnPageFragments
<1>3. /\ P \in SUBSET DOMAIN old
      /\ \A n \in P : SpotOf(p, n) \notin Stale(acc)
      /\ \A n \in DOMAIN old : SpotOf(p, n) \notin Stale(acc) => n \in P
  BY DEF KeptOn
<1> HIDE DEF old, P
<1>4. /\ DOMAIN Picked(old, P) = 1..N
      /\ \A k \in 1..N : at[k] \in P /\ Picked(old, P)[k] = old[at[k]]
      /\ \A j, k \in 1..N : at[j] = at[k] => j = k
      /\ \A n \in P : \E k \in 1..N : at[k] = n
  BY <1>2, <1>3, PickedFrom
<1> HIDE DEF at, N
<1>5. DOMAIN new[p].fragments = 1..N /\ \A k \in 1..N : new[p].fragments[k] = old[at[k]]
  BY <1>1, <1>4
<1>6. ASSUME NEW k \in 1..N
      PROVE  /\ CameFrom(acc, SpotOf(p, k)) = SpotOf(p, at[k])
             /\ KeyAt(new, SpotOf(p, k)) = KeyAt(acc.pages, SpotOf(p, at[k]))
  <2>1. CameFrom(acc, SpotOf(p, k)) = SpotOf(p, at[k])
    BY AtPlace DEF CameFrom, at, P
  <2>2. KeyAt(new, SpotOf(p, k)) = KeyOn(new[p].number, new[p].fragments[k])
    <3>1. p \in DOMAIN new /\ k \in DOMAIN new[p].fragments
      BY <1>1, <1>5
    <3> QED BY <1>1, <3>1, OwnPagesPlaces, Zenon
  <2>3. at[k] \in DOMAIN old
    BY <1>3, <1>4
  <2>4. KeyAt(acc.pages, SpotOf(p, at[k])) = KeyOn(acc.pages[p].number, old[at[k]])
    BY <1>2, <2>3, OwnPagesPlaces DEF old
  <2> QED BY <1>1, <1>5, <2>1, <2>2, <2>4
<1>7. \A k \in DOMAIN new[p].fragments :
         /\ at[k] \in DOMAIN old /\ SpotOf(p, at[k]) \notin Stale(acc)
         /\ new[p].fragments[k] = old[at[k]]
         /\ CameFrom(acc, SpotOf(p, k)) = SpotOf(p, at[k])
         /\ KeyAt(new, SpotOf(p, k)) = KeyAt(acc.pages, SpotOf(p, at[k]))
  BY <1>3, <1>4, <1>5, <1>6
<1>8. \A j, k \in DOMAIN new[p].fragments : at[j] = at[k] => j = k
  BY <1>4, <1>5
<1>9. \A n \in DOMAIN old : SpotOf(p, n) \notin Stale(acc) =>
         \E k \in DOMAIN new[p].fragments : at[k] = n
  BY <1>3, <1>4, <1>5
<1> QED BY <1>7, <1>8, <1>9 DEF old, at, P

LEMMA DroppedPlaces ==
    ASSUME NEW start, NEW acc, NEW S, NEW key, PlacedSoFar(start, acc, S, key),
           NEW K \in acc.keys
    PROVE  /\ IsFiniteSet(PlacesWith(DropStale(acc), K))
           /\ Cardinality(PlacesWith(DropStale(acc), K)) = Cardinality(KeyedBy(S, key, K))
<1> DEFINE pages == acc.pages
           new == DropStale(acc)
           A == PlacesWith(new, K)
           B == TakenFor(acc, K)
           f == [pl \in A |-> CameFrom(acc, pl)]
<1>1. /\ PdfAcc(acc) /\ OwnPages(pages) /\ K # NoKey
      /\ IsFiniteSet(Taken(acc))
      /\ K # NoKey => Cardinality(B) = Cardinality(KeyedBy(S, key, K))
      /\ \A p \in DOMAIN pages : KeptOn(acc, p) # {}
  BY PagesKeepFragments, Zenon DEF PlacedSoFar, PdfAcc
<1>2. IsFiniteSet(B)
  <2>1. B \in SUBSET Taken(acc)
    BY DEF TakenFor
  <2> QED BY <1>1, <2>1, FS_Subset
<1>3. OwnPages(new) /\ DOMAIN new = DOMAIN pages
  BY <1>1, DroppedIs
<1>4. \A pl \in Places(new) : \E p \in DOMAIN pages :
         \E k \in DOMAIN new[p].fragments : pl = SpotOf(p, k)
  BY <1>3, OwnPagesPlaces
<1>5. \A pl \in Places(pages) : \E p \in DOMAIN pages :
         \E k \in DOMAIN pages[p].fragments : pl = SpotOf(p, k)
  BY <1>1, OwnPagesPlaces
<1>6. ASSUME NEW p \in DOMAIN pages
      PROVE  /\ \A k \in DOMAIN new[p].fragments : \E n \in DOMAIN pages[p].fragments :
                   /\ CameFrom(acc, SpotOf(p, k)) = SpotOf(p, n)
                   /\ SpotOf(p, n) \notin Stale(acc)
                   /\ KeyAt(new, SpotOf(p, k)) = KeyAt(pages, SpotOf(p, n))
             /\ \A j, k \in DOMAIN new[p].fragments :
                   CameFrom(acc, SpotOf(p, j)) = CameFrom(acc, SpotOf(p, k)) => j = k
             /\ \A n \in DOMAIN pages[p].fragments : SpotOf(p, n) \notin Stale(acc) =>
                   \E k \in DOMAIN new[p].fragments : CameFrom(acc, SpotOf(p, k)) = SpotOf(p, n)
  <2> DEFINE at == Ascending(KeptOn(acc, p))
  <2>1. /\ \A k \in DOMAIN new[p].fragments :
                     /\ at[k] \in DOMAIN pages[p].fragments /\ SpotOf(p, at[k]) \notin Stale(acc)
                     /\ CameFrom(acc, SpotOf(p, k)) = SpotOf(p, at[k])
                     /\ KeyAt(new, SpotOf(p, k)) = KeyAt(acc.pages, SpotOf(p, at[k]))
        /\ \A j, k \in DOMAIN new[p].fragments : at[j] = at[k] => j = k
        /\ \A n \in DOMAIN pages[p].fragments : SpotOf(p, n) \notin Stale(acc) =>
                     \E k \in DOMAIN new[p].fragments : at[k] = n
    BY <1>1, KeptPlace
  <2> HIDE DEF at, new
  <2>2. \A j, k : SpotOf(p, j) = SpotOf(p, k) => j = k
    BY SamePlace
  <2> QED BY <2>1, <2>2
<1>7. ASSUME NEW pl \in A
      PROVE  CameFrom(acc, pl) \in B
  <2>1. pl \in Places(new) /\ KeyAt(new, pl) = K
    BY DEF PlacesWith
  <2>2. PICK p \in DOMAIN pages : \E k \in DOMAIN new[p].fragments : pl = SpotOf(p, k)
    BY <1>4, <2>1
  <2>3. PICK k \in DOMAIN new[p].fragments : pl = SpotOf(p, k)
    BY <2>2
  <2>4. PICK n \in DOMAIN pages[p].fragments :
           /\ CameFrom(acc, pl) = SpotOf(p, n)
           /\ SpotOf(p, n) \notin Stale(acc)
           /\ K = KeyAt(pages, SpotOf(p, n))
    BY <1>6, <2>1, <2>3
  <2>5. SpotOf(p, n) \in Places(pages)
    BY <1>1, OwnPagesPlaces
  <2>6. SpotOf(p, n) \notin acc.free
    BY <2>4 DEF Stale
  <2> QED BY <1>1, <2>4, <2>5, <2>6 DEF TakenFor, Taken
<1>8. ASSUME NEW x \in A, NEW y \in A, CameFrom(acc, x) = CameFrom(acc, y)
      PROVE  x = y
  <2>1. x \in Places(new) /\ y \in Places(new)
    BY DEF PlacesWith
  <2>2. PICK p \in DOMAIN pages : \E k \in DOMAIN new[p].fragments : x = SpotOf(p, k)
    BY <1>4, <2>1
  <2>3. PICK k \in DOMAIN new[p].fragments : x = SpotOf(p, k)
    BY <2>2
  <2>4. PICK q \in DOMAIN pages : \E j \in DOMAIN new[q].fragments : y = SpotOf(q, j)
    BY <1>4, <2>1
  <2>5. PICK j \in DOMAIN new[q].fragments : y = SpotOf(q, j)
    BY <2>4
  <2>6. PICK n : CameFrom(acc, x) = SpotOf(p, n)
    BY <1>6, <2>3
  <2>7. PICK m : CameFrom(acc, y) = SpotOf(q, m)
    BY <1>6, <2>5
  <2>8. p = q
    BY <1>8, <2>6, <2>7, SamePlace
  <2> QED BY <1>6, <1>8, <2>3, <2>5, <2>8
<1>9. ASSUME NEW y \in B PROVE \E x \in A : CameFrom(acc, x) = y
  <2>1. y \in Places(pages) /\ y \notin acc.free /\ KeyAt(pages, y) = K
    BY DEF TakenFor, Taken
  <2>2. PICK p \in DOMAIN pages : \E n \in DOMAIN pages[p].fragments : y = SpotOf(p, n)
    BY <1>5, <2>1
  <2>3. PICK n \in DOMAIN pages[p].fragments : y = SpotOf(p, n)
    BY <2>2
  <2>4. SpotOf(p, n) \notin Stale(acc)
    BY <2>1, <2>3 DEF Stale
  <2>5. PICK k \in DOMAIN new[p].fragments : CameFrom(acc, SpotOf(p, k)) = SpotOf(p, n)
    BY <1>6, <2>4
  <2>6. SpotOf(p, k) \in Places(new)
    BY <1>3, OwnPagesPlaces
  <2>7. PICK m \in DOMAIN pages[p].fragments :
           /\ CameFrom(acc, SpotOf(p, k)) = SpotOf(p, m)
           /\ KeyAt(new, SpotOf(p, k)) = KeyAt(pages, SpotOf(p, m))
    BY <1>6
  <2>8. KeyAt(new, SpotOf(p, k)) = K
    BY <2>1, <2>3, <2>5, <2>7
  <2> QED BY <2>3, <2>5, <2>6, <2>8 DEF PlacesWith
<1> HIDE DEF A, B, new
<1>10. /\ f \in [A -> B]
       /\ \A x, y \in A : f[x] = f[y] => x = y
       /\ \A y \in B : \E x \in A : f[x] = y
  BY <1>7, <1>8, <1>9
<1> HIDE DEF f
<1>11. IsFiniteSet(A) /\ Cardinality(A) = Cardinality(B)
  BY <1>2, <1>10, SameSize
<1> QED BY <1>1, <1>11 DEF A, new

\* What is no table stays on its page.
LEMMA DroppedKeeps ==
    ASSUME NEW start, NEW acc, NEW S, NEW key, PlacedSoFar(start, acc, S, key),
           OwnPages(start.pages)
    PROVE  LET new == DropStale(acc)
           IN  /\ OwnPages(new) /\ DOMAIN start.pages \subseteq DOMAIN new
               /\ \A p \in DOMAIN start.pages :
                     /\ new[p].number = start.pages[p].number
                     /\ \A k \in DOMAIN start.pages[p].fragments :
                           start.pages[p].fragments[k].kind # "table" =>
                              \E j \in DOMAIN new[p].fragments :
                                 new[p].fragments[j] = start.pages[p].fragments[k]
<1> DEFINE pages == acc.pages
           old == start.pages
           new == DropStale(acc)
<1>1. /\ PdfAcc(acc) /\ OwnPages(pages) /\ NoKey \notin acc.keys
      /\ \A p \in DOMAIN pages : KeptOn(acc, p) # {}
  BY PagesKeepFragments, Zenon DEF PlacedSoFar, PdfAcc
<1>2. /\ DOMAIN old \subseteq DOMAIN pages
      /\ \A p \in DOMAIN old : pages[p].number = old[p].number
      /\ \A q \in Places(old) : KeyAt(old, q) = NoKey =>
            /\ q \in Places(pages) /\ At(pages, q) = At(old, q)
            /\ KeyAt(pages, q) = NoKey
  BY Zenon DEF PlacedSoFar
<1>3. OwnPages(new) /\ DOMAIN new = DOMAIN pages
      /\ \A p \in DOMAIN pages : new[p].number = pages[p].number
  BY <1>1, DroppedIs
<1>4. ASSUME NEW p \in DOMAIN old, NEW k \in DOMAIN old[p].fragments,
             old[p].fragments[k].kind # "table"
      PROVE  \E j \in DOMAIN new[p].fragments : new[p].fragments[j] = old[p].fragments[k]
  <2> DEFINE q == SpotOf(p, k)
  <2>1. q \in Places(old) /\ KeyAt(old, q) = KeyOn(old[p].number, old[p].fragments[k])
    BY OwnPagesPlaces
  <2>2. KeyAt(old, q) = NoKey
    BY <1>4, <2>1 DEF KeyOn
  <2>3. q \in Places(pages) /\ At(pages, q) = At(old, q) /\ KeyAt(pages, q) = NoKey
    BY <1>2, <2>1, <2>2
  <2>4. q \notin Stale(acc)
    BY <1>1, <2>3 DEF Stale
  <2>5. k \in DOMAIN pages[p].fragments
    <3>1. PICK i \in DOMAIN pages : \E j \in DOMAIN pages[i].fragments : q = SpotOf(i, j)
      BY <1>1, <2>3, OwnPagesPlaces, Zenon
    <3>2. PICK j \in DOMAIN pages[i].fragments : q = SpotOf(i, j)
      BY <3>1
    <3>3. p = i /\ k = j
      BY <3>2, SamePlace
    <3> QED BY <3>3
  <2>6. pages[p].fragments[k] = old[p].fragments[k]
    BY <2>3, AtPlace
  <2> DEFINE at == Ascending(KeptOn(acc, p))
  <2>7. p \in DOMAIN pages
    BY <1>2
  <2>8. /\ \A j \in DOMAIN new[p].fragments : new[p].fragments[j] = pages[p].fragments[at[j]]
        /\ \A n \in DOMAIN pages[p].fragments : SpotOf(p, n) \notin Stale(acc) =>
              \E j \in DOMAIN new[p].fragments : at[j] = n
    BY <1>1, <2>7, KeptPlace
  <2>9. PICK j \in DOMAIN new[p].fragments : at[j] = k
    BY <2>4, <2>5, <2>8
  <2> QED BY <2>6, <2>8, <2>9
<1>5. \A p \in DOMAIN old : new[p].number = old[p].number
  BY <1>2, <1>3
<1> HIDE DEF new
<1> QED BY <1>2, <1>3, <1>4, <1>5 DEF new

-----------------------------------------------------------------------------
(* From the text layer to the pages of the document.                       *)
LEMMA PlacesPreserved ==
    ASSUME NEW pages, NEW new, OwnPages(pages), OwnPages(new), PagesPreserved(pages, new), NEW K
    PROVE  PlacesWith(new, K) = PlacesWith(pages, K)
<1>1. /\ \A p \in DOMAIN pages : \A k \in DOMAIN pages[p].fragments :
            /\ SpotOf(p, k) \in Places(pages)
            /\ KeyAt(pages, SpotOf(p, k)) = KeyOn(pages[p].number, pages[p].fragments[k])
      /\ \A pl \in Places(pages) : \E p \in DOMAIN pages :
            \E k \in DOMAIN pages[p].fragments : pl = SpotOf(p, k)
  BY OwnPagesPlaces
<1>2. /\ \A p \in DOMAIN new : \A k \in DOMAIN new[p].fragments :
            /\ SpotOf(p, k) \in Places(new)
            /\ KeyAt(new, SpotOf(p, k)) = KeyOn(new[p].number, new[p].fragments[k])
      /\ \A pl \in Places(new) : \E p \in DOMAIN new :
            \E k \in DOMAIN new[p].fragments : pl = SpotOf(p, k)
  BY OwnPagesPlaces
<1>3. /\ DOMAIN new = DOMAIN pages
      /\ \A p \in DOMAIN pages :
            /\ new[p].number = pages[p].number
            /\ DOMAIN new[p].fragments = DOMAIN pages[p].fragments
            /\ \A k \in DOMAIN pages[p].fragments :
                  KeyOn(new[p].number, new[p].fragments[k])
                    = KeyOn(pages[p].number, pages[p].fragments[k])
  BY DEF PagesPreserved, Preserved, KeyOn
<1>4. ASSUME NEW p \in DOMAIN pages, NEW k \in DOMAIN pages[p].fragments
      PROVE  /\ SpotOf(p, k) \in Places(pages) /\ SpotOf(p, k) \in Places(new)
             /\ KeyAt(new, SpotOf(p, k)) = KeyAt(pages, SpotOf(p, k))
  BY <1>1, <1>2, <1>3
<1>5. ASSUME NEW pl \in PlacesWith(new, K) PROVE pl \in PlacesWith(pages, K)
  <2>1. pl \in Places(new) /\ KeyAt(new, pl) = K
    BY DEF PlacesWith
  <2>2. PICK p \in DOMAIN new : \E k \in DOMAIN new[p].fragments : pl = SpotOf(p, k)
    BY <1>2, <2>1
  <2>3. PICK k \in DOMAIN new[p].fragments : pl = SpotOf(p, k)
    BY <2>2
  <2> QED BY <1>3, <1>4, <2>1, <2>3 DEF PlacesWith
<1>6. ASSUME NEW pl \in PlacesWith(pages, K) PROVE pl \in PlacesWith(new, K)
  <2>1. pl \in Places(pages) /\ KeyAt(pages, pl) = K
    BY DEF PlacesWith
  <2>2. PICK p \in DOMAIN pages : \E k \in DOMAIN pages[p].fragments : pl = SpotOf(p, k)
    BY <1>1, <2>1
  <2>3. PICK k \in DOMAIN pages[p].fragments : pl = SpotOf(p, k)
    BY <2>2
  <2> QED BY <1>4, <2>1, <2>3 DEF PlacesWith
<1> QED BY <1>5, <1>6

\* Pages that hold the placeholder of every page without a text layer.
HeldPages(layer, pages) ==
    /\ OwnPages(pages)
    /\ DOMAIN layer \subseteq DOMAIN pages
    /\ \A p \in DOMAIN layer :
          /\ pages[p].number = p
          /\ layer[p] = <<>> => \E k \in DOMAIN pages[p].fragments :
                                   Placeholder(pages[p].fragments[k])

LEMMA HeldAfterwards ==
    ASSUME NEW layer, NEW pages, NEW new, HeldPages(layer, pages), OwnPages(new),
           PagesPreserved(pages, new)
    PROVE  HeldPages(layer, new)
<1>1. \A f, g : Placeholder(f) /\ Preserved(f, g) => Placeholder(g)
  BY DEF Placeholder, Preserved, NoNumber
<1>2. /\ DOMAIN new = DOMAIN pages
      /\ \A p \in DOMAIN pages :
            /\ new[p].number = pages[p].number
            /\ DOMAIN new[p].fragments = DOMAIN pages[p].fragments
            /\ \A k \in DOMAIN pages[p].fragments :
                  Preserved(pages[p].fragments[k], new[p].fragments[k])
  BY Zenon DEF PagesPreserved
<1>3. ASSUME NEW p \in DOMAIN layer
      PROVE  /\ p \in DOMAIN new /\ new[p].number = p
             /\ layer[p] = <<>> => \E k \in DOMAIN new[p].fragments :
                                      Placeholder(new[p].fragments[k])
  <2>1. /\ p \in DOMAIN pages /\ pages[p].number = p
        /\ layer[p] = <<>> => \E k \in DOMAIN pages[p].fragments :
                                 Placeholder(pages[p].fragments[k])
    BY DEF HeldPages
  <2> QED BY <1>1, <1>2, <2>1
<1> QED BY <1>3 DEF HeldPages

\* Every table of the selected extractor with cells is there as often as it
\* was extracted.
TablesHeld(report, pages) ==
    LET chosen == ChosenUpTo(report, Len(report.candidates))
        key == ChosenKey(report)
    IN  /\ IsFiniteSet(chosen)
        /\ \A x \in chosen : key[x] # NoKey =>
              /\ IsFiniteSet(PlacesWith(pages, key[x]))
              /\ Cardinality(PlacesWith(pages, key[x]))
                    = Cardinality(KeyedBy(chosen, key, key[x]))

LEMMA TablesReplaced ==
    ASSUME NEW layer, NEW pages, NEW report, TablesListed(report), HeldPages(layer, pages),
           NEW start,
           start = [pages |-> pages, free |-> {pl \in Places(pages) : KeyAt(pages, pl) # NoKey},
                    keys |-> {}]
    PROVE  LET new == DropStale(PlaceSelected(start, report))
           IN  HeldPages(layer, new) /\ TablesHeld(report, new)
<1> DEFINE key == ChosenKey(report)
           chosen == ChosenUpTo(report, Len(report.candidates))
           acc == PlaceSelected(start, report)
           new == DropStale(acc)
<1>1. OwnPages(pages)
  BY DEF HeldPages
<1>2. /\ start.pages = pages /\ start.keys = {}
      /\ \A pl \in Places(pages) : KeyAt(pages, pl) # NoKey => pl \in start.free
      /\ start.free \subseteq Places(pages)
      /\ \A pl \in start.free : KeyAt(pages, pl) # NoKey
      /\ start = [pages |-> start.pages, free |-> start.free, keys |-> start.keys]
  <2> DEFINE free == {pl \in Places(pages) : KeyAt(pages, pl) # NoKey}
  <2>1. /\ \A pl \in Places(pages) : KeyAt(pages, pl) # NoKey => pl \in free
        /\ free \subseteq Places(pages)
        /\ \A pl \in free : KeyAt(pages, pl) # NoKey
    OBVIOUS
  <2>2. start = [pages |-> pages, free |-> free, keys |-> {}]
    OBVIOUS
  <2> HIDE DEF free
  <2> QED BY <2>1, <2>2
<1>3. PdfAcc(start)
  BY <1>1, <1>2 DEF PdfAcc
<1>4. PlacedSoFar(start, start, {}, key)
  BY <1>2, <1>3, NothingPlaced
<1>5. PlacedSoFar(start, acc, chosen, key)
  BY <1>4, SelectedArePlaced
<1>6. OwnPages(start.pages)
  BY <1>1, <1>2
<1> HIDE DEF acc, chosen, key
<1>7. /\ OwnPages(new) /\ DOMAIN pages \subseteq DOMAIN new
      /\ \A p \in DOMAIN pages :
            /\ new[p].number = pages[p].number
            /\ \A k \in DOMAIN pages[p].fragments :
                  pages[p].fragments[k].kind # "table" =>
                     \E j \in DOMAIN new[p].fragments :
                        new[p].fragments[j] = pages[p].fragments[k]
  BY <1>2, <1>5, <1>6, DroppedKeeps
<1>8. ASSUME NEW x \in chosen, key[x] # NoKey
      PROVE  /\ IsFiniteSet(PlacesWith(new, key[x]))
             /\ Cardinality(PlacesWith(new, key[x])) = Cardinality(KeyedBy(chosen, key, key[x]))
  <2>1. acc.keys = {key[y] : y \in chosen} \ {NoKey}
    BY <1>5, Zenon DEF PlacedSoFar
  <2>2. key[x] \in acc.keys
    BY <1>8, <2>1
  <2> QED BY <1>5, <2>2, DroppedPlaces
<1> HIDE DEF new
<1>9. HeldPages(layer, new)
  <2> SUFFICES ASSUME NEW p \in DOMAIN layer
               PROVE  /\ p \in DOMAIN new /\ new[p].number = p
                      /\ layer[p] = <<>> => \E k \in DOMAIN new[p].fragments :
                                               Placeholder(new[p].fragments[k])
    BY <1>7 DEF HeldPages
  <2>1. /\ p \in DOMAIN pages /\ pages[p].number = p
        /\ layer[p] = <<>> => \E k \in DOMAIN pages[p].fragments :
                                 Placeholder(pages[p].fragments[k])
    BY DEF HeldPages
  <2>2. \A f : Placeholder(f) => f.kind # "table"
    BY DEF Placeholder
  <2> QED BY <1>7, <2>1, <2>2
<1>10. TablesHeld(report, new)
  <2>1. IsFiniteSet(chosen)
    BY <1>5, Zenon DEF PlacedSoFar
  <2> QED BY <1>8, <2>1, Zenon DEF TablesHeld, chosen, key
<1> QED BY <1>9, <1>10 DEF new, acc

\* What the parser of PDF files returns.
PdfOutput(layer, data) ==
    /\ DOMAIN data = DOMAIN NoOutput
    /\ TextBlocks(data.blocks)
    /\ HeldPages(layer, data.pages)

LEMMA TextOutput ==
    ASSUME NEW layer, LayerListed(layer)
    PROVE  PdfOutput(layer, AdaptV0Blocks(ParseTextPdf(layer)))
<1> DEFINE t == AdaptV0Blocks(ParseTextPdf(layer))
<1>1. DOMAIN t = DOMAIN NoOutput /\ TextBlocks(t.blocks) /\ TextPages(layer, t.pages)
  BY TextPagesAre
<1> HIDE DEF t
<1>2. HeldPages(layer, t.pages)
  BY <1>1 DEF TextPages, HeldPages
<1> QED BY <1>1, <1>2 DEF PdfOutput, t

LEMMA TableOutput ==
    ASSUME NEW layer, NEW data, PdfOutput(layer, data), NEW report, TablesListed(report)
    PROVE  LET d == WithPdfTables(data, report)
           IN  /\ PdfOutput(layer, d)
               /\ report.selected # None => TablesHeld(report, d.pages)
<1> DEFINE d == WithPdfTables(data, report)
           pages == AdaptV0Blocks(data).pages
           start == [pages |-> pages, free |-> {pl \in Places(pages) : KeyAt(pages, pl) # NoKey},
                     keys |-> {}]
           new == DropStale(PlaceSelected(start, report))
<1>1. CASE report.selected = None
  <2>1. d = data
    BY <1>1, Zenon DEF WithPdfTables
  <2> QED BY <1>1, <2>1
<1>2. CASE report.selected # None
  <2>1. d = [data EXCEPT !.pages = new]
    BY <1>2, Zenon DEF WithPdfTables
  <2>2. "pages" \in DOMAIN data /\ OwnPages(data.pages) /\ TextBlocks(data.blocks)
    BY DEF PdfOutput, HeldPages, NoOutput
  <2>3. OwnPages(pages) /\ PagesPreserved(data.pages, pages)
    BY <2>2, AdaptationPreserves
  <2> HIDE DEF d, pages
  <2>4. HeldPages(layer, pages)
    BY <2>2, <2>3, HeldAfterwards DEF PdfOutput
  <2>5. HeldPages(layer, new) /\ TablesHeld(report, new)
    BY <2>4, TablesReplaced
  <2> HIDE DEF new
  <2>6. DOMAIN d = DOMAIN data /\ d.blocks = data.blocks /\ d.pages = new
    BY <2>1, <2>2
  <2>7. PdfOutput(layer, d) /\ TablesHeld(report, d.pages)
    BY <2>5, <2>6 DEF PdfOutput
  <2> QED BY <2>7 DEF d
<1> QED BY <1>1, <1>2

LEMMA OutputAdapted ==
    ASSUME NEW layer, NEW data, PdfOutput(layer, data), NEW report
    PROVE  LET pages == AdaptV0Blocks(data).pages
           IN  /\ HeldPages(layer, pages)
               /\ TablesHeld(report, data.pages) => TablesHeld(report, pages)
<1> DEFINE pages == AdaptV0Blocks(data).pages
<1>1. "pages" \in DOMAIN data /\ OwnPages(data.pages) /\ TextBlocks(data.blocks)
  BY DEF PdfOutput, HeldPages, NoOutput
<1>2. OwnPages(pages) /\ PagesPreserved(data.pages, pages)
  BY <1>1, AdaptationPreserves
<1> HIDE DEF pages
<1>3. HeldPages(layer, pages)
  BY <1>1, <1>2, HeldAfterwards DEF PdfOutput
<1>4. \A K : PlacesWith(pages, K) = PlacesWith(data.pages, K)
  BY <1>1, <1>2, PlacesPreserved
<1>5. TablesHeld(report, data.pages) => TablesHeld(report, pages)
  BY <1>4 DEF TablesHeld
<1> QED BY <1>3, <1>5 DEF pages

-----------------------------------------------------------------------------
(* The blocks of a document, and the fragments they are made of.            *)
PageFragments(pages, p) == pages[p].fragments \o pages[p].regions

LEMMA FragmentsListed ==
    ASSUME NEW pages, Listed(pages),
           \A p \in DOMAIN pages : Listed(pages[p].fragments) /\ Listed(pages[p].regions)
    PROVE  LET listed == ListedFragments(pages)
           IN  /\ Listed(listed)
               /\ \E start \in [DOMAIN pages -> Nat] :
                    /\ \A p \in DOMAIN pages : \A k \in DOMAIN PageFragments(pages, p) :
                          /\ start[p] + k \in DOMAIN listed
                          /\ listed[start[p] + k].fragment = PageFragments(pages, p)[k]
                          /\ listed[start[p] + k].page = PageNumber(pages[p].number, p)
                    /\ \A n \in DOMAIN listed : \E p \in DOMAIN pages :
                          \E k \in DOMAIN PageFragments(pages, p) : n = start[p] + k
                    /\ \A p, q \in DOMAIN pages :
                          p < q => start[p] + Len(PageFragments(pages, p)) <= start[q]
<1> DEFINE entry(p, k) == [fragment |-> PageFragments(pages, p)[k],
                           page |-> PageNumber(pages[p].number, p)]
           seqs == [p \in DOMAIN pages |-> [k \in DOMAIN PageFragments(pages, p) |-> entry(p, k)]]
           listed == ListedFragments(pages)
<1>1. listed = FlattenSeq(seqs)
  BY Zenon DEF ListedFragments, PageFragments
<1>2. DOMAIN seqs = DOMAIN pages /\ Listed(seqs)
  <2>1. seqs = [p \in DOMAIN pages |-> seqs[p]]
    OBVIOUS
  <2> HIDE DEF seqs
  <2> QED BY <2>1, ChangeIsListed, Zenon
<1>3. ASSUME NEW p \in DOMAIN pages
      PROVE  /\ Listed(seqs[p]) /\ DOMAIN seqs[p] = DOMAIN PageFragments(pages, p)
             /\ Len(seqs[p]) = Len(PageFragments(pages, p))
             /\ \A k \in DOMAIN seqs[p] :
                   /\ seqs[p][k].fragment = PageFragments(pages, p)[k]
                   /\ seqs[p][k].page = PageNumber(pages[p].number, p)
  <2> DEFINE fs == PageFragments(pages, p)
             s == seqs[p]
  <2>1. Listed(fs)
    BY JoinedLists DEF PageFragments
  <2>2. s = [k \in DOMAIN fs |-> s[k]]
    OBVIOUS
  <2>3. \A k \in DOMAIN fs : s[k].fragment = fs[k] /\ s[k].page = PageNumber(pages[p].number, p)
    OBVIOUS
  <2> HIDE DEF fs, s
  <2>4. Listed(s) /\ DOMAIN s = DOMAIN fs /\ Len(s) = Len(fs)
    <3>1. DOMAIN fs = 1..Len(fs) /\ Len(fs) \in Nat
      BY <2>1 DEF Listed
    <3>2. s = [k \in 1..Len(fs) |-> s[k]]
      BY <2>2, <3>1
    <3> QED BY <3>1, <3>2, FunctionIsListed, Zenon
  <2> QED BY <2>3, <2>4 DEF fs, s
<1> HIDE DEF seqs
<1> DEFINE whole == FlattenSeq(seqs)
<1>4. Listed(whole) /\ \E start \in [DOMAIN seqs -> Nat] :
                /\ \A i \in DOMAIN seqs : \A k \in DOMAIN seqs[i] :
                      /\ start[i] + k \in DOMAIN whole
                      /\ whole[start[i] + k] = seqs[i][k]
                /\ \A n \in DOMAIN whole :
                      \E i \in DOMAIN seqs : \E k \in DOMAIN seqs[i] : n = start[i] + k
                /\ \A i, j \in DOMAIN seqs : i < j => start[i] + Len(seqs[i]) <= start[j]
  BY <1>2, <1>3, FlattenIs
<1> HIDE DEF whole, listed
<1>5. listed = whole
  BY <1>1 DEF whole
<1>6. PICK start \in [DOMAIN seqs -> Nat] :
                /\ \A i \in DOMAIN seqs : \A k \in DOMAIN seqs[i] :
                      /\ start[i] + k \in DOMAIN whole
                      /\ whole[start[i] + k] = seqs[i][k]
                /\ \A n \in DOMAIN whole :
                      \E i \in DOMAIN seqs : \E k \in DOMAIN seqs[i] : n = start[i] + k
                /\ \A i, j \in DOMAIN seqs : i < j => start[i] + Len(seqs[i]) <= start[j]
  BY <1>4, Zenon
<1>7. /\ start \in [DOMAIN pages -> Nat]
      /\ \A p \in DOMAIN pages : \A k \in DOMAIN PageFragments(pages, p) :
            /\ start[p] + k \in DOMAIN listed
            /\ listed[start[p] + k].fragment = PageFragments(pages, p)[k]
            /\ listed[start[p] + k].page = PageNumber(pages[p].number, p)
  BY <1>2, <1>3, <1>5, <1>6
<1>8. /\ \A n \in DOMAIN listed : \E p \in DOMAIN pages :
            \E k \in DOMAIN PageFragments(pages, p) : n = start[p] + k
      /\ \A p, q \in DOMAIN pages : p < q => start[p] + Len(PageFragments(pages, p)) <= start[q]
  BY <1>2, <1>3, <1>5, <1>6
<1> QED BY <1>4, <1>5, <1>7, <1>8 DEF listed

LEMMA OnlyFragments ==
    ASSUME NEW pages, OwnPages(pages)
    PROVE  /\ Listed(pages)
           /\ \A p \in DOMAIN pages :
                 /\ Listed(pages[p].fragments) /\ Listed(pages[p].regions)
                 /\ PageFragments(pages, p) = pages[p].fragments
                 /\ PageNumber(pages[p].number, p) = pages[p].number
<1> SUFFICES ASSUME NEW p \in DOMAIN pages
             PROVE  /\ Listed(pages[p].fragments) /\ Listed(pages[p].regions)
                    /\ PageFragments(pages, p) = pages[p].fragments
                    /\ PageNumber(pages[p].number, p) = pages[p].number
  BY DEF OwnPages
<1> DEFINE s == pages[p].fragments
           e == <<>>
           t == s \o e
<1>1. OwnPage(pages[p])
  BY DEF OwnPages
<1>2. Listed(s) /\ pages[p].regions = <<>> /\ pages[p].number # NoNumber
  BY <1>1, OwnPageFragments DEF OwnPage
<1>3. Listed(e) /\ Len(e) = 0
  BY DEF Listed
<1> HIDE DEF s, e
<1>4. /\ Listed(t) /\ Len(t) = Len(s) + 0 /\ \A k \in DOMAIN s : t[k] = s[k]
  BY <1>2, <1>3, JoinedLists
<1> HIDE DEF t
<1>5. t = s
  <2>1. Len(s) \in Nat /\ Len(t) = Len(s) /\ DOMAIN s = 1..Len(s)
        /\ s = [k \in 1..Len(s) |-> s[k]] /\ t = [k \in 1..Len(s) |-> t[k]]
    BY <1>2, <1>4 DEF Listed
  <2> DEFINE N == Len(s)
  <2>2. \A k \in 1..N : t[k] = s[k]
    BY <1>4, <2>1
  <2>3. s = [k \in 1..N |-> s[k]] /\ t = [k \in 1..N |-> t[k]]
    BY <2>1
  <2> HIDE DEF N
  <2>4. [k \in 1..N |-> s[k]] = [k \in 1..N |-> t[k]]
    BY <2>2
  <2> QED BY <2>3, <2>4, Zenon
<1>6. PageFragments(pages, p) = t
  BY <1>2 DEF PageFragments, t, s, e
<1> QED BY <1>2, <1>3, <1>5, <1>6 DEF PageNumber, s, e

\* What a block takes from its fragment.
LEMMA BlockParts ==
    ASSUME NEW f, NEW id, NEW page, NEW fallback
    PROVE  LET b == BlockFromFragment(f, id, page, fallback)
           IN  /\ b.id = id /\ b.text = f.text /\ b.page = PageNumber(f.page, page)
               /\ b.rows = f.rows
               /\ b.extractor = ExtractorName(f, fallback)
               /\ b.type = "table" <=> f.kind = "table"
               /\ f.review \/ f.low \/ f.warnings # {} => b.review
               /\ f.review /\ f.conf = 0 => b.conf = 0
<1> DEFINE b == BlockFromFragment(f, id, page, fallback)
           warnings == ReviewWarnings(f)
           type == IF f.kind \in BLOCK_TYPES \/ f.keep THEN f.kind ELSE "paragraph"
           conf == IF warnings \cap {"bbox_missing", "text_empty", "confidence_missing",
                                     "confidence_invalid"} # {}
                   THEN 0 ELSE Confidence(f.conf, f.engine)
<1>1. /\ b.id = id /\ b.text = f.text /\ b.page = PageNumber(f.page, page)
      /\ b.rows = f.rows /\ b.extractor = ExtractorName(f, fallback)
      /\ b.type = type /\ b.conf = conf /\ b.review = (warnings # {})
  BY Zenon DEF BlockFromFragment
<1>2. type = "table" <=> f.kind = "table"
  BY DEF BLOCK_TYPES
<1>3. f.conf = 0 => conf = 0
  BY DEF Confidence, NoNumber, Malformed
<1>4. /\ f.review => "parser_marked" \in warnings
      /\ f.low => "low_confidence" \in warnings
      /\ f.warnings \subseteq warnings
  BY Zenon DEF ReviewWarnings
<1> HIDE DEF b, warnings, type, conf
<1>5. f.review \/ f.low \/ f.warnings # {} => warnings # {}
  BY <1>4
<1> QED BY <1>1, <1>2, <1>3, <1>5 DEF b

LEMMA OwnBlock ==
    ASSUME NEW f, NEW number, OwnFragment(f, number), number # NoNumber,
           NEW id, NEW page, NEW fallback, NEW a, NEW t, t # None
    PROVE  LET b == BlockFromFragment(f, id, page, fallback)
           IN  /\ b.page = number
               /\ KeyOn(number, f) = <<a, t>> <=> b.type = "table" /\ b.page = a /\ b.text = t
               /\ Placeholder(f) => Textless(b)
<1> DEFINE b == BlockFromFragment(f, id, page, fallback)
<1>1. /\ b.text = f.text /\ b.page = PageNumber(f.page, page)
      /\ b.type = "table" <=> f.kind = "table"
      /\ f.review => b.review
      /\ f.review /\ f.conf = 0 => b.conf = 0
  BY BlockParts
<1> HIDE DEF b
<1>2. b.page = number
  BY <1>1 DEF OwnFragment, PageNumber
<1>3. KeyOn(number, f) = <<a, t>> <=> b.type = "table" /\ b.page = a /\ b.text = t
  BY <1>1, <1>2 DEF KeyOn, NoKey
<1>4. Placeholder(f) => Textless(b)
  BY <1>1 DEF Placeholder, Textless
<1> QED BY <1>2, <1>3, <1>4 DEF b

\* The blocks made of the fragments of some pages.
BlocksOf(pages, blocks, fallback) ==
    blocks = [n \in DOMAIN ListedFragments(pages) |->
                 BlockFromFragment(ListedFragments(pages)[n].fragment, n,
                                   ListedFragments(pages)[n].page, fallback)]

TableBlocks(blocks, a, t) ==
    {n \in DOMAIN blocks : blocks[n].type = "table" /\ blocks[n].page = a /\ blocks[n].text = t}

\* A block for every fragment, and only those.
Numbered(pages, blocks, start) ==
    /\ start \in [DOMAIN pages -> Nat]
    /\ \A p \in DOMAIN pages : \A k \in DOMAIN pages[p].fragments :
          /\ start[p] + k \in DOMAIN blocks
          /\ blocks[start[p] + k].page = pages[p].number
          /\ Placeholder(pages[p].fragments[k]) => Textless(blocks[start[p] + k])
          /\ \A a, t : t # None =>
                (KeyOn(pages[p].number, pages[p].fragments[k]) = <<a, t>>
                   <=> start[p] + k \in TableBlocks(blocks, a, t))
    /\ \A n \in DOMAIN blocks : \E p \in DOMAIN pages :
          \E k \in DOMAIN pages[p].fragments : n = start[p] + k
    /\ \A p, q \in DOMAIN pages : p < q => start[p] + Len(pages[p].fragments) <= start[q]

LEMMA PagesNumbered ==
    ASSUME NEW pages, OwnPages(pages), NEW blocks, NEW fallback, BlocksOf(pages, blocks, fallback)
    PROVE  IsFiniteSet(DOMAIN blocks) /\ \E start : Numbered(pages, blocks, start)
<1> DEFINE listed == ListedFragments(pages)
<1>1. /\ Listed(pages)
      /\ \A p \in DOMAIN pages :
            /\ Listed(pages[p].fragments) /\ Listed(pages[p].regions)
            /\ PageFragments(pages, p) = pages[p].fragments
            /\ PageNumber(pages[p].number, p) = pages[p].number
  BY OnlyFragments
<1>2. Listed(listed) /\ \E start \in [DOMAIN pages -> Nat] :
                    /\ \A p \in DOMAIN pages : \A k \in DOMAIN PageFragments(pages, p) :
                          /\ start[p] + k \in DOMAIN listed
                          /\ listed[start[p] + k].fragment = PageFragments(pages, p)[k]
                          /\ listed[start[p] + k].page = PageNumber(pages[p].number, p)
                    /\ \A n \in DOMAIN listed : \E p \in DOMAIN pages :
                          \E k \in DOMAIN PageFragments(pages, p) : n = start[p] + k
                    /\ \A p, q \in DOMAIN pages :
                          p < q => start[p] + Len(PageFragments(pages, p)) <= start[q]
  BY <1>1, FragmentsListed
<1> HIDE DEF listed
<1>3. PICK start \in [DOMAIN pages -> Nat] :
                    /\ \A p \in DOMAIN pages : \A k \in DOMAIN PageFragments(pages, p) :
                          /\ start[p] + k \in DOMAIN listed
                          /\ listed[start[p] + k].fragment = PageFragments(pages, p)[k]
                          /\ listed[start[p] + k].page = PageNumber(pages[p].number, p)
                    /\ \A n \in DOMAIN listed : \E p \in DOMAIN pages :
                          \E k \in DOMAIN PageFragments(pages, p) : n = start[p] + k
                    /\ \A p, q \in DOMAIN pages :
                          p < q => start[p] + Len(PageFragments(pages, p)) <= start[q]
  BY <1>2, Zenon
<1>4. blocks = [n \in DOMAIN listed |-> BlockFromFragment(listed[n].fragment, n, listed[n].page, fallback)]
  BY Zenon DEF BlocksOf, listed
<1>5. ASSUME NEW p \in DOMAIN pages, NEW k \in DOMAIN pages[p].fragments
      PROVE  /\ start[p] + k \in DOMAIN blocks
             /\ blocks[start[p] + k].page = pages[p].number
             /\ Placeholder(pages[p].fragments[k]) => Textless(blocks[start[p] + k])
             /\ \A a, t : t # None =>
                   (KeyOn(pages[p].number, pages[p].fragments[k]) = <<a, t>>
                      <=> start[p] + k \in TableBlocks(blocks, a, t))
  <2> DEFINE n == start[p] + k
             f == pages[p].fragments[k]
             number == pages[p].number
             b == BlockFromFragment(f, n, listed[n].page, fallback)
  <2>1. n \in DOMAIN listed /\ listed[n].fragment = f
    BY <1>1, <1>3
  <2>2. n \in DOMAIN blocks /\ blocks[n] = b
    BY <1>4, <2>1
  <2>3. OwnFragment(f, number) /\ number # NoNumber
    <3>1. OwnPage(pages[p])
      BY DEF OwnPages
    <3> QED BY <3>1, OwnPageFragments
  <2>4. /\ b.page = number
        /\ \A a, t : t # None =>
              (KeyOn(number, f) = <<a, t>> <=> b.type = "table" /\ b.page = a /\ b.text = t)
        /\ Placeholder(f) => Textless(b)
    <3>1. "table" # None
      BY DEF None
    <3>2. \A a, t : t # None =>
              (KeyOn(number, f) = <<a, t>> <=> b.type = "table" /\ b.page = a /\ b.text = t)
      BY <2>3, OwnBlock
    <3>3. b.page = number /\ (Placeholder(f) => Textless(b))
      BY <2>3, <3>1, OwnBlock
    <3> QED BY <3>2, <3>3
  <2> HIDE DEF n, b, f, number
  <2>5. ASSUME NEW a, NEW t, t # None
        PROVE  KeyOn(number, f) = <<a, t>> <=> n \in TableBlocks(blocks, a, t)
    <3>1. KeyOn(number, f) = <<a, t>> <=> b.type = "table" /\ b.page = a /\ b.text = t
      BY <2>4, <2>5
    <3> QED BY <2>2, <3>1 DEF TableBlocks
  <2>6. blocks[n].page = number /\ (Placeholder(f) => Textless(blocks[n]))
    BY <2>2, <2>4
  <2>7. /\ n \in DOMAIN blocks /\ blocks[n].page = number
        /\ Placeholder(f) => Textless(blocks[n])
        /\ \A a, t : t # None => (KeyOn(number, f) = <<a, t>> <=> n \in TableBlocks(blocks, a, t))
    BY <2>2, <2>5, <2>6
  <2> QED BY <2>7 DEF n, f, number
<1>6. \A n \in DOMAIN blocks : \E p \in DOMAIN pages :
          \E k \in DOMAIN pages[p].fragments : n = start[p] + k
  <2>1. DOMAIN blocks = DOMAIN listed
    BY <1>4
  <2> QED BY <1>1, <1>3, <2>1
<1>7. \A p, q \in DOMAIN pages : p < q => start[p] + Len(pages[p].fragments) <= start[q]
  BY <1>1, <1>3
<1>8. Numbered(pages, blocks, start)
  BY <1>5, <1>6, <1>7, Zenon DEF Numbered
<1>9. IsFiniteSet(DOMAIN blocks)
  <2>1. DOMAIN blocks = 1..Len(listed) /\ Len(listed) \in Nat
    BY <1>2, <1>4 DEF Listed
  <2> QED BY <2>1, FS_Interval
<1> QED BY <1>8, <1>9

LEMMA TablesCounted ==
    ASSUME NEW pages, OwnPages(pages), NEW blocks, NEW fallback, BlocksOf(pages, blocks, fallback),
           NEW a, NEW t, t # None
    PROVE  Cardinality(PlacesWith(pages, <<a, t>>)) = Cardinality(TableBlocks(blocks, a, t))
<1>1. IsFiniteSet(DOMAIN blocks) /\ \E start : Numbered(pages, blocks, start)
  BY PagesNumbered
<1>2. PICK start : Numbered(pages, blocks, start)
  BY <1>1
<1> DEFINE K == <<a, t>>
           A == PlacesWith(pages, K)
           B == TableBlocks(blocks, a, t)
           f == [pl \in A |-> start[pl[1]] + pl[3]]
<1>3. /\ start \in [DOMAIN pages -> Nat]
      /\ \A p \in DOMAIN pages : \A k \in DOMAIN pages[p].fragments :
            /\ start[p] + k \in DOMAIN blocks
            /\ KeyOn(pages[p].number, pages[p].fragments[k]) = K <=> start[p] + k \in B
      /\ \A n \in DOMAIN blocks : \E p \in DOMAIN pages :
            \E k \in DOMAIN pages[p].fragments : n = start[p] + k
      /\ \A p, q \in DOMAIN pages : p < q => start[p] + Len(pages[p].fragments) <= start[q]
  BY <1>2 DEF Numbered
<1>4. /\ \A p \in DOMAIN pages : \A k \in DOMAIN pages[p].fragments :
                 /\ SpotOf(p, k) \in Places(pages)
                 /\ KeyAt(pages, SpotOf(p, k)) = KeyOn(pages[p].number, pages[p].fragments[k])
      /\ \A pl \in Places(pages) : \E p \in DOMAIN pages :
                 \E k \in DOMAIN pages[p].fragments : pl = SpotOf(p, k)
  BY OwnPagesPlaces
<1>5. /\ \A p \in DOMAIN pages : p \in Nat
      /\ \A p \in DOMAIN pages : /\ DOMAIN pages[p].fragments = 1..Len(pages[p].fragments)
                                 /\ Len(pages[p].fragments) \in Nat
  BY OnlyFragments DEF Listed
<1>6. B \in SUBSET DOMAIN blocks
  BY DEF TableBlocks
<1>7. IsFiniteSet(B)
  BY <1>1, <1>6, FS_Subset
<1> HIDE DEF B, K
<1>8. ASSUME NEW pl \in A
      PROVE  \E p \in DOMAIN pages : \E k \in DOMAIN pages[p].fragments :
                /\ pl = SpotOf(p, k) /\ start[pl[1]] + pl[3] = start[p] + k
                /\ start[p] + k \in B
  <2>1. pl \in Places(pages) /\ KeyAt(pages, pl) = K
    BY DEF PlacesWith
  <2>2. PICK p \in DOMAIN pages : \E k \in DOMAIN pages[p].fragments : pl = SpotOf(p, k)
    BY <1>4, <2>1
  <2>3. PICK k \in DOMAIN pages[p].fragments : pl = SpotOf(p, k)
    BY <2>2
  <2>4. pl[1] = p /\ pl[3] = k
    BY <2>3, AtPlace
  <2>5. start[p] + k \in B
    BY <1>3, <1>4, <2>1, <2>3
  <2> QED BY <2>3, <2>4, <2>5
<1>9. ASSUME NEW x \in A, NEW y \in A, start[x[1]] + x[3] = start[y[1]] + y[3]
      PROVE  x = y
  <2>1. PICK p \in DOMAIN pages : \E k \in DOMAIN pages[p].fragments :
                x = SpotOf(p, k) /\ start[x[1]] + x[3] = start[p] + k
    BY <1>8
  <2>2. PICK k \in DOMAIN pages[p].fragments :
                x = SpotOf(p, k) /\ start[x[1]] + x[3] = start[p] + k
    BY <2>1
  <2>3. PICK q \in DOMAIN pages : \E j \in DOMAIN pages[q].fragments :
                y = SpotOf(q, j) /\ start[y[1]] + y[3] = start[q] + j
    BY <1>8
  <2>4. PICK j \in DOMAIN pages[q].fragments :
                y = SpotOf(q, j) /\ start[y[1]] + y[3] = start[q] + j
    BY <2>3
  <2>5. start[p] + k = start[q] + j
    BY <1>9, <2>2, <2>4
  <2> DEFINE P == Len(pages[p].fragments)
             Q == Len(pages[q].fragments)
  <2>6. /\ k \in 1..P /\ j \in 1..Q /\ P \in Nat /\ Q \in Nat
        /\ p < q => start[p] + P <= start[q]
        /\ q < p => start[q] + Q <= start[p]
        /\ start[p] \in Nat /\ start[q] \in Nat /\ p \in Nat /\ q \in Nat
    BY <1>3, <1>5
  <2> HIDE DEF P, Q
  <2>7. p = q
    BY <2>5, <2>6
  <2>8. k = j
    BY <2>5, <2>6, <2>7
  <2> QED BY <2>2, <2>4, <2>7, <2>8
<1>10. ASSUME NEW n \in B PROVE \E x \in A : start[x[1]] + x[3] = n
  <2>1. PICK p \in DOMAIN pages : \E k \in DOMAIN pages[p].fragments : n = start[p] + k
    BY <1>3, <1>6
  <2>2. PICK k \in DOMAIN pages[p].fragments : n = start[p] + k
    BY <2>1
  <2>3. SpotOf(p, k) \in A
    BY <1>3, <1>4, <2>2 DEF PlacesWith
  <2>4. SpotOf(p, k)[1] = p /\ SpotOf(p, k)[3] = k
    BY AtPlace
  <2> QED BY <2>2, <2>3, <2>4
<1> HIDE DEF A
<1>11. /\ f \in [A -> B]
       /\ \A x, y \in A : f[x] = f[y] => x = y
       /\ \A y \in B : \E x \in A : f[x] = y
  <2>1. \A x \in A : f[x] = start[x[1]] + x[3] /\ f[x] \in B
    BY <1>8
  <2>2. f = [x \in A |-> f[x]]
    OBVIOUS
  <2> HIDE DEF f
  <2> QED BY <1>9, <1>10, <2>1, <2>2
<1> HIDE DEF f
<1>12. Cardinality(A) = Cardinality(B)
  BY <1>7, <1>11, SameSize
<1> QED BY <1>12 DEF A, B, K

-----------------------------------------------------------------------------
(* What the parser of a PDF file returns, and the document made of it.      *)
LEMMA PdfParsed ==
    ASSUME NEW u, UploadTyped(u), u.ext = "pdf", ParseUpload(u).ok
    PROVE  LET report == ExtractionReport(u.data.candidates)
           IN  /\ PdfOutput(u.layer, ParseUpload(u).data)
               /\ TablesListed(report)
               /\ u.mode = "pdf_to_excel" /\ report.selected # None
                    => TablesHeld(report, ParseUpload(u).data.pages)
<1> DEFINE text == AdaptV0Blocks(ParseTextPdf(u.layer))
           report == ExtractionReport(u.data.candidates)
<1>1. u.ext # "other" /\ u.ext \notin {"docx", "xlsx"}
  OBVIOUS
<1>2. ParseUpload(u) = ParseBinary(u)
  BY <1>1, Zenon DEF ParseUpload
<1>3. u.content = "file"
  <2>1. u.content \in {"file", "corrupt", "no_dependency"}
    BY <1>1, Zenon DEF UploadTyped
  <2>2. CASE u.content \in {"corrupt", "no_dependency"}
    <3>1. ParseBinary(u) = Refused
      BY <2>2, Zenon DEF ParseBinary
    <3>2. ~Refused.ok
      BY DEF Refused
    <3> QED BY <1>2, <3>1, <3>2, Zenon
  <2> QED BY <2>1, <2>2
<1>4. LayerListed(u.layer) /\ TablesListed(report)
  <2>1. Listed(u.layer) /\ DataListed(u.data)
    BY UploadListed, Zenon
  <2>2. \A p \in DOMAIN u.layer : Listed(u.layer[p])
    BY SequenceIsListed, Zenon DEF UploadTyped
  <2>3. report.candidates = u.data.candidates
    BY DEF ExtractionReport
  <2> QED BY <2>1, <2>2, <2>3, Zenon DEF LayerListed, DataListed, TablesListed
<1>5. PdfOutput(u.layer, text)
  BY <1>4, TextOutput, Zenon
<1> DEFINE replaced == WithPdfTables(text, report)
<1>6. /\ PdfOutput(u.layer, replaced)
      /\ report.selected # None => TablesHeld(report, replaced.pages)
  BY <1>4, <1>5, TableOutput, Zenon
<1>7. ParseBinary(u) = IF u.mode # "pdf_to_excel" THEN Output(text, {})
                       ELSE Output(replaced, PdfTableWarnings(report))
  BY <1>3, Zenon DEF ParseBinary
<1>8. \A d, w : Output(d, w).data = d
  BY DEF Output
<1> HIDE DEF text, report, replaced
<1>9. CASE u.mode = "pdf_to_excel"
  <2>1. ParseUpload(u).data = replaced
    BY <1>2, <1>7, <1>8, <1>9, Zenon
  <2> QED BY <1>4, <1>6, <2>1, Zenon DEF report
<1>10. CASE u.mode # "pdf_to_excel"
  <2>1. ParseUpload(u).data = text
    BY <1>2, <1>7, <1>8, <1>10, Zenon
  <2> QED BY <1>4, <1>5, <1>10, <2>1, Zenon DEF report
<1> QED BY <1>9, <1>10

LEMMA PdfDocument ==
    ASSUME NEW layer, NEW data, PdfOutput(layer, data), data.pages # <<>>, NEW report
    PROVE  LET ir == FromParserOutput(data, "pdf")
           IN  /\ ir.source = "pdf"
               /\ \E pages, fallback :
                     /\ HeldPages(layer, pages)
                     /\ TablesHeld(report, data.pages) => TablesHeld(report, pages)
                     /\ BlocksOf(pages, ir.blocks, fallback)
<1> DEFINE pages == AdaptV0Blocks(data).pages
           ir == FromParserOutput(data, "pdf")
<1>1. ParserPages(data, "pdf") = pages
  BY Zenon DEF ParserPages
<1>2. DocumentOf(ir, "pdf", ParserPages(data, "pdf"))
  BY DocumentParts, Zenon
<1>3. HeldPages(layer, pages) /\ (TablesHeld(report, data.pages) => TablesHeld(report, pages))
  BY OutputAdapted, Zenon
<1> HIDE DEF pages, ir
<1>4. DocumentOf(ir, "pdf", pages)
  BY <1>1, <1>2, Zenon
<1>5. PICK blocks, fallback :
         /\ ir = Document("pdf", pages, blocks)
         /\ blocks = [n \in DOMAIN ListedFragments(pages) |->
                BlockFromFragment(ListedFragments(pages)[n].fragment, n,
                                  ListedFragments(pages)[n].page, fallback)]
  BY <1>4, Zenon DEF DocumentOf
<1>6. ir.source = "pdf" /\ ir.blocks = blocks
  BY <1>5, Zenon DEF Document
<1>7. BlocksOf(pages, blocks, fallback)
  BY <1>5, Zenon DEF BlocksOf
<1>8. BlocksOf(pages, ir.blocks, fallback)
  BY <1>6, <1>7
<1> QED BY <1>3, <1>6, <1>8, Zenon DEF ir

LEMMA TextlessBlock ==
    ASSUME NEW layer, NEW data, PdfOutput(layer, data), NEW p \in DOMAIN layer, layer[p] = <<>>
    PROVE  LET ir == FromParserOutput(data, "pdf")
           IN  \E b \in OcrBoundary(ir) : b \in DOMAIN ir.blocks /\ ir.blocks[b].page = p
                                          /\ ir.blocks[b].review
<1> DEFINE ir == FromParserOutput(data, "pdf")
<1>1. p \in DOMAIN data.pages
  BY DEF PdfOutput, HeldPages
<1>2. data.pages # <<>>
  BY <1>1
<1>3. /\ ir.source = "pdf"
      /\ \E pages, fallback : HeldPages(layer, pages) /\ BlocksOf(pages, ir.blocks, fallback)
  BY <1>2, PdfDocument, Zenon
<1> HIDE DEF ir
<1>4. PICK pages, fallback : HeldPages(layer, pages) /\ BlocksOf(pages, ir.blocks, fallback)
  BY <1>3
<1>5. PICK start : Numbered(pages, ir.blocks, start)
  <2>1. OwnPages(pages)
    BY <1>4 DEF HeldPages
  <2> QED BY <1>4, <2>1, PagesNumbered
<1>6. p \in DOMAIN pages /\ pages[p].number = p
      /\ \E k \in DOMAIN pages[p].fragments : Placeholder(pages[p].fragments[k])
  BY <1>4 DEF HeldPages
<1>7. PICK k \in DOMAIN pages[p].fragments : Placeholder(pages[p].fragments[k])
  BY <1>6
<1>8. /\ start[p] + k \in DOMAIN ir.blocks
      /\ ir.blocks[start[p] + k].page = p
      /\ Textless(ir.blocks[start[p] + k])
  BY <1>5, <1>6, <1>7 DEF Numbered
<1>9. start[p] + k \in OcrBoundary(ir) /\ ir.blocks[start[p] + k].review
  BY <1>3, <1>8 DEF OcrBoundary, Textless
<1>10. \E b \in OcrBoundary(ir) : b \in DOMAIN ir.blocks /\ ir.blocks[b].page = p
                                  /\ ir.blocks[b].review
  BY <1>8, <1>9
<1> QED BY <1>10 DEF ir

(* What the result says of a block of the OCR boundary.                    *)
LEMMA BoundaryItem ==
    ASSUME NEW u, NEW p, NEW b, NEW pc, NEW r \in BOOLEAN, NEW n \in OcrBoundary(b.ir)
    PROVE  LET res == ResultOf(u, p, b, pc, r)
           IN  /\ n \in res.boundary
               /\ \E i \in res.items : i.id = <<"block", n>> /\ i.trustedOcr
               /\ OcrPolicies(res)[<<"block", n>>]
<1> DEFINE res == ResultOf(u, p, b, pc, r)
           ir == b.ir
           item == [Item(<<"block", n>>, ir.blocks[n].page) EXCEPT !.trustedOcr = n \in OcrBoundary(ir)]
<1>1. /\ res.items = BlockItems(ir) \cup MappingItems(b.mapping, ir)
                       \cup PlanItems(ir, pc) \cup TableItems(ir, res.warnings)
      /\ res.boundary = OcrBoundary(ir)
  BY Zenon DEF ResultOf
<1> HIDE DEF res, ir
<1>2. n \in OcrBoundary(ir) /\ n \in DOMAIN ir.blocks /\ ir.blocks[n].review
  BY DEF OcrBoundary, Textless, ir
<1>3. item \in BlockItems(ir)
  BY <1>2, Zenon DEF BlockItems
<1>4. item.id = <<"block", n>> /\ item.trustedOcr
  <2> DEFINE t == n \in OcrBoundary(ir)
  <2>1. item = [Item(<<"block", n>>, ir.blocks[n].page) EXCEPT !.trustedOcr = t]
    OBVIOUS
  <2>2. t
    BY <1>2
  <2> HIDE DEF t, item
  <2>3. item.id = <<"block", n>> /\ item.trustedOcr = t
    BY <2>1 DEF Item
  <2> QED BY <2>2, <2>3, Zenon
<1>5. item \in res.items
  BY <1>1, <1>3
<1> HIDE DEF item
<1>6. OcrPolicies(res)[<<"block", n>>]
  <2> DEFINE x == <<"block", n>>
             D == {i.id : i \in res.items} \cup {<<"block", m>> : m \in res.boundary}
             P(id) == id[1] = "block" /\ id[2] \in res.boundary
  <2>1. OcrPolicies(res) = [id \in D |-> P(id)]
    BY Zenon DEF OcrPolicies
  <2>2. x \in D /\ P(x)
    BY <1>1, <1>2
  <2> HIDE DEF D, P, x
  <2>3. OcrPolicies(res)[x] = P(x)
    BY <2>1, <2>2, Zenon
  <2>4. OcrPolicies(res)[x]
    BY <2>2, <2>3, Zenon
  <2> QED BY <2>4 DEF x
<1>7. /\ n \in res.boundary
      /\ \E i \in res.items : i.id = <<"block", n>> /\ i.trustedOcr
      /\ OcrPolicies(res)[<<"block", n>>]
  BY <1>1, <1>2, <1>4, <1>5, <1>6, Zenon
<1> QED BY <1>7 DEF res

(***************************************************************************)
(* A page of a PDF without a text layer is never lost: through the         *)
(* adaptation of the blocks, the replacement of the tables and the second  *)
(* adaptation its placeholder stays in the document, marked for review,    *)
(* with an item and a policy that demand a trusted OCR run, and the        *)
(* conversion is not answered "converted" (ParseTextPdf,                   *)
(* adapt_document_ir_v0_blocks, _parser_output_with_pdf_tables,            *)
(* _ocr_required_document_block_ids).                                      *)
(***************************************************************************)
THEOREM TextlessPagesAreHeld == Spec => []TextlessPagesHeld
<1>1. Staged => TextlessPagesHeld
  <2> SUFFICES ASSUME Staged, stage = "done", upload.ext = "pdf",
                      NEW p \in DOMAIN upload.layer, upload.layer[p] = <<>>
               PROVE  \E b \in result.boundary :
                         /\ built.ir.blocks[b].page = p
                         /\ \E i \in result.items : i.id = <<"block", b>> /\ i.trustedOcr
                         /\ OcrPolicies(result)[<<"block", b>>]
                         /\ result.status # "converted"
    BY Zenon DEF TextlessPagesHeld
  <2>1. stage \in {"build", "plan", "done"} /\ stage \in {"plan", "done"}
    OBVIOUS
  <2>2. /\ UploadTyped(upload) /\ parsed = ParseUpload(upload) /\ parsed.ok
        /\ BuiltFrom(upload, parsed.data, built)
    BY <2>1, Zenon DEF Staged
  <2>3. PICK r \in BOOLEAN : result = ResultOf(upload, parsed, built, llm.pc, r)
    BY Zenon DEF Staged
  <2>4. BuiltSound(built, parsed.warnings)
    BY <2>2, BuiltIsSound, Zenon
  <2>5. PdfOutput(upload.layer, parsed.data)
    BY <2>2, PdfParsed, Zenon
  <2>6. built.ir = FromParserOutput(parsed.data, "pdf")
    <3>1. upload.ext # "other"
      OBVIOUS
    <3>2. SourceType(upload, parsed.data) = "pdf"
      BY <3>1, Zenon DEF SourceType
    <3> QED BY <2>2, <3>2, Zenon DEF BuiltFrom
  <2>7. PICK b \in OcrBoundary(built.ir) :
           b \in DOMAIN built.ir.blocks /\ built.ir.blocks[b].page = p /\ built.ir.blocks[b].review
    <3> DEFINE ir == FromParserOutput(parsed.data, "pdf")
    <3>1. \E b \in OcrBoundary(ir) : b \in DOMAIN ir.blocks /\ ir.blocks[b].page = p
                                      /\ ir.blocks[b].review
      BY <2>5, TextlessBlock
    <3> HIDE DEF ir
    <3>2. built.ir = ir
      BY <2>6 DEF ir
    <3> QED BY <3>1, <3>2
  <2>8. /\ b \in result.boundary
        /\ \E i \in result.items : i.id = <<"block", b>> /\ i.trustedOcr
        /\ OcrPolicies(result)[<<"block", b>>]
    BY <2>3, BoundaryItem, Zenon
  <2>9. result.status # "converted"
    <3>1. built.review
      BY <2>4, <2>7, Zenon DEF BuiltSound, Reviewed
    <3> QED BY <2>3, <3>1, ConvertedParts, Zenon
  <2> QED BY <2>7, <2>8, <2>9, Zenon
<1> QED BY <1>1, StagesFollow, PTL

-----------------------------------------------------------------------------
(* The tables of the selected extractor, in the request and in its report.  *)
ChosenTables(cs, name) ==
    UNION {{<<i, k>> : k \in DOMAIN cs[i].tables} :
             i \in {i \in DOMAIN cs : cs[i].ok /\ cs[i].name = name}}

LEMMA ChosenAgree ==
    ASSUME NEW report, TablesListed(report)
    PROVE  ChosenTables(report.candidates, report.selected)
             = ChosenUpTo(report, Len(report.candidates))
<1> DEFINE cs == report.candidates
           A == ChosenTables(cs, report.selected)
           B == ChosenUpTo(report, Len(cs))
<1>1. /\ DOMAIN cs = 1..Len(cs) /\ Len(cs) \in Nat
      /\ \A i \in DOMAIN cs : DOMAIN cs[i].tables = 1..Len(cs[i].tables)
                              /\ Len(cs[i].tables) \in Nat
  BY DEF TablesListed, Listed
<1>2. \A x : x \in A <=> \E i \in DOMAIN cs : \E k \in DOMAIN cs[i].tables :
                 x = <<i, k>> /\ cs[i].ok /\ cs[i].name = report.selected
  BY DEF ChosenTables
<1>3. \A x : x \in B <=> /\ x \in (1..Len(cs)) \X Nat
                         /\ cs[x[1]].ok /\ cs[x[1]].name = report.selected
                         /\ x[2] \in 1..Len(cs[x[1]].tables)
  BY DEF ChosenUpTo, Chosen
<1> HIDE DEF A, B, cs
<1>4. ASSUME NEW x \in A PROVE x \in B
  <2>1. PICK i \in DOMAIN cs : \E k \in DOMAIN cs[i].tables :
                 x = <<i, k>> /\ cs[i].ok /\ cs[i].name = report.selected
    BY <1>2
  <2>2. PICK k \in DOMAIN cs[i].tables : x = <<i, k>>
    BY <2>1
  <2>3. x[1] = i /\ x[2] = k /\ i \in 1..Len(cs) /\ k \in 1..Len(cs[i].tables) /\ k \in Nat
        /\ x \in (1..Len(cs)) \X Nat
    BY <1>1, <2>2
  <2> QED BY <1>3, <2>1, <2>3
<1>5. ASSUME NEW x \in B PROVE x \in A
  <2>1. /\ x \in (1..Len(cs)) \X Nat /\ x = <<x[1], x[2]>>
        /\ cs[x[1]].ok /\ cs[x[1]].name = report.selected
        /\ x[2] \in 1..Len(cs[x[1]].tables)
    BY <1>3
  <2>2. x[1] \in DOMAIN cs
    BY <1>1, <2>1
  <2>3. x[2] \in DOMAIN cs[x[1]].tables
    BY <1>1, <2>1, <2>2
  <2> QED BY <1>2, <2>1, <2>2, <2>3
<1>6. A = B
  BY <1>4, <1>5
<1> QED BY <1>6 DEF A, B, cs

\* A table keeps its key when it takes the name of its candidate.
LEMMA CandidateKey ==
    ASSUME NEW c, NEW k \in DOMAIN c.tables
    PROVE  TableKey(CandidateTables(c)[k]) = TableKey(c.tables[k])
<1> DEFINE t == c.tables[k]
           s == [page |-> t.page, rows |-> t.rows, cells |-> t.cells, candidate |-> c.name]
<1>1. CandidateTables(c)[k] = s
  BY Zenon DEF CandidateTables
<1> HIDE DEF t
<1>2. s.page = t.page /\ s.rows = t.rows
  OBVIOUS
<1> HIDE DEF s
<1>3. TableKey(s) = TableKey(t)
  BY <1>2 DEF TableKey
<1> QED BY <1>1, <1>3 DEF t

LEMMA SelectedTables ==
    ASSUME NEW u, UploadTyped(u), u.ext = "pdf", u.mode = "pdf_to_excel", ParseUpload(u).ok,
           ExtractionReport(u.data.candidates).selected # None,
           NEW x \in ChosenTables(ExtractionReport(u.data.candidates).candidates,
                                  ExtractionReport(u.data.candidates).selected)
    PROVE  LET report == ExtractionReport(u.data.candidates)
               cs == report.candidates
               chosen == ChosenTables(cs, report.selected)
               key(y) == TableKey(cs[y[1]].tables[y[2]])
               blocks == FromParserOutput(ParseUpload(u).data, "pdf").blocks
           IN  key(x) # NoKey =>
                 Cardinality({y \in chosen : key(y) = key(x)})
                 = Cardinality(TableBlocks(blocks, key(x)[1], key(x)[2]))
<1> DEFINE report == ExtractionReport(u.data.candidates)
           cs == report.candidates
           chosen == ChosenTables(cs, report.selected)
           key(y) == TableKey(cs[y[1]].tables[y[2]])
           data == ParseUpload(u).data
           blocks == FromParserOutput(data, "pdf").blocks
           full == ChosenUpTo(report, Len(cs))
           keys == ChosenKey(report)
<1> SUFFICES ASSUME key(x) # NoKey
             PROVE  Cardinality({y \in chosen : key(y) = key(x)})
                    = Cardinality(TableBlocks(blocks, key(x)[1], key(x)[2]))
  BY Zenon
<1>1. PdfOutput(u.layer, data) /\ TablesListed(report) /\ TablesHeld(report, data.pages)
  BY PdfParsed, Zenon
<1>2. chosen = full
  BY <1>1, ChosenAgree
<1>3. cs = u.data.candidates
  BY DEF ExtractionReport
<1>4. \A y \in chosen : keys[y] = key(y)
  <2> SUFFICES ASSUME NEW y \in chosen PROVE keys[y] = key(y)
    OBVIOUS
  <2>1. PICK i \in DOMAIN cs : \E k \in DOMAIN cs[i].tables : y = <<i, k>>
    BY DEF ChosenTables
  <2>2. PICK k \in DOMAIN cs[i].tables : y = <<i, k>>
    BY <2>1
  <2>3. y[1] = i /\ y[2] = k
    BY <2>2
  <2>5. TableKey(CandidateTables(cs[i])[k]) = TableKey(cs[i].tables[k])
    BY CandidateKey
  <2>6. i \in Nat /\ k \in Nat
    BY <1>1 DEF TablesListed, Listed
  <2>7. y \in Nat \X Nat
    BY <2>2, <2>6
  <2>8. keys[y] = TableKey(CandidateTables(cs[y[1]])[y[2]])
    BY <2>7, Zenon DEF ChosenKey
  <2> QED BY <2>3, <2>5, <2>8, Zenon
<1>5. x \in full /\ keys[x] = key(x)
  BY <1>2, <1>4
<1> DEFINE K == key(x)
           same == KeyedBy(full, keys, K)
<1>6. /\ IsFiniteSet(full) /\ IsFiniteSet(PlacesWith(data.pages, K))
      /\ Cardinality(PlacesWith(data.pages, K)) = Cardinality(same)
  <2>1. K # NoKey /\ keys[x] = K
    BY <1>5
  <2> HIDE DEF K, keys
  <2> QED BY <1>1, <1>5, <2>1, Zenon DEF TablesHeld, keys
<1>7. same = {y \in chosen : key(y) = K}
  BY <1>2, <1>4 DEF KeyedBy
<1>8. \E a, t : K = <<a, t>> /\ t # None /\ K[1] = a /\ K[2] = t
  <2> DEFINE tab == cs[x[1]].tables[x[2]]
  <2>1. TableKey(tab) # NoKey /\ K = TableKey(tab)
    OBVIOUS
  <2>2. K = <<PageNumber(tab.page, 1), tab.rows>> /\ tab.rows # None
    BY <2>1, Zenon DEF TableKey
  <2> HIDE DEF tab, K
  <2> DEFINE a == PageNumber(tab.page, 1)
             t == tab.rows
  <2>3. K = <<a, t>> /\ t # None
    BY <2>2
  <2> HIDE DEF a, t
  <2> QED BY <2>3
<1>9. data.pages # <<>>
  <2> SUFFICES ASSUME data.pages = <<>> PROVE FALSE
    OBVIOUS
  <2>1. Places(<<>>) = {}
    BY DEF Places
  <2>2. PlacesWith(data.pages, K) = {}
    BY <2>1 DEF PlacesWith
  <2> HIDE DEF full, keys, K
  <2>3. Cardinality(same) = 0
    BY <1>6, <2>2, FS_EmptySet
  <2>4. IsFiniteSet(same)
    <3>1. same \in SUBSET full
      BY DEF KeyedBy
    <3> QED BY <1>6, <3>1, FS_Subset
  <2>5. x \in same
    BY <1>5 DEF KeyedBy, K
  <2> QED BY <2>3, <2>4, <2>5, FS_EmptySet
<1> HIDE DEF full, keys, data, K, same, key
<1>10. \E pages, fallback :
          /\ HeldPages(u.layer, pages)
          /\ TablesHeld(report, data.pages) => TablesHeld(report, pages)
          /\ BlocksOf(pages, blocks, fallback)
  BY <1>1, <1>9, PdfDocument
<1> HIDE DEF blocks
<1>11. PICK pages, fallback : /\ OwnPages(pages) /\ TablesHeld(report, pages)
                              /\ BlocksOf(pages, blocks, fallback)
  BY <1>1, <1>10 DEF HeldPages
<1>12. Cardinality(PlacesWith(pages, K)) = Cardinality(same)
  <2>1. K # NoKey /\ keys[x] = K /\ x \in full
    BY <1>5 DEF K
  <2> QED BY <1>11, <2>1 DEF TablesHeld, keys, full, same
<1>13. PICK a, t : K = <<a, t>> /\ t # None /\ K[1] = a /\ K[2] = t
  BY <1>8
<1>14. Cardinality(PlacesWith(pages, <<a, t>>)) = Cardinality(TableBlocks(blocks, a, t))
  BY <1>11, <1>13, TablesCounted
<1>15. Cardinality(same) = Cardinality(TableBlocks(blocks, K[1], K[2]))
  BY <1>12, <1>13, <1>14
<1> QED BY <1>7, <1>15 DEF K

(***************************************************************************)
(* When the tables of the selected extractor replace those of the text     *)
(* parser of a PDF, the document has as many tables under a page and cells *)
(* as were extracted there, for every text layer and every report: a table *)
(* merged into a fragment, one appended and one listed twice are all there *)
(* and nothing the text parser found under the same key is left            *)
(* (_parser_output_with_pdf_tables, adapt_document_ir_v0_blocks).          *)
(***************************************************************************)
THEOREM TablesStayExact == Spec => []TablesExactlyOnce
<1>1. Staged => TablesExactlyOnce
  <2> DEFINE report == ExtractionReport(upload.data.candidates)
             cs == report.candidates
             chosen == ChosenTables(cs, report.selected)
             key(x) == TableKey(cs[x[1]].tables[x[2]])
             blocks == built.ir.blocks
  <2> SUFFICES ASSUME Staged, stage \in {"plan", "done"}, upload.ext = "pdf",
                      upload.mode = "pdf_to_excel", report.selected # None,
                      NEW x \in chosen, key(x) # NoKey
               PROVE  Cardinality({y \in chosen : key(y) = key(x)})
                      = Cardinality(TableBlocks(blocks, key(x)[1], key(x)[2]))
    BY Zenon DEF TablesExactlyOnce, ChosenTables, TableBlocks
  <2>1. stage \in {"build", "plan", "done"}
    OBVIOUS
  <2>2. /\ UploadTyped(upload) /\ parsed = ParseUpload(upload) /\ parsed.ok
        /\ BuiltFrom(upload, parsed.data, built)
    BY <2>1, Zenon DEF Staged
  <2>3. blocks = FromParserOutput(ParseUpload(upload).data, "pdf").blocks
    <3>1. upload.ext # "other"
      OBVIOUS
    <3>2. SourceType(upload, parsed.data) = "pdf"
      BY <3>1, Zenon DEF SourceType
    <3> QED BY <2>2, <3>2, Zenon DEF BuiltFrom
  <2> DEFINE made == FromParserOutput(ParseUpload(upload).data, "pdf").blocks
  <2>4. Cardinality({y \in chosen : key(y) = key(x)})
          = Cardinality(TableBlocks(made, key(x)[1], key(x)[2]))
    BY <2>2, SelectedTables, Zenon
  <2> HIDE DEF made, key, chosen, blocks
  <2>5. blocks = made
    BY <2>3 DEF made
  <2> QED BY <2>4, <2>5
<1> QED BY <1>1, StagesFollow, PTL

-----------------------------------------------------------------------------
(* The doubt of a top-level block.                                          *)
Doubted(f) == f.review \/ f.low \/ f.warnings # {}

JsonShaped(data) ==
    "pages" \in DOMAIN data /\ PagesShaped(data.pages) /\ FragmentsShaped(data.blocks)

LEMMA UploadShaped ==
    ASSUME NEW u, UploadTyped(u)
    PROVE  JsonShaped(u.data)
<1>1. "pages" \in DOMAIN u.data
  BY DEF UploadTyped, NoOutput
<1>2. \A fs : FragmentsTyped(fs) => FragmentsShaped(fs)
  BY SequenceIsListed, Zenon DEF FragmentsTyped, FragmentsShaped
<1>3. \A page : PageTyped(page) => PageShape(page)
  BY <1>2, Zenon DEF PageTyped, PageShape
<1>4. Listed(u.data.pages) /\ \A p \in DOMAIN u.data.pages : PageTyped(u.data.pages[p])
  BY SequenceIsListed, Zenon DEF UploadTyped
<1>5. FragmentsTyped(u.data.blocks)
  BY Zenon DEF UploadTyped
<1> QED BY <1>1, <1>2, <1>3, <1>4, <1>5, Zenon DEF JsonShaped, PagesShaped

LEMMA AdaptedShaped ==
    ASSUME NEW data, JsonShaped(data), NEW p \in DOMAIN data.pages
    PROVE  PageShape(AdaptPage(data, p))
<1> DEFINE page == data.pages[p]
           blocks == BlocksOfPage(data, p)
<1>1. PageShape(page) /\ FragmentsShaped(data.blocks)
  BY DEF JsonShaped, PagesShaped
<1>2. FragmentsShaped(blocks)
  BY <1>1, BlocksOfPageIs, Zenon
<1>3. CASE page.fragments = <<>> /\ page.regions = <<>>
  BY <1>1, <1>3, AdaptPageIs, Zenon
<1>4. CASE page.fragments # <<>> \/ page.regions # <<>>
  <2> DEFINE m == MergePage(page, blocks, ExtractorOf(data))
  <2>1. AdaptPage(data, p) = m
    BY <1>1, <1>4, AdaptPageIs, Zenon
  <2>2. PageShape(m)
    BY <1>1, <1>2, MergePageIs, Zenon DEF FragmentsShaped
  <2> QED BY <2>1, <2>2, Zenon
<1> QED BY <1>3, <1>4

\* A fragment of the adapted page with the text and the doubt of a block.
DoubtOn(page, b) ==
    \/ \E k \in DOMAIN page.fragments : page.fragments[k].text = b.text /\ Doubted(page.fragments[k])
    \/ \E k \in DOMAIN page.regions : page.regions[k].text = b.text /\ Doubted(page.regions[k])

LEMMA DoubtTaken ==
    ASSUME NEW f, FragmentShape(f), NEW b, f.text = b.text, Doubted(b)
    PROVE  WithV0Metadata(f, b).text = b.text /\ Doubted(WithV0Metadata(f, b))
<1> DEFINE g == WithV0Metadata(f, b)
<1>1. /\ g.text = f.text
      /\ g.review = (f.review \/ b.review)
      /\ g.low = (f.low \/ b.low)
      /\ g.warnings = f.warnings \cup b.warnings
  BY MetadataTaken
<1> HIDE DEF g
<1>2. b.review => g.review
  BY <1>1, Zenon
<1>3. b.low => g.low
  BY <1>1, Zenon
<1>4. b.warnings # {} => g.warnings # {}
  BY <1>1
<1>5. g.text = b.text
  BY <1>1
<1>6. g.text = b.text /\ Doubted(g)
  BY <1>2, <1>3, <1>4, <1>5, Zenon DEF Doubted
<1> QED BY <1>6 DEF g

LEMMA DoubtAdapted ==
    ASSUME NEW data, JsonShaped(data), NEW p \in DOMAIN data.pages,
           NEW j \in DOMAIN BlocksOfPage(data, p),
           Doubted(BlocksOfPage(data, p)[j]),
           \A i \in DOMAIN data.blocks, m \in DOMAIN data.blocks :
              /\ data.blocks[i].text = BlocksOfPage(data, p)[j].text
              /\ data.blocks[m].text = BlocksOfPage(data, p)[j].text
              => i = m,
           \/ data.pages[p].fragments = <<>> /\ data.pages[p].regions = <<>>
           \/ \E k \in DOMAIN data.pages[p].fragments :
                 MatchRank(data.pages[p].fragments[k], BlocksOfPage(data, p)[j], ExtractorOf(data))
                   # NoMatch
           \/ \E k \in DOMAIN data.pages[p].regions :
                 MatchRank(data.pages[p].regions[k], BlocksOfPage(data, p)[j], ExtractorOf(data))
                   # NoMatch
    PROVE  DoubtOn(AdaptPage(data, p), BlocksOfPage(data, p)[j])
<1> DEFINE page == data.pages[p]
           blocks == BlocksOfPage(data, p)
           b == blocks[j]
           fallback == ExtractorOf(data)
           new == AdaptPage(data, p)
<1> SUFFICES DoubtOn(new, b)
  OBVIOUS
<1>0. j \in DOMAIN blocks /\ Doubted(b)
  OBVIOUS
<1>1. PageShape(page) /\ FragmentsShaped(data.blocks)
  BY DEF JsonShaped, PagesShaped
<1>2. /\ FragmentsShaped(blocks)
      /\ \A k \in DOMAIN blocks : \E i \in DOMAIN data.blocks :
            blocks[k] = V0BlockFragment(data.blocks[i], data.pages)
  BY <1>1, BlocksOfPageIs
<1>3. /\ page.fragments # <<>> \/ page.regions # <<>> => new = MergePage(page, blocks, fallback)
      /\ page.fragments = <<>> /\ page.regions = <<>> => new.fragments = blocks
  BY <1>1, AdaptPageIs, Zenon
<1> HIDE DEF new
<1>4. CASE page.fragments = <<>> /\ page.regions = <<>>
  <2>1. j \in DOMAIN new.fragments /\ new.fragments[j] = b
    BY <1>3, <1>4
  <2> QED BY <1>0, <2>1, Zenon DEF DoubtOn
<1>5. CASE page.fragments # <<>> \/ page.regions # <<>>
  <2>1. new = MergePage(page, blocks, fallback)
    BY <1>3, <1>5
  <2>2. HasMergeMetadata(b)
    BY Zenon DEF HasMergeMetadata, Doubted
  <2>3. ASSUME NEW i \in DOMAIN blocks, blocks[i].text = b.text
        PROVE  blocks[i] = b
    <3>1. PICK m \in DOMAIN data.blocks : blocks[i] = V0BlockFragment(data.blocks[m], data.pages)
      BY <1>2, Zenon
    <3>2. PICK n \in DOMAIN data.blocks : b = V0BlockFragment(data.blocks[n], data.pages)
      BY <1>2, Zenon
    <3>3. \A l \in DOMAIN data.blocks :
             V0BlockFragment(data.blocks[l], data.pages).text = data.blocks[l].text
      BY <1>1, BlockConverted, Zenon DEF FragmentsShaped
    <3>4. data.blocks[m].text = b.text /\ data.blocks[n].text = b.text
      <4>1. data.blocks[m].text = blocks[i].text
        BY <3>1, <3>3, Zenon
      <4>2. data.blocks[n].text = b.text
        BY <3>2, <3>3, Zenon
      <4> QED BY <2>3, <4>1, <4>2
    <3>5. m = n
      BY <3>4
    <3> QED BY <3>1, <3>2, <3>5
  <2>4. \/ \E k \in DOMAIN page.fragments : MatchRank(page.fragments[k], b, fallback) # NoMatch
        \/ \E k \in DOMAIN page.regions : MatchRank(page.regions[k], b, fallback) # NoMatch
    <3>1. \/ page.fragments = <<>> /\ page.regions = <<>>
          \/ \E k \in DOMAIN page.fragments : MatchRank(page.fragments[k], b, fallback) # NoMatch
          \/ \E k \in DOMAIN page.regions : MatchRank(page.regions[k], b, fallback) # NoMatch
      OBVIOUS
    <3> QED BY <1>5, <3>1, Zenon
  <2> DEFINE made == MergePage(page, blocks, fallback)
  <2>5. \/ \E k \in DOMAIN page.fragments :
              /\ page.fragments[k].text = b.text
              /\ made.fragments[k] = WithV0Metadata(page.fragments[k], b)
        \/ \E k \in DOMAIN page.regions :
              /\ page.regions[k].text = b.text
              /\ made.regions[k] = WithV0Metadata(page.regions[k], b)
    <3>1. Listed(blocks)
      BY <1>2 DEF FragmentsShaped
    <3> HIDE DEF page, blocks, fallback
    <3>2. \A i \in DOMAIN blocks :
             (/\ HasMergeMetadata(blocks[i])
              /\ \A n \in DOMAIN blocks : blocks[n].text = blocks[i].text => blocks[n] = blocks[i]
              /\ \/ \E k \in DOMAIN page.fragments :
                       MatchRank(page.fragments[k], blocks[i], fallback) # NoMatch
                 \/ \E k \in DOMAIN page.regions :
                       MatchRank(page.regions[k], blocks[i], fallback) # NoMatch)
             => \/ \E k \in DOMAIN page.fragments :
                      /\ page.fragments[k].text = blocks[i].text
                      /\ made.fragments[k] = WithV0Metadata(page.fragments[k], blocks[i])
                \/ \E k \in DOMAIN page.regions :
                      /\ page.regions[k].text = blocks[i].text
                      /\ made.regions[k] = WithV0Metadata(page.regions[k], blocks[i])
      BY <1>1, <3>1, MergePageIs
    <3> HIDE DEF made
    <3> QED BY <1>0, <2>2, <2>3, <2>4, <3>2, Zenon
  <2>6. AdaptedList(page.fragments, made.fragments, blocks)
        /\ AdaptedList(page.regions, made.regions, blocks)
    <3>1. Listed(blocks)
      BY <1>2 DEF FragmentsShaped
    <3> HIDE DEF page, blocks, fallback
    <3> QED BY <1>1, <3>1, MergePageIs, Zenon
  <2>7. DOMAIN made.fragments = DOMAIN page.fragments /\ DOMAIN made.regions = DOMAIN page.regions
    BY <2>6, Zenon DEF AdaptedList
  <2> HIDE DEF made
  <2>8. \A k \in DOMAIN page.fragments : FragmentShape(page.fragments[k])
    BY <1>1, Zenon DEF PageShape, FragmentsShaped
  <2>9. \A k \in DOMAIN page.regions : FragmentShape(page.regions[k])
    BY <1>1, Zenon DEF PageShape, FragmentsShaped
  <2> HIDE DEF page, blocks, b
  <2>10. DoubtOn(made, b)
    <3>1. Doubted(b)
      BY DEF b, blocks
    <3>2. ASSUME NEW k \in DOMAIN page.fragments, page.fragments[k].text = b.text,
                 made.fragments[k] = WithV0Metadata(page.fragments[k], b)
          PROVE  DoubtOn(made, b)
      <4>1. made.fragments[k].text = b.text /\ Doubted(made.fragments[k])
        BY <2>8, <3>1, <3>2, DoubtTaken
      <4> QED BY <2>7, <4>1, Zenon DEF DoubtOn
    <3>3. ASSUME NEW k \in DOMAIN page.regions, page.regions[k].text = b.text,
                 made.regions[k] = WithV0Metadata(page.regions[k], b)
          PROVE  DoubtOn(made, b)
      <4>1. made.regions[k].text = b.text /\ Doubted(made.regions[k])
        BY <2>9, <3>1, <3>3, DoubtTaken
      <4> QED BY <2>7, <4>1, Zenon DEF DoubtOn
    <3> QED BY <2>5, <3>2, <3>3
  <2>11. new = made
    BY <2>1 DEF made
  <2> QED BY <2>10, <2>11
<1> QED BY <1>4, <1>5

LEMMA DoubtListed ==
    ASSUME NEW data, JsonShaped(data), data.pages # <<>>, data.blocks # <<>>, NEW sourceType,
           NEW p \in DOMAIN data.pages, NEW b, DoubtOn(AdaptPage(data, p), b)
    PROVE  LET ir == FromParserOutput(data, sourceType)
           IN  \E n \in DOMAIN ir.blocks : ir.blocks[n].text = b.text /\ ir.blocks[n].review
<1> DEFINE pages == AdaptV0Blocks(data).pages
           ir == FromParserOutput(data, sourceType)
           page == AdaptPage(data, p)
<1>1. ParserPages(data, sourceType) = pages
  BY Zenon DEF ParserPages
<1>2. DocumentOf(ir, sourceType, ParserPages(data, sourceType))
  BY DocumentParts, Zenon
<1>3. pages = [i \in DOMAIN data.pages |-> AdaptPage(data, i)]
  BY AdaptedPages, Zenon DEF JsonShaped
<1> HIDE DEF pages, ir
<1>4. /\ DOMAIN pages = DOMAIN data.pages /\ Listed(pages) /\ pages[p] = page
      /\ \A i \in DOMAIN pages : Listed(pages[i].fragments) /\ Listed(pages[i].regions)
  <2>1. Listed(data.pages)
    BY DEF JsonShaped, PagesShaped
  <2>2. pages = [i \in DOMAIN data.pages |-> pages[i]] /\ pages[p] = page
    BY <1>3
  <2>3. Listed(pages)
    BY <2>1, <2>2, ChangeIsListed, Zenon
  <2>4. ASSUME NEW i \in DOMAIN pages
        PROVE  Listed(pages[i].fragments) /\ Listed(pages[i].regions)
    <3>1. i \in DOMAIN data.pages /\ pages[i] = AdaptPage(data, i)
      BY <1>3
    <3>2. PageShape(pages[i])
      BY <3>1, AdaptedShaped
    <3> QED BY <3>2 DEF PageShape, FragmentsShaped
  <2> QED BY <2>2, <2>3, <2>4
<1> DEFINE listed == ListedFragments(pages)
<1>5. PICK blocks, fallback :
         /\ ir = Document(sourceType, pages, blocks)
         /\ blocks = [n \in DOMAIN listed |->
                BlockFromFragment(listed[n].fragment, n, listed[n].page, fallback)]
  BY <1>1, <1>2, Zenon DEF DocumentOf
<1>6. ir.blocks = blocks
  BY <1>5, Zenon DEF Document
<1>7. \E start \in [DOMAIN pages -> Nat] :
         \A i \in DOMAIN pages : \A k \in DOMAIN PageFragments(pages, i) :
                    /\ start[i] + k \in DOMAIN listed
                    /\ listed[start[i] + k].fragment = PageFragments(pages, i)[k]
  BY <1>4, FragmentsListed
<1> HIDE DEF listed, page
<1>8. PICK start \in [DOMAIN pages -> Nat] :
         \A i \in DOMAIN pages : \A k \in DOMAIN PageFragments(pages, i) :
                    /\ start[i] + k \in DOMAIN listed
                    /\ listed[start[i] + k].fragment = PageFragments(pages, i)[k]
  BY <1>7
<1> DEFINE fs == PageFragments(pages, p)
<1>9. \E k \in DOMAIN fs : fs[k].text = b.text /\ Doubted(fs[k])
  <2> DEFINE s == page.fragments
             t == page.regions
  <2>1. fs = s \o t /\ Listed(s) /\ Listed(t)
    BY <1>4 DEF PageFragments
  <2>2. \/ \E k \in DOMAIN s : s[k].text = b.text /\ Doubted(s[k])
        \/ \E k \in DOMAIN t : t[k].text = b.text /\ Doubted(t[k])
    BY DEF DoubtOn, page
  <2> HIDE DEF fs, s, t
  <2>3. /\ Len(s) \in Nat /\ Len(t) \in Nat
        /\ DOMAIN s = 1..Len(s) /\ DOMAIN t = 1..Len(t)
        /\ DOMAIN fs = 1..(Len(s) + Len(t))
        /\ \A k \in DOMAIN s : fs[k] = s[k]
        /\ \A k \in DOMAIN t : fs[Len(s) + k] = t[k]
    <3>1. /\ DOMAIN (s \o t) = 1..(Len(s) + Len(t))
          /\ \A k \in DOMAIN s : (s \o t)[k] = s[k]
          /\ \A k \in DOMAIN t : (s \o t)[Len(s) + k] = t[k]
      BY <2>1, JoinedLists
    <3>2. /\ Len(s) \in Nat /\ Len(t) \in Nat
          /\ DOMAIN s = 1..Len(s) /\ DOMAIN t = 1..Len(t)
      BY <2>1 DEF Listed
    <3> QED BY <2>1, <3>1, <3>2
  <2>4. ASSUME NEW k \in DOMAIN s, s[k].text = b.text, Doubted(s[k])
        PROVE  \E n \in DOMAIN fs : fs[n].text = b.text /\ Doubted(fs[n])
    <3>1. k \in DOMAIN fs /\ fs[k] = s[k]
      BY <2>3
    <3> QED BY <2>4, <3>1
  <2>5. ASSUME NEW k \in DOMAIN t, t[k].text = b.text, Doubted(t[k])
        PROVE  \E n \in DOMAIN fs : fs[n].text = b.text /\ Doubted(fs[n])
    <3>1. Len(s) + k \in DOMAIN fs /\ fs[Len(s) + k] = t[k]
      BY <2>3
    <3> QED BY <2>5, <3>1
  <2> QED BY <2>2, <2>4, <2>5
<1>10. PICK k \in DOMAIN fs : fs[k].text = b.text /\ Doubted(fs[k])
  BY <1>9
<1> DEFINE n == start[p] + k
           f == fs[k]
           made == BlockFromFragment(f, n, listed[n].page, fallback)
<1>11. n \in DOMAIN listed /\ listed[n].fragment = f
  BY <1>4, <1>8
<1>12. n \in DOMAIN blocks /\ blocks[n] = made
  BY <1>5, <1>11
<1>13. made.text = f.text /\ (f.review \/ f.low \/ f.warnings # {} => made.review)
  BY BlockParts
<1> HIDE DEF made, f, n
<1>14. n \in DOMAIN ir.blocks /\ ir.blocks[n].text = b.text /\ ir.blocks[n].review
  BY <1>6, <1>10, <1>12, <1>13 DEF Doubted, f
<1> QED BY <1>14 DEF ir

\* A JSON parser output is taken as it is, or its tables replace no pages at all.
LEMMA JsonParsed ==
    ASSUME NEW u, UploadTyped(u), u.content = "json", ParseUpload(u).data.blocks # <<>>
    PROVE  ParseUpload(u).data = u.data
<1>1. u.ext = "other"
  <2> SUFFICES ASSUME u.ext # "other" PROVE FALSE
    OBVIOUS
  <2>1. u.content \in {"file", "corrupt", "no_dependency"}
    BY Zenon DEF UploadTyped
  <2> QED BY <2>1
<1>2. ParseUpload(u) = ParseText(u)
  BY <1>1, Zenon DEF ParseUpload
<1> DEFINE replaced == WithPdfTables(NoOutput, u.data)
<1>3. \/ ParseText(u) = Output(u.data, {})
      \/ ParseText(u) = Output(u.data, PdfTableWarnings(u.data))
      \/ ParseText(u) = Output(replaced, PdfTableWarnings(u.data))
  BY Zenon DEF ParseText
<1>4. \A d, w : Output(d, w).data = d
  BY DEF Output
<1>5. replaced.blocks = <<>>
  <2> DEFINE pages == AdaptV0Blocks(NoOutput).pages
             start == [pages |-> pages, free |-> {pl \in Places(pages) : KeyAt(pages, pl) # NoKey},
                       keys |-> {}]
             new == DropStale(PlaceSelected(start, u.data))
  <2>1. replaced = IF u.data.selected = None THEN NoOutput ELSE [NoOutput EXCEPT !.pages = new]
    BY Zenon DEF WithPdfTables
  <2> HIDE DEF new, replaced
  <2> QED BY <2>1 DEF NoOutput
<1> HIDE DEF replaced
<1> QED BY <1>2, <1>3, <1>4, <1>5, Zenon

(***************************************************************************)
(* The doubt of a top-level block of a JSON parser output reaches the      *)
(* document, whatever the pages and the blocks: if the block's text is its *)
(* own and its page is empty or has a fragment that matches it, a block    *)
(* of that text is under review (adapt_document_ir_v0_blocks,              *)
(* _merge_v0_block_metadata, _block_from_fragment).                        *)
(***************************************************************************)
THEOREM DoubtIsKept == Spec => []DoubtSurvives
<1>1. Staged => DoubtSurvives
  <2> DEFINE data == parsed.data
             root == IF data.extractor = None THEN "unknown" ELSE data.extractor
             fs(p) == data.pages[p].fragments \o data.pages[p].regions
             Alone(b) == Cardinality({i \in DOMAIN data.blocks : data.blocks[i].text = b.text}) = 1
  <2> SUFFICES ASSUME Staged, stage \in {"plan", "done"}, upload.content = "json",
                      data.pages # <<>>, NEW p \in DOMAIN data.pages,
                      NEW b \in Range(BlocksOfPage(data, p)), b.review \/ b.low \/ b.warnings # {},
                      Alone(b),
                      fs(p) = <<>> \/ \E k \in DOMAIN fs(p) : MatchRank(fs(p)[k], b, root) # NoMatch
               PROVE  \E i \in DOMAIN built.ir.blocks :
                         built.ir.blocks[i].text = b.text /\ built.ir.blocks[i].review
    BY Zenon DEF DoubtSurvives
  <2>1. stage \in {"build", "plan", "done"}
    OBVIOUS
  <2>2. /\ UploadTyped(upload) /\ parsed = ParseUpload(upload)
        /\ BuiltFrom(upload, parsed.data, built)
    BY <2>1, Zenon DEF Staged
  <2>3. DOMAIN data.blocks # {}
    <3>1. {i \in DOMAIN data.blocks : data.blocks[i].text = b.text} # {}
      <4>1. Cardinality({}) = 0
        BY FS_EmptySet
      <4>2. Alone(b)
        OBVIOUS
      <4> DEFINE S == {i \in DOMAIN data.blocks : data.blocks[i].text = b.text}
      <4>3. Cardinality(S) = 1
        BY <4>2
      <4> HIDE DEF S, data, root
      <4>4. S # {}
        <5> SUFFICES ASSUME S = {} PROVE FALSE
          OBVIOUS
        <5>1. Cardinality(S) = 0
          BY <4>1, Zenon
        <5> QED BY <4>3, <5>1
      <4> QED BY <4>4 DEF S
    <3> QED BY <3>1
  <2>4. data = upload.data
    <3>1. data.blocks # <<>>
      BY <2>3
    <3> QED BY <2>2, <3>1, JsonParsed, Zenon
  <2>5. JsonShaped(data)
    BY <2>2, <2>4, UploadShaped
  <2> DEFINE blocks == BlocksOfPage(data, p)
             page == data.pages[p]
  <2>6. PICK j \in DOMAIN blocks : blocks[j] = b
    BY DEF Range
  <2>7. PageShape(page) /\ Listed(page.fragments) /\ Listed(page.regions)
    BY <2>5 DEF JsonShaped, PagesShaped, PageShape, FragmentsShaped
  <2>8. \/ page.fragments = <<>> /\ page.regions = <<>>
        \/ \E k \in DOMAIN page.fragments : MatchRank(page.fragments[k], b, root) # NoMatch
        \/ \E k \in DOMAIN page.regions : MatchRank(page.regions[k], b, root) # NoMatch
    <3> DEFINE s == page.fragments
               t == page.regions
               w == s \o t
    <3>0. w = <<>> \/ \E k \in DOMAIN w : MatchRank(w[k], b, root) # NoMatch
      OBVIOUS
    <3>1. /\ Len(s) \in Nat /\ Len(t) \in Nat
          /\ DOMAIN s = 1..Len(s) /\ DOMAIN t = 1..Len(t)
      BY <2>7 DEF Listed
    <3> HIDE DEF s, t
    <3>2. /\ DOMAIN w = 1..(Len(s) + Len(t))
          /\ \A k \in DOMAIN s : w[k] = s[k]
          /\ \A k \in DOMAIN t : w[Len(s) + k] = t[k]
      <4>1. Listed(s) /\ Listed(t)
        BY <2>7 DEF s, t
      <4> QED BY <4>1, JoinedLists
    <3> HIDE DEF w, root
    <3>3. CASE w = <<>>
      <4>1. DOMAIN s = {} /\ DOMAIN t = {}
        BY <3>1, <3>2, <3>3
      <4> QED BY <2>7, <4>1, EmptyIfNoDomain DEF s, t
    <3>4. ASSUME NEW k \in DOMAIN w, MatchRank(w[k], b, root) # NoMatch
          PROVE  \/ \E m \in DOMAIN s : MatchRank(s[m], b, root) # NoMatch
                 \/ \E m \in DOMAIN t : MatchRank(t[m], b, root) # NoMatch
      <4>1. CASE k \in DOMAIN s
        <5>1. MatchRank(s[k], b, root) # NoMatch
          BY <3>2, <3>4, <4>1
        <5> QED BY <4>1, <5>1
      <4>2. CASE k \notin DOMAIN s
        <5> DEFINE m == k - Len(s)
        <5>1. m \in DOMAIN t /\ k = Len(s) + m
          BY <3>1, <3>2, <4>2
        <5>2. w[k] = t[m]
          BY <3>2, <5>1
        <5> QED BY <3>4, <5>1, <5>2
      <4> QED BY <4>1, <4>2
    <3> QED BY <3>0, <3>3, <3>4 DEF s, t
  <2>9. \A i \in DOMAIN data.blocks, m \in DOMAIN data.blocks :
           data.blocks[i].text = b.text /\ data.blocks[m].text = b.text => i = m
    <3> DEFINE S == {i \in DOMAIN data.blocks : data.blocks[i].text = b.text}
    <3>1. Cardinality(S) = 1
      OBVIOUS
    <3>2. IsFiniteSet(S)
      <4>1. Listed(data.blocks)
        BY <2>5 DEF JsonShaped, FragmentsShaped
      <4>2. IsFiniteSet(DOMAIN data.blocks) /\ S \in SUBSET DOMAIN data.blocks
        BY <4>1, ListDomainFinite
      <4> QED BY <4>2, FS_Subset
    <3> HIDE DEF S
    <3>3. \E x : S = {x}
      BY <3>1, <3>2, FS_Singleton
    <3> QED BY <3>3 DEF S
  <2>10. root = ExtractorOf(data)
    BY DEF ExtractorOf
  <2>11. DoubtOn(AdaptPage(data, p), b)
    <3>1. Doubted(blocks[j])
      BY <2>6, Zenon DEF Doubted
    <3> HIDE DEF root
    <3> QED BY <2>5, <2>6, <2>8, <2>9, <2>10, <3>1, DoubtAdapted
  <2>12. built.ir = FromParserOutput(data, SourceType(upload, data))
    BY <2>2, Zenon DEF BuiltFrom
  <2> DEFINE ir == FromParserOutput(data, SourceType(upload, data))
  <2>13. \E n \in DOMAIN ir.blocks : ir.blocks[n].text = b.text /\ ir.blocks[n].review
    <3>1. data.blocks # <<>>
      BY <2>3
    <3> HIDE DEF data
    <3> QED BY <2>5, <2>11, <3>1, DoubtListed DEF data
  <2> HIDE DEF ir
  <2> QED BY <2>12, <2>13 DEF ir
<1> QED BY <1>1, StagesFollow, PTL

-----------------------------------------------------------------------------
(* The rows of a table, and the cells a template's field is read from.      *)
LEMMA GreatestIs ==
    ASSUME NEW S \in SUBSET Nat, IsFiniteSet(S), S # {}
    PROVE  \E n \in S : \A m \in S : m <= n
<1> DEFINE N == Cardinality(S)
           a == Ascending(S)
<1>1. /\ N \in Nat
      /\ \A k \in 1..N : a[k] \in S
      /\ \A j, k \in 1..N : j < k => a[j] < a[k]
      /\ \A n \in S : \E k \in 1..N : a[k] = n
  BY AscendingIs, Zenon
<1> HIDE DEF N, a
<1>2. N \in 1..N
  <2>1. PICK n \in S : TRUE
    OBVIOUS
  <2>2. PICK k \in 1..N : a[k] = n
    BY <1>1
  <2> QED BY <1>1, <2>2
<1>3. ASSUME NEW m \in S PROVE m <= a[N]
  <2>1. PICK k \in 1..N : a[k] = m
    BY <1>1
  <2>2. CASE k = N
    <3>1. m = a[N] /\ m \in Nat
      BY <2>1, <2>2
    <3> QED BY <3>1
  <2>3. CASE k # N
    <3>1. k < N
      BY <1>1, <2>1, <2>3
    <3>2. a[k] < a[N]
      BY <1>1, <1>2, <2>1, <3>1
    <3>3. a[k] \in Nat /\ a[N] \in Nat
      BY <1>1, <1>2, <2>1
    <3> QED BY <2>1, <3>2, <3>3
  <2> QED BY <2>2, <2>3
<1> QED BY <1>1, <1>2, <1>3

LEMMA LinesListed ==
    ASSUME NEW text
    PROVE  Listed(LinesOf(text)) /\ \A l \in DOMAIN LinesOf(text) : Listed(LinesOf(text)[l])
<1>1. CASE text \in DOMAIN TextContents
  <2> DEFINE lines == TextContents[text]
  <2>1. IsSequence(lines) /\ \A l \in DOMAIN lines : IsSequence(lines[l])
    BY <1>1, ContentsAssumption, Zenon
  <2>2. LinesOf(text) = lines
    BY <1>1, Zenon DEF LinesOf
  <2> HIDE DEF lines
  <2>3. Listed(lines) /\ \A l \in DOMAIN lines : Listed(lines[l])
    BY <2>1, SequenceIsListed, Zenon
  <2> QED BY <2>2, <2>3, Zenon
<1>2. CASE text \notin DOMAIN TextContents
  <2>1. LinesOf(text) = <<>>
    BY <1>2, Zenon DEF LinesOf
  <2>2. Listed(<<>>) /\ DOMAIN <<>> = {}
    BY DEF Listed
  <2> QED BY <2>1, <2>2, Zenon
<1> QED BY <1>1, <1>2

LEMMA RowsListed ==
    ASSUME NEW text, NEW source
    PROVE  LET rows == TableRows(text, source)
           IN  Listed(rows) /\ \A i \in DOMAIN rows : Listed(rows[i])
<1> DEFINE lines == LinesOf(text)
           kept == {i \in DOMAIN lines : ~Blank(lines[i])}
           rows == Picked(lines, kept)
           lens == {Len(rows[i]) : i \in DOMAIN rows}
           width == CHOOSE n \in lens : \A i \in DOMAIN rows : Len(rows[i]) <= n
           cells(i) == [c \in 1..width |-> IF c <= Len(rows[i]) THEN rows[i][c] ELSE <<>>]
           padded == [i \in DOMAIN rows |-> cells(i)]
<1>1. TableRows(text, source) = IF source # "xlsx" \/ rows = <<>> THEN rows ELSE padded
  BY Zenon DEF TableRows
<1>2. Listed(lines) /\ \A l \in DOMAIN lines : Listed(lines[l])
  BY LinesListed, Zenon
<1> HIDE DEF lines
<1>3. kept \in SUBSET DOMAIN lines
  OBVIOUS
<1> HIDE DEF kept
<1>4. Listed(rows) /\ \A k \in DOMAIN rows : \E n \in kept : rows[k] = lines[n]
  BY <1>2, <1>3, PickedIs, Zenon
<1> HIDE DEF rows
<1>5. \A i \in DOMAIN rows : Listed(rows[i])
  <2> TAKE i \in DOMAIN rows
  <2>1. PICK n \in kept : rows[i] = lines[n]
    BY <1>4, Zenon
  <2> QED BY <1>2, <1>3, <2>1
<1>6. ASSUME rows # <<>> PROVE width \in Nat
  <2>1. lens \in SUBSET Nat
    BY <1>5 DEF Listed
  <2>2. lens # {}
    BY <1>4, <1>6, NonemptyHasFirst
  <2>3. IsFiniteSet(lens)
    <3>1. IsFiniteSet(DOMAIN rows)
      BY <1>4, ListDomainFinite
    <3> DEFINE f == [i \in DOMAIN rows |-> Len(rows[i])]
    <3>2. f = [x \in DOMAIN rows |-> f[x]] /\ lens = {f[x] : x \in DOMAIN rows}
      OBVIOUS
    <3> HIDE DEF f, lens
    <3>3. IsFiniteSet({f[x] : x \in DOMAIN rows})
      BY <3>1, <3>2, ImageIsFinite, Zenon
    <3> QED BY <3>2, <3>3
  <2> HIDE DEF lens
  <2>4. \E n \in lens : \A m \in lens : m <= n
    BY <2>1, <2>2, <2>3, GreatestIs, Zenon
  <2>5. \E n \in lens : \A i \in DOMAIN rows : Len(rows[i]) <= n
    BY <2>4 DEF lens
  <2>6. (CHOOSE n \in lens : \A i \in DOMAIN rows : Len(rows[i]) <= n) \in lens
    BY <2>5, Zenon
  <2> QED BY <2>1, <2>6
<1> HIDE DEF width
<1>7. ASSUME rows # <<>>
      PROVE  Listed(padded) /\ \A i \in DOMAIN padded : Listed(padded[i])
  <2>1. padded = [i \in DOMAIN rows |-> padded[i]]
    OBVIOUS
  <2>2. ASSUME NEW i \in DOMAIN rows PROVE Listed(padded[i])
    <3> DEFINE s == cells(i)
    <3>1. s = [c \in 1..width |-> s[c]]
      OBVIOUS
    <3>2. padded[i] = s
      OBVIOUS
    <3> HIDE DEF s, padded
    <3>3. Listed(s)
      BY <1>6, <1>7, <3>1, FunctionIsListed, Zenon
    <3> QED BY <3>2, <3>3
  <2>3. DOMAIN padded = DOMAIN rows
    OBVIOUS
  <2> HIDE DEF padded
  <2>4. Listed(padded)
    BY <1>4, <2>1, ChangeIsListed, Zenon
  <2> QED BY <2>2, <2>3, <2>4
<1> HIDE DEF padded
<1> QED BY <1>1, <1>4, <1>5, <1>7, Zenon

\* Where cells are not merged, a column is a cell of that name.
LEMMA SpanNamed ==
    ASSUME NEW row, Listed(row), NEW label
    PROVE  LET at == ColumnSpan(row, label, FALSE).at
           IN  at = 0 \/ (at \in DOMAIN row /\ row[at] = label)
<1> DEFINE exact == {i \in DOMAIN row : row[i] = label}
           span == ColumnSpan(row, label, FALSE)
<1>1. CASE exact = {}
  <2>1. span = [at |-> 0, count |-> 0]
    BY <1>1, Zenon DEF ColumnSpan
  <2> HIDE DEF span
  <2>2. span.at = 0
    BY <2>1
  <2> QED BY <2>2, Zenon DEF span
<1>2. CASE exact # {}
  <2>1. span = [at |-> FirstOf(exact), count |-> 1]
    BY <1>2, Zenon DEF ColumnSpan
  <2>2. exact \in SUBSET Nat
    BY DEF Listed
  <2> HIDE DEF span, exact
  <2>3. FirstOf(exact) \in exact
    BY <1>2, <2>2, FirstOfIs, Zenon
  <2>4. span.at \in exact
    BY <2>1, <2>3
  <2> QED BY <2>4 DEF exact, span
<1> QED BY <1>1, <1>2

\* What is left of a row after its anchor, in the columns it had.
Cut(row, cut) ==
    /\ cut.offset \in Nat /\ Listed(cut.columns)
    /\ \A at \in DOMAIN cut.columns :
          /\ at \in Nat /\ at >= 1 /\ cut.offset + at \in DOMAIN row
          /\ row[cut.offset + at] = cut.columns[at]

LEMMA AfterAnchor ==
    ASSUME NEW row, Listed(row), NEW anchor
    PROVE  Cut(row, ExcludingAnchor(row, anchor, TRUE))
<1> DEFINE cell == {i \in DOMAIN row : TextMatches(anchor.text, row[i], anchor.mode)}
           joined(i, j) == FlattenSeq(SubSeq(row, i, j))
           ends(s) == {e \in s..Len(row) : TextMatches(anchor.text, joined(s, e), anchor.mode)}
           spans == {s \in DOMAIN row : \E e \in s..Len(row) :
                       TextMatches(anchor.text, joined(s, e), anchor.mode)}
           from == IF cell # {} THEN FirstOf(cell) ELSE FirstOf(spans)
           to == IF cell # {} THEN from ELSE FirstOf(ends(from))
           cut == ExcludingAnchor(row, anchor, TRUE)
<1>1. cut = CASE anchor.text = <<>> -> [columns |-> row, offset |-> 0]
              [] anchor.text # <<>> /\ cell \cup spans = {} -> [columns |-> <<>>, offset |-> 0]
              [] OTHER -> [columns |-> SubSeq(row, to + 1, Len(row)),
                           offset |-> IF TRUE \/ from > 1 THEN to ELSE 0]
  BY Zenon DEF ExcludingAnchor
<1>2. Len(row) \in Nat /\ DOMAIN row = 1..Len(row)
  BY DEF Listed
<1>3. cell \cup spans # {} => to \in DOMAIN row
  <2> SUFFICES ASSUME cell \cup spans # {} PROVE to \in DOMAIN row
    OBVIOUS
  <2>1. CASE cell # {}
    <3>1. cell \in SUBSET Nat
      BY <1>2
    <3>2. FirstOf(cell) \in cell
      BY <2>1, <3>1, FirstOfIs, Zenon
    <3>3. to = FirstOf(cell)
      BY <2>1
    <3> HIDE DEF to
    <3> QED BY <3>2, <3>3
  <2>2. CASE cell = {}
    <3>1. spans \in SUBSET Nat /\ spans # {}
      BY <1>2, <2>2
    <3>2. FirstOf(spans) \in spans
      BY <3>1, FirstOfIs, Zenon
    <3> DEFINE s == FirstOf(spans)
    <3>3. to = FirstOf(ends(s))
      BY <2>2
    <3>4. s \in DOMAIN row /\ \E e \in s..Len(row) :
             TextMatches(anchor.text, joined(s, e), anchor.mode)
      BY <3>2
    <3> HIDE DEF to, s, joined
    <3>5. ends(s) \in SUBSET Nat /\ ends(s) # {}
      BY <1>2, <3>4
    <3> DEFINE E == ends(s)
    <3>6. E \in SUBSET (s..Len(row))
      OBVIOUS
    <3> HIDE DEF E
    <3>7. FirstOf(E) \in E
      BY <3>5, FirstOfIs, Zenon DEF E
    <3>8. FirstOf(E) \in s..Len(row) /\ s \in 1..Len(row)
      BY <1>2, <3>4, <3>6, <3>7
    <3>9. FirstOf(E) \in DOMAIN row
      BY <1>2, <3>8
    <3> QED BY <3>3, <3>9 DEF E
  <2> QED BY <2>1, <2>2
<1> HIDE DEF to, from
<1>4. CASE anchor.text = <<>>
  <2>1. cut = [columns |-> row, offset |-> 0]
    BY <1>1, <1>4
  <2> HIDE DEF cut
  <2>2. Cut(row, cut)
    BY <1>2, <2>1 DEF Cut
  <2> QED BY <2>2 DEF cut
<1>5. CASE anchor.text # <<>> /\ cell \cup spans = {}
  <2>1. cut = [columns |-> <<>>, offset |-> 0]
    BY <1>1, <1>5
  <2> HIDE DEF cut
  <2>3. Listed(<<>>) /\ DOMAIN <<>> = {}
    BY DEF Listed
  <2>2. Cut(row, cut)
    BY <2>1, <2>3 DEF Cut
  <2> QED BY <2>2 DEF cut
<1>6. CASE anchor.text # <<>> /\ cell \cup spans # {}
  <2> DEFINE rest == SubSeq(row, to + 1, Len(row))
  <2>1. cut = [columns |-> rest, offset |-> to]
    <3> DEFINE offset == IF TRUE \/ from > 1 THEN to ELSE 0
    <3>1. offset = to
      OBVIOUS
    <3>2. cut = [columns |-> rest, offset |-> offset]
      <4> HIDE DEF rest, cell, spans, cut, offset
      <4> QED BY <1>1, <1>6 DEF rest, offset
    <3> HIDE DEF offset
    <3> QED BY <3>1, <3>2
  <2>2. to \in 1..Len(row)
    BY <1>2, <1>3, <1>6
  <2>3. /\ DOMAIN rest = 1..(Len(row) - to) /\ Listed(rest)
        /\ \A at \in DOMAIN rest : rest[at] = row[to + at]
    <3> HIDE DEF cell, spans, cut
    <3>1. DOMAIN rest = 1..(Len(row) - to) /\ \A at \in DOMAIN rest : rest[at] = row[to + at]
      BY <1>2, <2>2
    <3>2. rest = [i \in 1..(Len(row) - to) |-> rest[i]] /\ Len(row) - to \in Nat
      BY <1>2, <2>2
    <3> HIDE DEF rest
    <3>3. Listed(rest)
      BY <3>2, FunctionIsListed, Zenon
    <3> QED BY <3>1, <3>3
  <2> HIDE DEF cut, rest
  <2>4. cut.offset = to /\ cut.columns = rest
    BY <2>1
  <2>5. Cut(row, cut)
    <3> HIDE DEF cell, spans
    <3> QED BY <1>2, <2>2, <2>3, <2>4 DEF Cut
  <2> QED BY <2>5 DEF cut
<1> QED BY <1>4, <1>5, <1>6

\* A header candidate holds the cells of its row, in their columns.
HeaderIn(rows, h) ==
    /\ h.row \in DOMAIN rows /\ h.offset \in Nat /\ LeadingColumns(h.repeats) \in Int
    /\ Listed(h.header)
    /\ \A at \in DOMAIN h.header :
          /\ at \in Nat /\ at >= 1 /\ rows[h.row][h.offset + at] = h.header[at]

RowsIn(rows) == Listed(rows) /\ \A i \in DOMAIN rows : Listed(rows[i])

LEMMA PlainHeader ==
    ASSUME NEW rows, RowsIn(rows), NEW i \in DOMAIN rows
    PROVE  HeaderIn(rows, HeaderCandidate(i, rows[i], 0, <<rows[i]>>))
<1> DEFINE h == HeaderCandidate(i, rows[i], 0, <<rows[i]>>)
<1>1. h.row = i /\ h.header = rows[i] /\ h.offset = 0 /\ h.repeats = <<rows[i]>>
  BY DEF HeaderCandidate
<1>4. LeadingColumns(<<rows[i]>>) = 0
  <2>1. Len(<<rows[i]>>) < 2
    OBVIOUS
  <2> QED BY <2>1, Zenon DEF LeadingColumns
<1>2. \A at \in DOMAIN rows[i] : at \in Nat /\ at >= 1
  BY DEF RowsIn, Listed
<1>5. Listed(rows[i])
  BY DEF RowsIn
<1> HIDE DEF h
<1>3. HeaderIn(rows, h)
  BY <1>1, <1>2, <1>4, <1>5 DEF HeaderIn
<1> QED BY <1>3 DEF h

LEMMA HeaderAtIs ==
    ASSUME NEW rows, RowsIn(rows), NEW i \in DOMAIN rows, NEW anchor
    PROVE  HeaderIn(rows, HeaderAt(rows, i, anchor, TRUE))
<1> DEFINE cut == ExcludingAnchor(rows[i], anchor, TRUE)
           one == HeaderCandidate(i, cut.columns, cut.offset, <<cut.columns, rows[i]>>)
           whole == HeaderCandidate(i, rows[i], 0, <<rows[i]>>)
<1>1. HeaderAt(rows, i, anchor, TRUE)
        = IF i = AnchorRow(rows, anchor) /\ cut.columns # <<>> THEN one ELSE whole
  BY Zenon DEF HeaderAt
<1>2. HeaderIn(rows, whole)
  BY PlainHeader, Zenon
<1>3. Cut(rows[i], cut)
  BY AfterAnchor, Zenon DEF RowsIn
<1> HIDE DEF cut
<1>4. HeaderIn(rows, one)
  <2> DEFINE repeats == <<cut.columns, rows[i]>>
  <2>1. /\ one.row = i /\ one.header = cut.columns /\ one.offset = cut.offset
        /\ one.repeats = repeats
    BY DEF HeaderCandidate
  <2>2. LeadingColumns(repeats) \in Int
    <3> DEFINE n == Len(rows[i]) - Len(cut.columns)
    <3>1. n \in Int
      BY <1>3 DEF Cut, RowsIn, Listed
    <3>2. repeats[1] = cut.columns /\ repeats[2] = rows[i]
      OBVIOUS
    <3> HIDE DEF repeats
    <3>3. LeadingColumns(repeats) = 0 \/ LeadingColumns(repeats) = Len(repeats[2]) - Len(repeats[1])
      BY Zenon DEF LeadingColumns
    <3> QED BY <3>1, <3>2, <3>3
  <2> HIDE DEF one, repeats
  <2> QED BY <1>3, <2>1, <2>2 DEF Cut, HeaderIn
<1> HIDE DEF one, whole
<1>5. HeaderAt(rows, i, anchor, TRUE) \in {one, whole}
  BY <1>1
<1> QED BY <1>2, <1>4, <1>5, Zenon

\* In a workbook nothing is merged: a header is the anchor's row after the
\* anchor or a row below it, and it names the label.
LEMMA HeaderForIs ==
    ASSUME NEW rows, RowsIn(rows), NEW anchor, NEW label, NEW required,
           HeaderFor(rows, anchor, label, required, FALSE, TRUE) # NoHeader
    PROVE  HeaderIn(rows, HeaderFor(rows, anchor, label, required, FALSE, TRUE))
<1> DEFINE at == AnchorRow(rows, anchor)
           below == {i \in (at + 1)..Len(rows) : ~HeaderFragment(rows, i)}
           wrapped == Ascending(IF FALSE THEN Wrappable(rows, anchor) ELSE {})
           whole == [k \in DOMAIN wrapped |-> WrappedCandidate(rows, wrapped[k], anchor, TRUE)]
           joined == Picked(whole, {k \in DOMAIN whole : whole[k].header # <<>>})
           plain(i) == HeaderCandidate(i, rows[i], 0, <<rows[i]>>)
           under == [k \in 1..Cardinality(below) |-> plain(Ascending(below)[k])]
           all == <<HeaderAt(rows, at, anchor, TRUE)>> \o joined \o under
           full(c) == /\ \/ c.row = at
                         \/ ~(Len(c.header) = 1 /\ c.row < Len(rows) /\ Len(rows[c.row + 1]) > 1)
                      /\ RowColumnScore(c.header, required, FALSE) = Cardinality(required)
           hits == {k \in DOMAIN all : full(all[k])}
           h == HeaderFor(rows, anchor, label, required, FALSE, TRUE)
<1>1. rows # <<>> /\ \/ hits # {} /\ h = all[FirstOf(hits)]
                     \/ h = HeaderAt(rows, at, anchor, TRUE)
                     \/ below # {} /\ h = HeaderAt(rows, FirstOf(below), anchor, TRUE)
  <2> DEFINE names(c) == ColumnSpan(c.header, label, FALSE).at > 0
             named(c) == IF names(c) THEN c ELSE NoHeader
  <2>2. h = CASE rows = <<>> -> NoHeader
              [] rows # <<>> /\ required # {} ->
                    IF hits = {} THEN NoHeader ELSE named(all[FirstOf(hits)])
              [] OTHER ->
                    IF ColumnSpan(ColumnsAfterAnchor(rows[at], anchor), label, FALSE).at > 0
                    THEN HeaderAt(rows, at, anchor, TRUE)
                    ELSE IF below # {} /\ ColumnSpan(rows[FirstOf(below)], label, FALSE).at > 0
                    THEN HeaderAt(rows, FirstOf(below), anchor, TRUE)
                    ELSE NoHeader
    BY Zenon DEF HeaderFor
  <2> HIDE DEF names, all, at, hits, below, h
  <2>3. h # NoHeader
    BY DEF h
  <2> QED BY <2>2, <2>3
<1>2. DOMAIN rows = 1..Len(rows) /\ Len(rows) \in Nat /\ 1 \in DOMAIN rows
  <2>1. 1 \in DOMAIN rows
    BY <1>1, NonemptyHasFirst DEF RowsIn
  <2> QED BY <2>1 DEF RowsIn, Listed
<1>3. at \in DOMAIN rows
  <2> DEFINE S == {i \in DOMAIN rows : RowMatchesAnchor(rows[i], anchor)}
  <2>1. at = IF S = {} THEN 1 ELSE FirstOf(S)
    BY Zenon DEF AnchorRow
  <2>2. S \in SUBSET Nat
    BY <1>2
  <2>3. S # {} => FirstOf(S) \in S
    BY <2>2, FirstOfIs, Zenon
  <2>4. S \in SUBSET DOMAIN rows
    OBVIOUS
  <2> HIDE DEF S, at
  <2> QED BY <1>2, <2>1, <2>3, <2>4
<1> HIDE DEF h, at
<1>4. below \in SUBSET DOMAIN rows /\ below \in SUBSET Nat /\ IsFiniteSet(below)
  <2>1. below \in SUBSET (1..Len(rows))
    BY <1>2, <1>3
  <2>2. IsFiniteSet(1..Len(rows))
    BY <1>2, FS_Interval
  <2>3. IsFiniteSet(below)
    BY <2>1, <2>2, FS_Subset
  <2> QED BY <1>2, <2>1, <2>3
<1>5. ASSUME NEW k \in DOMAIN all PROVE HeaderIn(rows, all[k])
  <2>1. HeaderIn(rows, HeaderAt(rows, at, anchor, TRUE))
    BY <1>3, HeaderAtIs, Zenon
  <2>2. joined = <<>>
    <3>1. wrapped = [n \in 1..0 |-> wrapped[n]] /\ DOMAIN wrapped = {}
      <4>1. Cardinality({}) = 0 /\ IsFiniteSet({})
        BY FS_EmptySet
      <4> DEFINE S == IF FALSE THEN Wrappable(rows, anchor) ELSE {}
                 pick(n) == CHOOSE m \in S : Cardinality({x \in S : x <= m}) = n
      <4>2. wrapped = [n \in 1..Cardinality(S) |-> pick(n)]
        BY Zenon DEF Ascending
      <4>4. S = {}
        OBVIOUS
      <4> HIDE DEF pick, S
      <4>3. wrapped = [n \in 1..0 |-> pick(n)]
        BY <4>1, <4>2, <4>4
      <4> HIDE DEF wrapped
      <4> QED BY <4>3
    <3> HIDE DEF wrapped
    <3>2. DOMAIN whole = {}
      BY <3>1
    <3> DEFINE P == {n \in DOMAIN whole : whole[n].header # <<>>}
    <3>3. P = {}
      BY <3>2
    <3>4. joined = [n \in 1..Cardinality(P) |-> whole[Ascending(P)[n]]]
      BY Zenon DEF Picked
    <3> HIDE DEF joined, P, whole
    <3>5. Cardinality(P) = 0
      BY <3>3, FS_EmptySet
    <3> QED BY <3>4, <3>5
  <2>3. Listed(under) /\ \A n \in DOMAIN under : HeaderIn(rows, under[n])
    <3>1. Cardinality(below) \in Nat /\ \A n \in 1..Cardinality(below) : Ascending(below)[n] \in below
      BY <1>4, AscendingIs, Zenon
    <3> HIDE DEF below
    <3>2. \A i \in DOMAIN rows : HeaderIn(rows, plain(i))
      BY PlainHeader, Zenon
    <3> HIDE DEF plain
    <3>3. under = [n \in 1..Cardinality(below) |-> under[n]]
      OBVIOUS
    <3>4. \A n \in 1..Cardinality(below) : under[n] = plain(Ascending(below)[n])
      OBVIOUS
    <3> HIDE DEF under
    <3>5. Listed(under) /\ DOMAIN under = 1..Cardinality(below)
      BY <3>1, <3>3, FunctionIsListed, Zenon
    <3>6. ASSUME NEW n \in 1..Cardinality(below) PROVE HeaderIn(rows, under[n])
      <4>1. Ascending(below)[n] \in DOMAIN rows
        BY <1>4, <3>1
      <4> QED BY <3>2, <3>4, <4>1, Zenon
    <3> QED BY <3>5, <3>6
  <2> DEFINE top == HeaderAt(rows, at, anchor, TRUE)
  <2> HIDE DEF joined, under, top
  <2>4. all = <<top>> \o joined \o under
    BY DEF top
  <2> HIDE DEF all
  <2>5. Listed(<<top>>) /\ DOMAIN <<top>> = {1} /\ Len(<<top>>) = 1 /\ <<top>>[1] = top
    BY DEF Listed
  <2>6. <<top>> \o joined = <<top>>
    <3>1. <<top>> \o <<>> = <<top>>
      OBVIOUS
    <3> QED BY <2>2, <3>1
  <2>7. all = <<top>> \o under
    BY <2>4, <2>6
  <2>8. /\ DOMAIN (<<top>> \o under) = 1..(1 + Len(under))
        /\ \A n \in DOMAIN <<top>> : (<<top>> \o under)[n] = <<top>>[n]
        /\ \A n \in DOMAIN under : (<<top>> \o under)[1 + n] = under[n]
    BY <2>3, <2>5, JoinedLists
  <2>9. CASE k = 1
    BY <2>1, <2>5, <2>7, <2>8, <2>9 DEF top
  <2>10. CASE k # 1
    <3> DEFINE n == k - 1
    <3>1. Len(under) \in Nat /\ DOMAIN under = 1..Len(under)
      BY <2>3 DEF Listed
    <3>2. k \in 1..(1 + Len(under))
      BY <2>7, <2>8
    <3>3. n \in DOMAIN under /\ k = 1 + n
      BY <2>10, <3>1, <3>2
    <3>4. all[k] = under[n]
      BY <2>7, <2>8, <3>3
    <3> QED BY <2>3, <3>3, <3>4
  <2> QED BY <2>9, <2>10
<1>6. hits # {} => HeaderIn(rows, all[FirstOf(hits)])
  <2> SUFFICES ASSUME hits # {} PROVE HeaderIn(rows, all[FirstOf(hits)])
    OBVIOUS
  <2>1. hits \in SUBSET DOMAIN all
    OBVIOUS
  <2>2. DOMAIN all \in SUBSET Nat
    <3> DEFINE s == <<HeaderAt(rows, at, anchor, TRUE)>> \o joined
    <3> HIDE DEF joined, under, s
    <3> QED OBVIOUS
  <2> HIDE DEF hits, all
  <2>3. FirstOf(hits) \in hits
    BY <2>1, <2>2, FirstOfIs
  <2> QED BY <1>5, <2>1, <2>3
<1>7. HeaderIn(rows, HeaderAt(rows, at, anchor, TRUE))
  BY <1>3, HeaderAtIs, Zenon
<1>8. below # {} => HeaderIn(rows, HeaderAt(rows, FirstOf(below), anchor, TRUE))
  <2> HIDE DEF below
  <2> SUFFICES ASSUME below # {} PROVE HeaderIn(rows, HeaderAt(rows, FirstOf(below), anchor, TRUE))
    OBVIOUS
  <2>1. FirstOf(below) \in DOMAIN rows
    BY <1>4, FirstOfIs, Zenon
  <2> QED BY <2>1, HeaderAtIs, Zenon
<1>9. HeaderIn(rows, h)
  <2> HIDE DEF below, hits, all
  <2> QED BY <1>1, <1>6, <1>7, <1>8, Zenon
<1> QED BY <1>9 DEF h

\* A column is moved to the right only where a cell in front is empty.
LEMMA PlaceOfColumn ==
    ASSUME NEW row, Listed(row), NEW column \in Nat, column >= 1,
           NEW repeats, LeadingColumns(repeats) \in Int,
           \A c \in 1..(PhysicalColumn(row, column, repeats) - 1) : row[c] # <<>>
    PROVE  PhysicalColumn(row, column, repeats) = column
<1> DEFINE n == LeadingColumns(repeats)
           front == SubSeq(row, 1, n)
           place == PhysicalColumn(row, column, repeats)
<1>1. place = IF n > 0 /\ Len(row) >= column + n /\ Blank(front) THEN column + n ELSE column
  BY Zenon DEF PhysicalColumn
<1>2. \A c \in 1..(place - 1) : row[c] # <<>>
  OBVIOUS
<1>3. n \in Int
  OBVIOUS
<1> HIDE DEF n, place
<1> SUFFICES ASSUME n > 0, Len(row) >= column + n, Blank(front), place = column + n
             PROVE  FALSE
  BY <1>1 DEF place
<1>4. Len(row) \in Nat /\ DOMAIN row = 1..Len(row)
  BY DEF Listed
<1>5. 1 \in DOMAIN front /\ front[1] = row[1]
  BY <1>3, <1>4
<1>6. row[1] = <<>>
  <2> HIDE DEF front
  <2> QED BY <1>5 DEF Blank
<1>7. 1 \in 1..(place - 1)
  BY <1>3
<1> QED BY <1>2, <1>6, <1>7

\* The cell of a value is below cell "at" of the header.
UnderHeader(rows, h, at, v) ==
    h.row \in 1..(v.row - 1) /\ rows[h.row][v.column] = h.header[at]

LEMMA ValueUnderHeader ==
    ASSUME NEW rows, RowsIn(rows), NEW h, HeaderIn(rows, h), NEW at \in DOMAIN h.header,
           NEW column, column = h.offset + at, NEW count,
           NEW v, v = BodyValue(rows, h, column, count), v.value # <<>>,
           \A c \in 1..(v.column - 1) : rows[v.row][c] # <<>>
    PROVE  UnderHeader(rows, h, at, v)
<1> DEFINE place(i) == PhysicalColumn(rows[i], column, h.repeats)
           hits == {i \in (h.row + 1)..Len(rows) :
                   /\ IsBodyRow(rows[i], h.repeats)
                   /\ CellValue(rows[i], place(i), count) # <<>>}
           first == FirstOf(hits)
<1>1. v = IF hits = {} THEN NoValue
          ELSE [value |-> CellValue(rows[first], place(first), count),
                block |-> 0, row |-> first, column |-> place(first)]
  BY Zenon DEF BodyValue
<1>2. /\ h.row \in DOMAIN rows /\ DOMAIN rows = 1..Len(rows) /\ Len(rows) \in Nat
      /\ h.offset \in Nat /\ at \in Nat /\ at >= 1 /\ LeadingColumns(h.repeats) \in Int
      /\ rows[h.row][column] = h.header[at]
  BY DEF HeaderIn, RowsIn, Listed
<1>3. hits # {}
  <2> SUFFICES ASSUME hits = {} PROVE FALSE
    OBVIOUS
  <2> HIDE DEF hits
  <2>1. v = NoValue
    BY <1>1
  <2> QED BY <2>1 DEF NoValue
<1>4. hits \in SUBSET Nat /\ hits \in SUBSET ((h.row + 1)..Len(rows))
  BY <1>2
<1>5. first \in hits
  <2> HIDE DEF hits
  <2> QED BY <1>3, <1>4, FirstOfIs
<1>6. v.row = first /\ v.column = place(first)
  <2> DEFINE value == CellValue(rows[first], place(first), count)
             p == place(first)
  <2>1. v = [value |-> value, block |-> 0, row |-> first, column |-> p]
    BY <1>1, <1>3
  <2> HIDE DEF value, p, first
  <2>2. v.row = first /\ v.column = p
    BY <2>1
  <2> QED BY <2>2 DEF p
<1>7. first \in (h.row + 1)..Len(rows)
  <2> HIDE DEF first, hits
  <2> QED BY <1>4, <1>5
<1> HIDE DEF first, hits
<1>8. first \in DOMAIN rows /\ h.row \in 1..(first - 1)
  BY <1>2, <1>7
<1>9. Listed(rows[first])
  BY <1>8 DEF RowsIn
<1>10. column \in Nat /\ column >= 1
  BY <1>2
<1>11. place(first) = column
  <2>1. \A c \in 1..(place(first) - 1) : rows[first][c] # <<>>
    BY <1>6
  <2> QED BY <1>2, <1>9, <1>10, <2>1, PlaceOfColumn
<1> HIDE DEF place
<1> QED BY <1>2, <1>6, <1>8, <1>11 DEF UnderHeader

\* A value read from block b: the header, the column of the label, the cell.
ReadFrom(b, source, anchor, label, required, v) ==
    LET rows == TableRows(b.text, source)
        h == HeaderFor(rows, anchor, label, required, Merges(source), source = "xlsx")
        span == ColumnSpan(h.header, label, Merges(source))
        w == BodyValue(rows, h, h.offset + span.at, span.count)
    IN  /\ h # NoHeader /\ span.at # 0 /\ w.value # <<>>
        /\ v = [w EXCEPT !.block = b.id]

LEMMA CellRead ==
    ASSUME NEW ir, NEW field, NEW anchor, NEW blocks, Listed(blocks), NEW required,
           NEW v, v = TableCell(ir, field, anchor, blocks, required), v.value # <<>>
    PROVE  \E n \in DOMAIN blocks :
              ReadFrom(blocks[n], ir.source, anchor, field.label, required, v)
<1> DEFINE merges == Merges(ir.source)
           rows(b) == TableRows(b.text, ir.source)
           complete(b) == RequiredColumnScore(rows(b), anchor, required, merges) = Cardinality(required)
           fit == {i \in DOMAIN blocks : required = {} \/ complete(blocks[i])}
           usable == Picked(blocks, fit)
           header(b) == HeaderFor(rows(b), anchor, field.label, required, merges,
                                  ir.source = "xlsx")
           span(b) == ColumnSpan(header(b).header, field.label, merges)
           body(b) == BodyValue(rows(b), header(b), header(b).offset + span(b).at, span(b).count)
           read(b) == IF header(b) = NoHeader \/ span(b).at = 0 THEN NoValue
                      ELSE IF body(b).value = <<>> THEN NoValue
                      ELSE [body(b) EXCEPT !.block = b.id]
           all == [i \in DOMAIN usable |-> read(usable[i])]
           hits == {i \in DOMAIN all : all[i].value # <<>>}
<1>1. v = IF hits = {} THEN NoValue ELSE all[FirstOf(hits)]
  <2>1. v = FirstFound(all)
    BY Zenon DEF TableCell
  <2> HIDE DEF all
  <2> QED BY <2>1, Zenon DEF FirstFound
<1>2. fit \in SUBSET DOMAIN blocks
  OBVIOUS
<1> HIDE DEF fit
<1>3. Listed(usable) /\ \A k \in DOMAIN usable : \E n \in fit : usable[k] = blocks[n]
  BY <1>2, PickedIs, Zenon
<1> HIDE DEF usable
<1>4. hits # {}
  <2> SUFFICES ASSUME hits = {} PROVE FALSE
    OBVIOUS
  <2> HIDE DEF hits, all
  <2>1. v = NoValue
    BY <1>1
  <2> QED BY <2>1 DEF NoValue
<1>5. hits \in SUBSET DOMAIN usable
  OBVIOUS
<1>6. hits \in SUBSET Nat
  <2> HIDE DEF hits
  <2> QED BY <1>3, <1>5 DEF Listed
<1>7. FirstOf(hits) \in hits
  <2> HIDE DEF hits
  <2> QED BY <1>4, <1>6, FirstOfIs, Zenon
<1> DEFINE k == FirstOf(hits)
<1>8. k \in DOMAIN usable
  BY <1>5, <1>7
<1>9. v = read(usable[k])
  <2>1. v = all[k]
    <3> HIDE DEF hits, all
    <3> QED BY <1>1, <1>4 DEF k
  <2> HIDE DEF k, read
  <2> QED BY <1>8, <2>1
<1> HIDE DEF k
<1>10. PICK n \in fit : usable[k] = blocks[n]
  BY <1>3, <1>8, Zenon
<1>11. n \in DOMAIN blocks
  BY <1>2, <1>10
<1> DEFINE b == blocks[n]
<1>12. v = read(b)
  <2> HIDE DEF read
  <2> QED BY <1>9, <1>10
<1>13. /\ header(b) # NoHeader /\ span(b).at # 0 /\ body(b).value # <<>>
       /\ v = [body(b) EXCEPT !.block = b.id]
  <2> DEFINE hh == header(b)
             ss == span(b)
             ww == body(b)
  <2>1. v = IF hh = NoHeader \/ ss.at = 0 THEN NoValue
            ELSE IF ww.value = <<>> THEN NoValue ELSE [ww EXCEPT !.block = b.id]
    BY <1>12
  <2>2. NoValue.value = <<>>
    BY DEF NoValue
  <2> HIDE DEF hh, ss, ww, b, header, span, body
  <2>3. /\ hh # NoHeader /\ ss.at # 0 /\ ww.value # <<>>
        /\ v = [ww EXCEPT !.block = b.id]
    BY <2>1, <2>2
  <2> QED BY <2>3 DEF hh, ss, ww
<1>14. ReadFrom(b, ir.source, anchor, field.label, required, v)
  <2> HIDE DEF b
  <2> QED BY <1>13, Zenon DEF ReadFrom
<1> QED BY <1>11, <1>14

LEMMA FieldRead ==
    ASSUME NEW ir, Listed(ir.blocks), NEW t, NEW f, f.direction = "table_cell",
           NEW v, v = ExtractField(ir, t, f), v.value # <<>>
    PROVE  \E n \in DOMAIN ir.blocks : \E anchor, required :
              ReadFrom(ir.blocks[n], ir.source, anchor, f.label, required, v)
<1> DEFINE anchors == {i \in DOMAIN t.anchors : t.anchors[i].id = f.anchor}
           anchor == t.anchors[FirstOf(anchors)]
           blocks == BlocksOfAnchor(ir, anchor)
           tables == {i \in DOMAIN t.tables : t.tables[i].anchor = anchor.id}
           required == IF tables = {} THEN {} ELSE t.tables[FirstOf(tables)].required
<1>1. anchors = {} => v = NoValue
  BY Zenon DEF ExtractField
<1>2. anchors # {} => v = TableCell(ir, f, anchor, blocks, required)
  BY Zenon DEF ExtractField
<1>3. v # NoValue
  BY DEF NoValue
<1> HIDE DEF required, anchor
<1>4. v = TableCell(ir, f, anchor, blocks, required)
  BY <1>1, <1>2, <1>3, Zenon
<1>5. \E P \in SUBSET DOMAIN ir.blocks : blocks = Picked(ir.blocks, P)
  <2> DEFINE matches(b) ==
                IF anchor.kind = "table_header"
                THEN \E i \in DOMAIN TableRows(b.text, ir.source) :
                        RowMatchesAnchor(TableRows(b.text, ir.source)[i], anchor)
                ELSE TextMatches(anchor.text, Words(b.text), anchor.mode)
             P == {i \in DOMAIN ir.blocks :
                             AnchorScope(anchor, ir.blocks[i]) /\ matches(ir.blocks[i])}
  <2>1. blocks = Picked(ir.blocks, P)
    BY Zenon DEF BlocksOfAnchor
  <2>2. P \in SUBSET DOMAIN ir.blocks
    OBVIOUS
  <2> HIDE DEF P, blocks
  <2> QED BY <2>1, <2>2, Zenon
<1> HIDE DEF blocks
<1>6. Listed(blocks) /\ \A k \in DOMAIN blocks : \E n \in DOMAIN ir.blocks : blocks[k] = ir.blocks[n]
  <2>1. PICK P \in SUBSET DOMAIN ir.blocks : blocks = Picked(ir.blocks, P)
    BY <1>5, Zenon
  <2> DEFINE s == ir.blocks
             q == Picked(s, P)
  <2>2. Listed(q) /\ \A k \in DOMAIN q : \E n \in P : q[k] = s[n]
    BY PickedIs, Zenon
  <2>3. blocks = q
    BY <2>1
  <2> HIDE DEF q
  <2> QED BY <2>2, <2>3
<1>7. PICK k \in DOMAIN blocks : ReadFrom(blocks[k], ir.source, anchor, f.label, required, v)
  BY <1>4, <1>6, CellRead, Zenon
<1>8. PICK n \in DOMAIN ir.blocks : blocks[k] = ir.blocks[n]
  BY <1>6
<1>9. ReadFrom(ir.blocks[n], ir.source, anchor, f.label, required, v)
  BY <1>7, <1>8
<1> QED BY <1>9, Zenon

LEMMA ReadUnderLabel ==
    ASSUME NEW b, NEW anchor, NEW label, NEW required, NEW v,
           ReadFrom(b, "xlsx", anchor, label, required, v)
    PROVE  /\ v.block = b.id
           /\ LET rows == TableRows(b.text, "xlsx")
              IN  (\A c \in 1..(v.column - 1) : rows[v.row][c] # <<>>)
                    => \E r \in 1..(v.row - 1) : rows[r][v.column] = label
<1> DEFINE rows == TableRows(b.text, "xlsx")
           h == HeaderFor(rows, anchor, label, required, FALSE, TRUE)
           span == ColumnSpan(h.header, label, FALSE)
           w == BodyValue(rows, h, h.offset + span.at, span.count)
<1>1. /\ h # NoHeader /\ span.at # 0 /\ w.value # <<>>
      /\ v = [w EXCEPT !.block = b.id]
  <2>1. Merges("xlsx") = FALSE /\ ("xlsx" = "xlsx") = TRUE
    BY DEF Merges
  <2> DEFINE G == HeaderFor(rows, anchor, label, required, Merges("xlsx"), "xlsx" = "xlsx")
             S == ColumnSpan(G.header, label, Merges("xlsx"))
             W == BodyValue(rows, G, G.offset + S.at, S.count)
  <2>2. G # NoHeader /\ S.at # 0 /\ W.value # <<>> /\ v = [W EXCEPT !.block = b.id]
    BY Zenon DEF ReadFrom
  <2>3. G = h
    BY <2>1, Zenon
  <2>4. S = ColumnSpan(G.header, label, FALSE)
    BY <2>1, Zenon
  <2> HIDE DEF G
  <2>5. S = span
    BY <2>3, <2>4, Zenon
  <2> HIDE DEF S
  <2>6. W = w
    BY <2>3, <2>5, Zenon
  <2> HIDE DEF W
  <2> HIDE DEF h, span, w
  <2> QED BY <2>2, <2>3, <2>5, <2>6, Zenon
<1>2. RowsIn(rows)
  BY RowsListed, Zenon DEF RowsIn
<1> HIDE DEF rows
<1>3. HeaderIn(rows, h)
  BY <1>1, <1>2, HeaderForIs, Zenon
<1> HIDE DEF h
<1>4. span.at \in DOMAIN h.header /\ h.header[span.at] = label
  <2>1. Listed(h.header)
    BY <1>3 DEF HeaderIn
  <2> QED BY <1>1, <2>1, SpanNamed, Zenon
<1> HIDE DEF span
<1>5. /\ v.value = w.value /\ v.row = w.row /\ v.column = w.column /\ v.block = b.id
  <2>1. \E value, row, column : w = [value |-> value, block |-> 0, row |-> row, column |-> column]
    BY Zenon DEF BodyValue, NoValue
  <2> HIDE DEF w
  <2>2. PICK value, row, column : w = [value |-> value, block |-> 0, row |-> row, column |-> column]
    BY <2>1
  <2> QED BY <1>1, <2>2
<1>6. ASSUME \A c \in 1..(v.column - 1) : rows[v.row][c] # <<>>
      PROVE  \E r \in 1..(v.row - 1) : rows[r][v.column] = label
  <2>1. \A c \in 1..(w.column - 1) : rows[w.row][c] # <<>>
    BY <1>5, <1>6
  <2>2. h.row \in 1..(w.row - 1) /\ rows[h.row][w.column] = h.header[span.at]
    <3> DEFINE at == span.at
               count == span.count
               column == h.offset + at
    <3>1. at \in DOMAIN h.header /\ column = h.offset + at /\ w = BodyValue(rows, h, column, count)
      BY <1>4
    <3>2. w.value # <<>>
      BY <1>1
    <3> HIDE DEF w, at, count, column
    <3>3. UnderHeader(rows, h, at, w)
      BY <1>2, <1>3, <2>1, <3>1, <3>2, ValueUnderHeader
    <3> QED BY <3>3 DEF at, UnderHeader
  <2> HIDE DEF w
  <2> QED BY <1>4, <1>5, <2>2
<1> QED BY <1>5, <1>6 DEF rows

\* The pages of a workbook and its blocks, numbered through.
LEMMA WorkbookPages ==
    ASSUME NEW data, JsonShaped(data), Listed(data.sheets)
    PROVE  LET pages == ParserPages(data, "xlsx")
           IN  /\ Listed(pages)
               /\ \A p \in DOMAIN pages : Listed(pages[p].fragments) /\ Listed(pages[p].regions)
<1> DEFINE pages == ParserPages(data, "xlsx")
<1>1. CASE data.pages # <<>> /\ data.blocks # <<>>
  <2>1. pages = AdaptV0Blocks(data).pages
    BY <1>1, Zenon DEF ParserPages
  <2>2. pages = [i \in DOMAIN data.pages |-> AdaptPage(data, i)]
    BY <1>1, <2>1, AdaptedPages, Zenon DEF JsonShaped
  <2> HIDE DEF pages
  <2>3. Listed(data.pages)
    BY DEF JsonShaped, PagesShaped
  <2>4. pages = [i \in DOMAIN data.pages |-> pages[i]]
    BY <2>2
  <2>5. Listed(pages)
    BY <2>3, <2>4, ChangeIsListed, Zenon
  <2>6. ASSUME NEW p \in DOMAIN pages
        PROVE  Listed(pages[p].fragments) /\ Listed(pages[p].regions)
    <3>1. p \in DOMAIN data.pages /\ pages[p] = AdaptPage(data, p)
      BY <2>2
    <3>2. PageShape(pages[p])
      BY <3>1, AdaptedShaped
    <3> QED BY <3>2 DEF PageShape, FragmentsShaped
  <2> QED BY <2>5, <2>6 DEF pages
<1>2. CASE data.pages # <<>> /\ data.blocks = <<>>
  <2>1. pages = AdaptV0Blocks(data).pages
    BY <1>2, Zenon DEF ParserPages
  <2>2. AdaptV0Blocks(data) = data
    BY <1>2, Zenon DEF AdaptV0Blocks
  <2>3. pages = data.pages
    BY <2>1, <2>2, Zenon
  <2> HIDE DEF pages
  <2>4. Listed(pages) /\ \A p \in DOMAIN pages : PageShape(pages[p])
    BY <2>3 DEF JsonShaped, PagesShaped
  <2>5. \A p \in DOMAIN pages : Listed(pages[p].fragments) /\ Listed(pages[p].regions)
    BY <2>4, Zenon DEF PageShape, FragmentsShaped
  <2> QED BY <2>4, <2>5 DEF pages
<1>3. CASE data.pages = <<>>
  <2> DEFINE page(i) == SheetPage(data.sheets[i], i)
  <2>1. pages = [i \in DOMAIN data.sheets |-> page(i)]
    BY <1>3, Zenon DEF ParserPages
  <2>2. \A x : Listed(<<x>>) /\ Listed(<<>>)
    BY DEF Listed
  <2>3. \A i : Listed(page(i).fragments) /\ Listed(page(i).regions)
    <3> TAKE i
    <3> DEFINE f == [Fragment("table", data.sheets[i], NoBox, NoNumber)
                        EXCEPT !.extractor = "xlsx", !.rows = data.sheets[i]]
    <3>1. page(i) = DefaultPage(i, <<f>>)
      BY Zenon DEF SheetPage
    <3> HIDE DEF f, page
    <3>2. page(i).fragments = <<f>> /\ page(i).regions = <<>>
      BY <3>1 DEF DefaultPage
    <3> QED BY <2>2, <3>2
  <2> HIDE DEF page, pages
  <2>4. pages = [i \in DOMAIN data.sheets |-> pages[i]]
    BY <2>1
  <2>5. Listed(pages)
    BY <2>4, ChangeIsListed, Zenon
  <2> QED BY <2>1, <2>3, <2>5 DEF pages
<1> QED BY <1>1, <1>2, <1>3

LEMMA WorkbookBlocks ==
    ASSUME NEW data, JsonShaped(data), Listed(data.sheets)
    PROVE  LET ir == FromParserOutput(data, "xlsx")
           IN  ir.source = "xlsx" /\ Listed(ir.blocks) /\ \A n \in DOMAIN ir.blocks : ir.blocks[n].id = n
<1> DEFINE pages == ParserPages(data, "xlsx")
           ir == FromParserOutput(data, "xlsx")
           listed == ListedFragments(pages)
<1>1. DocumentOf(ir, "xlsx", pages)
  BY DocumentParts, Zenon
<1>2. /\ Listed(pages)
      /\ \A p \in DOMAIN pages : Listed(pages[p].fragments) /\ Listed(pages[p].regions)
  BY WorkbookPages
<1> HIDE DEF pages, ir
<1>3. Listed(listed)
  BY <1>2, FragmentsListed
<1>4. PICK blocks, fallback :
         /\ ir = Document("xlsx", pages, blocks)
         /\ blocks = [n \in DOMAIN listed |->
                BlockFromFragment(listed[n].fragment, n, listed[n].page, fallback)]
  BY <1>1, Zenon DEF DocumentOf
<1>5. ir.blocks = blocks /\ ir.source = "xlsx"
  BY <1>4, Zenon DEF Document
<1> HIDE DEF listed
<1> DEFINE made(n) == BlockFromFragment(listed[n].fragment, n, listed[n].page, fallback)
<1>6. \A n : made(n).id = n
  BY BlockParts
<1>7. blocks = [n \in DOMAIN listed |-> made(n)]
  BY <1>4
<1> HIDE DEF made
<1>8. blocks = [n \in DOMAIN listed |-> blocks[n]] /\ \A n \in DOMAIN blocks : blocks[n].id = n
  BY <1>6, <1>7
<1>9. Listed(blocks)
  BY <1>3, <1>8, ChangeIsListed, Zenon
<1> QED BY <1>5, <1>8, <1>9 DEF ir

\* A request read as a workbook: its parser output has lists of pages, blocks
\* and sheets.
LEMMA PlainTextShaped == JsonShaped(PlainText) /\ Listed(PlainText.sheets)
<1> DEFINE f == [Fragment(None, "text", [at |-> "text", unit |-> "pt", fits |-> TRUE], 500)
                    EXCEPT !.low = TRUE]
           page == DefaultPage(1, <<f>>)
<1>1. FragmentShape(f)
  <2> DEFINE box == [at |-> "text", unit |-> "pt", fits |-> TRUE]
             g == Fragment(None, "text", box, 500)
  <2>1. FragmentShape(g)
    BY FragmentIsShaped, Zenon
  <2>2. f = [g EXCEPT !.low = TRUE]
    OBVIOUS
  <2> HIDE DEF f, g
  <2> QED BY <2>1, <2>2 DEF FragmentShape
<1>2. PlainText = [NoOutput EXCEPT !.pages = <<page>>]
  BY Zenon DEF PlainText
<1>3. \A x : Listed(<<x>>) /\ Listed(<<>>)
  BY DEF Listed
<1>4. FragmentsShaped(<<f>>) /\ FragmentsShaped(<<>>)
  <2> HIDE DEF f
  <2> QED BY <1>1, <1>3 DEF FragmentsShaped
<1>5. PageShape(page)
  <2> HIDE DEF f
  <2> QED BY <1>4 DEF PageShape, DefaultPage
<1> HIDE DEF page
<1>6. PagesShaped(<<page>>)
  BY <1>3, <1>5 DEF PagesShaped
<1>7. /\ "pages" \in DOMAIN PlainText /\ PlainText.pages = <<page>>
      /\ PlainText.blocks = <<>> /\ PlainText.sheets = <<>>
  BY <1>2 DEF NoOutput
<1> QED BY <1>3, <1>4, <1>6, <1>7, Zenon DEF JsonShaped

LEMMA WorkbookParsed ==
    ASSUME NEW u, UploadTyped(u), ParseUpload(u).ok,
           SourceType(u, ParseUpload(u).data) = "xlsx"
    PROVE  JsonShaped(ParseUpload(u).data) /\ Listed(ParseUpload(u).data.sheets)
<1> DEFINE replaced == WithPdfTables(NoOutput, u.data)
           data == ParseUpload(u).data
<1>1. JsonShaped(u.data) /\ Listed(u.data.sheets)
  BY UploadShaped, SequenceIsListed, Zenon DEF UploadTyped
<1>2. \A d, w : Output(d, w).data = d
  BY DEF Output
<1>3. Refused.ok = FALSE
  BY DEF Refused
<1>4. CASE u.ext # "other"
  <2>1. u.ext = "xlsx"
    BY <1>4, Zenon DEF SourceType
  <2>2. u.content \in {"file", "corrupt", "no_dependency"}
    BY <1>4, Zenon DEF UploadTyped
  <2>3. ParseUpload(u) = ParseBinary(u)
    BY <1>4, Zenon DEF ParseUpload
  <2>4. u.content = "file"
    <3> SUFFICES ASSUME u.content \in {"corrupt", "no_dependency"} PROVE FALSE
      BY <2>2
    <3>1. ParseBinary(u) = Refused
      BY Zenon DEF ParseBinary
    <3> QED BY <1>3, <2>3, <3>1
  <2>5. ParseBinary(u) = Output(u.data, {})
    <3>1. u.content \notin {"corrupt", "no_dependency"} /\ u.ext \in {"docx", "xlsx"} /\ u.ext # "pdf"
      BY <2>1, <2>4
    <3> QED BY <2>4, <3>1 DEF ParseBinary
  <2> QED BY <1>1, <1>2, <2>3, <2>5, Zenon
<1>5. CASE u.ext = "other"
  <2>1. ParseUpload(u) = ParseText(u)
    BY <1>5, Zenon DEF ParseUpload
  <2>2. \/ ParseText(u) = Refused
        \/ \E w : ParseText(u) = Output(PlainText, w)
        \/ \E w : ParseText(u) = Output(u.data, w)
        \/ /\ SourceType(u, u.data) = "pdf"
           /\ ParseText(u) = Output(replaced, PdfTableWarnings(u.data))
    <3>1. u.content \in {"binary", "text", "scalar", "json"}
      BY <1>5, Zenon DEF UploadTyped
    <3> HIDE DEF replaced
    <3>2. CASE u.content = "binary"
      BY <3>2, Zenon DEF ParseText
    <3>3. CASE u.content = "text"
      BY <3>3 DEF ParseText
    <3>4. CASE u.content = "scalar"
      BY <3>4 DEF ParseText
    <3>5. CASE u.content = "json"
      BY <3>5 DEF ParseText, replaced
    <3> QED BY <3>1, <3>2, <3>3, <3>4, <3>5, Zenon
  <2>3. SourceType(u, u.data) = "pdf" => SourceType(u, replaced) # "xlsx"
    <3>1. replaced.blocks = <<>> /\ replaced.sheets = <<>>
      <4> DEFINE pages == AdaptV0Blocks(NoOutput).pages
                 start == [pages |-> pages, free |-> {pl \in Places(pages) : KeyAt(pages, pl) # NoKey},
                           keys |-> {}]
                 new == DropStale(PlaceSelected(start, u.data))
      <4>1. replaced = IF u.data.selected = None THEN NoOutput ELSE [NoOutput EXCEPT !.pages = new]
        BY Zenon DEF WithPdfTables
      <4> HIDE DEF new, replaced
      <4> QED BY <4>1 DEF NoOutput
    <3> HIDE DEF replaced
    <3>2. u.declared # None => SourceType(u, u.data) = u.declared /\ SourceType(u, replaced) = u.declared
      BY <1>5, Zenon DEF SourceType
    <3>3. u.declared = None => SourceType(u, replaced) # "xlsx"
      BY <1>5, <3>1 DEF SourceType
    <3> QED BY <3>2, <3>3
  <2> HIDE DEF replaced
  <2> QED BY <1>1, <1>2, <1>3, <2>1, <2>2, <2>3, PlainTextShaped, Zenon
<1> QED BY <1>4, <1>5

\* A value read from a table of a workbook.
OwnColumn(ir, label, v) ==
    LET rows == TableRows(ir.blocks[v.block].text, "xlsx")
    IN  (\A c \in 1..(v.column - 1) : rows[v.row][c] # <<>>)
          => \E r \in 1..(v.row - 1) : rows[r][v.column] = label

LEMMA WorkbookValue ==
    ASSUME NEW ir, ir.source = "xlsx", Listed(ir.blocks),
           \A n \in DOMAIN ir.blocks : ir.blocks[n].id = n,
           NEW t, NEW f, f.direction = "table_cell",
           NEW v, v = ExtractField(ir, t, f), v.value # <<>>
    PROVE  OwnColumn(ir, f.label, v)
<1>0. PICK n \in DOMAIN ir.blocks : \E anchor, required :
         ReadFrom(ir.blocks[n], "xlsx", anchor, f.label, required, v)
  BY FieldRead
<1>1. PICK anchor, required : ReadFrom(ir.blocks[n], "xlsx", anchor, f.label, required, v)
  BY <1>0
<1> DEFINE b == ir.blocks[n]
           rows == TableRows(b.text, "xlsx")
<1>2. /\ v.block = b.id
      /\ (\A c \in 1..(v.column - 1) : rows[v.row][c] # <<>>)
            => \E r \in 1..(v.row - 1) : rows[r][v.column] = f.label
  <2> DEFINE label == f.label
  <2>1. ReadFrom(b, "xlsx", anchor, label, required, v)
    BY <1>1
  <2> HIDE DEF b, label
  <2>2. /\ v.block = b.id
        /\ LET table == TableRows(b.text, "xlsx")
           IN  (\A c \in 1..(v.column - 1) : table[v.row][c] # <<>>)
                 => \E r \in 1..(v.row - 1) : table[r][v.column] = label
    BY <2>1, ReadUnderLabel
  <2> QED BY <2>2 DEF label
<1>3. v.block = n
  BY <1>2
<1> QED BY <1>2, <1>3, Zenon DEF OwnColumn

LEMMA MappedFound ==
    ASSUME NEW m, NEW ir, NEW t, m = ApplyMapping(ir, t), IsSequence(t.fields),
           NEW i \in DOMAIN t.fields
    PROVE  m.fields[i].found \in {ExtractField(ir, t, t.fields[i]), NoValue}
<1>1. PICK match, extracted : MappedFrom(m, ir, t, match, extracted)
  BY MappingParts, Zenon
<1>2. m.fields[i].found = extracted[i]
  <2>1. /\ DOMAIN m.fields = DOMAIN t.fields
        /\ \A k \in DOMAIN t.fields : m.fields[k].found = extracted[k]
        /\ m.output = Outputs(m.fields, t, DOMAIN t.fields)
    BY <1>1, MappedOutput
  <2> QED BY <2>1, Zenon
<1>3. extracted = ExtractedFields(ir, t, match)
  BY <1>1, Zenon DEF MappedFrom
<1> DEFINE v == ExtractField(ir, t, t.fields[i])
<1>4. extracted[i] = IF match.known THEN v ELSE NoValue
  BY <1>3, Zenon DEF ExtractedFields
<1> HIDE DEF v
<1>5. m.fields[i].found \in {v, NoValue}
  BY <1>2, <1>4
<1> QED BY <1>5 DEF v

(***************************************************************************)
(* A value that a template field reads from a table of a workbook stands   *)
(* in a column headed by the field's label, below it, if no cell in front  *)
(* of it is empty, whatever the tables, the anchors and the columns: the   *)
(* header keeps its physical place, and a column is moved to the right     *)
(* only over empty cells (_extract_template_table_cell_field,              *)
(* _table_header_and_body_rows, _physical_table_column_index).             *)
(***************************************************************************)
THEOREM ColumnsAreTheirOwn == Spec => []ColumnValuesOwn
<1>1. Staged => ColumnValuesOwn
  <2> DEFINE t == upload.definition
             found(i) == built.mapping.fields[i].found
             rows(i) == TableRows(built.ir.blocks[found(i).block].text, "xlsx")
  <2> SUFFICES ASSUME Staged, stage \in {"plan", "done"}, upload.template = "t",
                      NEW i \in DOMAIN t.fields, t.fields[i].direction = "table_cell",
                      found(i).value # <<>>, built.ir.source = "xlsx",
                      \A c \in 1..(found(i).column - 1) : rows(i)[found(i).row][c] # <<>>
               PROVE  \E r \in 1..(found(i).row - 1) : rows(i)[r][found(i).column] = t.fields[i].label
    BY Zenon DEF ColumnValuesOwn
  <2>1. stage \in {"build", "plan", "done"}
    OBVIOUS
  <2>2. /\ UploadTyped(upload) /\ parsed = ParseUpload(upload) /\ parsed.ok
        /\ BuiltFrom(upload, parsed.data, built)
    BY <2>1, Zenon DEF Staged
  <2> DEFINE data == ParseUpload(upload).data
             ir == built.ir
  <2>3. ir = FromParserOutput(data, SourceType(upload, data))
    BY <2>2, Zenon DEF BuiltFrom
  <2>4. SourceType(upload, data) = "xlsx"
    <3> DEFINE source == SourceType(upload, data)
               pages == ParserPages(data, source)
               made == FromParserOutput(data, source)
    <3>1. DocumentOf(made, source, pages)
      BY DocumentParts, Zenon
    <3>2. ir = made
      BY <2>3
    <3> HIDE DEF ir, data, source, pages, made
    <3>3. PICK blocks : made = Document(source, pages, blocks)
      BY <3>1, Zenon DEF DocumentOf
    <3>4. made.source = source
      BY <3>3 DEF Document
    <3>5. ir.source = "xlsx"
      BY DEF ir
    <3> QED BY <3>2, <3>4, <3>5 DEF source
  <2>5. Listed(ir.blocks) /\ \A n \in DOMAIN ir.blocks : ir.blocks[n].id = n
    <3>1. JsonShaped(data) /\ Listed(data.sheets)
      BY <2>2, <2>4, WorkbookParsed, Zenon
    <3>2. ir = FromParserOutput(data, "xlsx")
      BY <2>3, <2>4, Zenon
    <3> HIDE DEF data, ir
    <3> QED BY <3>1, <3>2, WorkbookBlocks
  <2>6. built.mapping = ApplyMapping(ir, t)
    <3>1. upload.template # None
      BY DEF None
    <3> QED BY <2>2, <3>1, Zenon DEF BuiltFrom, Mapping
  <2> DEFINE v == ExtractField(ir, t, t.fields[i])
             w == found(i)
             field == t.fields[i]
  <2>7. found(i) = v
    <3> DEFINE m == built.mapping
    <3>1. m = ApplyMapping(ir, t) /\ IsSequence(t.fields) /\ i \in DOMAIN t.fields
      BY <2>2, <2>6, Zenon DEF UploadTyped
    <3>2. NoValue.value = <<>>
      BY DEF NoValue
    <3>3. w.value # <<>> /\ w = found(i)
      OBVIOUS
    <3>4. found(i) = m.fields[i].found /\ found(i) # NoValue
      <4>1. found(i) = m.fields[i].found
        OBVIOUS
      <4> HIDE DEF w, found
      <4> QED BY <3>2, <3>3, <4>1
    <3> HIDE DEF m, ir, t, found
    <3>5. m.fields[i].found \in {ExtractField(ir, t, t.fields[i]), NoValue}
      BY <3>1, MappedFound, Zenon
    <3> QED BY <3>4, <3>5
  <2>8. /\ w = ExtractField(ir, t, field) /\ w.value # <<>> /\ ir.source = "xlsx"
         /\ field.direction = "table_cell"
    BY <2>7
  <2>9. \A c \in 1..(w.column - 1) : TableRows(ir.blocks[w.block].text, "xlsx")[w.row][c] # <<>>
    OBVIOUS
  <2>10. \E r \in 1..(w.row - 1) :
            TableRows(ir.blocks[w.block].text, "xlsx")[r][w.column] = field.label
    <3> HIDE DEF w, field, ir
    <3>1. OwnColumn(ir, field.label, w)
      BY <2>5, <2>8, WorkbookValue
    <3> QED BY <2>9, <3>1 DEF OwnColumn
  <2> QED BY <2>10
<1> QED BY <1>1, StagesFollow, PTL
=============================================================================
