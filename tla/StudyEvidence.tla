---------------------------- MODULE StudyEvidence ----------------------------
(***************************************************************************)
(* The evidence of the human review study and the gate that accepts it     *)
(* (scripts/ci/validate_mvp_human_review_evidence.py): participants work   *)
(* each case once by hand and once with VeriDoc, their runs are sealed,    *)
(* and validate_record accepts the record only if it keeps the protocol    *)
(* and agrees with the records retained elsewhere.                         *)
(*                                                                         *)
(* A study is [status, cases, unpinned, approved, quality, version,        *)
(*   participants, runs, seal, envelope]; a participant [id, status,       *)
(*   withdrawn, attested, consented, version, practice, order]; a run      *)
(*   [id, participant, case, arm, attempt, start, end, pause, assessed,    *)
(*   excluded, reason, outcome, blocker, kind, path, output, hidden,       *)
(*   complete, misses, assessor, sealId, attestId, attestHash, unpinned,   *)
(*   envelope, seal].  unpinned is the set of facts a run or a study       *)
(*   states otherwise than the pinned packages, the manifest or the        *)
(*   protocol do.  Times are numbers, NoTime one that is missing or does   *)
(*   not parse; a digest is the sequence of the value it is taken of.      *)
(***************************************************************************)
EXTENDS Integers, Sequences, FiniteSets, SequencesExt

CONSTANTS
    Studies,    \* the studies a run looks at: a sequence of families
    Edits,      \* changes after the sealing: <<what, of, field, value>>
    CaseIds,    \* the cases of the manifest
    HighRisk    \* the number of high-risk targets of each case

VARIABLES
    study,      \* the evidence record
    retained,   \* what was retained independently: seals, attestations, files
    phase,      \* "none", "conducted", "sealed", "edited" or "validated"
    verdict     \* the errors found and, without any, the summary

studyVars == <<study, retained, phase, verdict>>

NoTime == -1
Nil == "nil"
NoId == <<>>
ARMS == {"manual", "veridoc"}

\* The numbers the gate compares are numbers; an edit replaces one by another.
RunTyped(r) == /\ {"start", "end", "pause"} \subseteq DOMAIN r
               /\ r.start \in Int /\ r.end \in Int /\ r.pause \in Int
ParticipantTyped(p) == /\ {"consented", "withdrawn", "practice"} \subseteq DOMAIN p
                       /\ p.consented \in Int /\ p.withdrawn \in Int
                       /\ \A a \in ARMS : p.practice[a].at \in Int
StudyTyped(s) == /\ {"approved", "quality", "participants", "runs"} \subseteq DOMAIN s
                 /\ s.approved \in Int /\ s.quality \in Int
                 /\ s.participants \in Seq(Range(s.participants))
                 /\ s.runs \in Seq(Range(s.runs))
                 /\ \A p \in Range(s.participants) : ParticipantTyped(p)
                 /\ \A r \in Range(s.runs) : RunTyped(r)

ASSUME StudiesAssumption == \A i \in DOMAIN Studies : \A s \in Studies[i] : StudyTyped(s)

ASSUME EditsAssumption ==
    \A e \in Edits :
        /\ e[1] = "run" /\ e[3] \in {"start", "end", "pause"} => e[4] \in Int
        /\ e[1] = "participant" =>
              /\ e[3] \in {"consented", "withdrawn"} => e[4] \in Int
              /\ e[3] = "practice" => \A a \in ARMS : e[4][a].at \in Int
        /\ e[1] \notin {"run", "drop", "participant"} =>
              /\ e[3] \in {"approved", "quality"} => e[4] \in Int
              /\ e[3] \notin {"participants", "runs"}

ArtifactKinds == [approved |-> {"output_artifact"},
                  blocked |-> {"output_artifact", "blocked_attempt_envelope"}]
ExclusionReasons == {"technical_failure", "protocol_deviation", "participant_withdrew",
                     "invalid_timing"}

\* One error, if the condition holds.
ErrorIf(name, condition) == IF condition THEN {name} ELSE {}

-----------------------------------------------------------------------------
\* What the seals cover.

\* A variant whose seal leaves the counts of the assessment out.
RunClaimsWithoutCounts(r) == [r EXCEPT !.envelope = <<>>, !.seal = <<>>, !.misses = 0]

RunClaims(r) == [r EXCEPT !.envelope = <<>>, !.seal = <<>>]
StudyClaims(s) == [s EXCEPT !.runs = <<>>, !.envelope = <<>>, !.seal = <<>>]

Attestation(r) == [id |-> r.attestId, run |-> r.id, participant |-> r.participant,
                   assessor |-> r.assessor, assessed |-> r.assessed,
                   unpinned |-> r.unpinned \cap {"assessor_role", "comparison_withheld", "study_id"}]

SealedRun(r) ==
    LET attested == [r EXCEPT !.attestHash = <<Attestation(r)>>]
        claims == <<RunClaims(attested)>>
    IN  [attested EXCEPT !.envelope = claims, !.seal = claims]

SealedStudy(s) ==
    LET claims == <<StudyClaims(s)>>
    IN  [s EXCEPT !.envelope = claims, !.seal = claims]

\* What was retained outside the record under an identifier.
Held(kept, id, value) == id \in DOMAIN kept /\ kept[id] = value

\* The output is in the artifact store under the name of its seal.
OutputHeld(r) == r.path # NoId /\ r.path = r.sealId /\ Held(retained.files, r.path, r.output)

-----------------------------------------------------------------------------
\* The timing of a run.
TimesKnown(r) == r.start # NoTime /\ r.end # NoTime
InvalidTiming(r) == r.excluded /\ r.reason = "invalid_timing"
Usable(r) == TimesKnown(r) /\ ~InvalidTiming(r) /\ r.end > r.start
CorrectionTime(r) == r.end - r.start - r.pause

TimingErrors(r) ==
    ErrorIf("times", ~TimesKnown(r) \/ r.pause < 0)
    \cup ErrorIf("interval", /\ TimesKnown(r) /\ ~InvalidTiming(r)
                             /\ r.end <= r.start \/ r.pause >= r.end - r.start)
    \cup ErrorIf("assessed", \/ r.assessed = NoTime
                             \/ TimesKnown(r) /\ (r.assessed <= r.start \/ r.assessed <= r.end))

-----------------------------------------------------------------------------
\* Participants.
Orders == {<<"manual", "veridoc">>, <<"veridoc", "manual">>}

ApprovalErrors(s) == ErrorIf("approvals", NoTime \in {s.approved, s.quality} \/ s.version = Nil)

ParticipantErrors(s, p) ==
    ErrorIf("participant_id", p.id = Nil)
    \cup ErrorIf("participation_status", p.status \notin {"completed", "withdrawn"})
    \cup ErrorIf("withdrawn_at", IF p.status = "completed" THEN p.withdrawn # NoTime
                                 ELSE p.status = "withdrawn" /\ p.withdrawn = NoTime)
    \cup ErrorIf("consent", ~p.attested \/ p.consented = NoTime)
    \cup ErrorIf("consent_form", p.version = Nil \/ s.version \notin {Nil, p.version})
    \cup ErrorIf("practice", \E a \in ARMS :
            \/ ~p.practice[a].pinned
            \/ p.status = "completed" /\ ~p.practice[a].done
            \/ p.practice[a].done /\ p.practice[a].at = NoTime
            \/ ~p.practice[a].done /\ p.practice[a].at # NoTime)
    \cup ErrorIf("arm_order", \/ p.status = "completed" /\ p.order \notin Orders
                              \/ p.status = "withdrawn" /\ p.order \notin Orders \cup {<<>>})

Completed(s) == {i \in DOMAIN s.participants : s.participants[i].status = "completed"}

CohortErrors(s) ==
    LET first(a) == {i \in Completed(s) : /\ s.participants[i].order \in Orders
                                          /\ s.participants[i].order[1] = a}
        m == Cardinality(first("manual"))
        v == Cardinality(first("veridoc"))
    IN  ErrorIf("cohort", Len(s.participants) < 3 \/ Cardinality(Completed(s)) < 3)
        \cup ErrorIf("duplicate_participant",
                     ~IsInjective([i \in DOMAIN s.participants |-> s.participants[i].id]))
        \cup ErrorIf("orders", Completed(s) # {} /\ (m = 0 \/ v = 0 \/ m - v > 1 \/ v - m > 1))

\* The protocol, manifest, product and practice package are those pinned.
StudyPinnedErrors(s) == ErrorIf("study_pinned", s.unpinned # {})

StudyErrors(s) ==
    ErrorIf("study_status", s.status \notin {"validation_example", "completed"})
    \cup ErrorIf("cases", \/ s.cases = <<>> \/ ~IsInjective(s.cases)
                          \/ ~(Range(s.cases) \subseteq CaseIds)
                          \/ s.status = "completed" /\ Range(s.cases) # CaseIds)

-----------------------------------------------------------------------------
\* Single runs.
RunIdentityErrors(s, r) ==
    ErrorIf("run_id", r.id = NoId)
    \cup ErrorIf("seal_id", r.sealId = NoId)
    \cup ErrorIf("undeclared", \/ \A i \in DOMAIN s.participants : s.participants[i].id # r.participant
                               \/ r.case \notin Range(s.cases))

\* Fixture, packages, revisions, roles and the expected count are those pinned,
\* and so are the arm's contract and the build it ran.
PinnedErrors(r) == ErrorIf("pinned", r.unpinned \ {"arm_contract", "build"} # {})
ArmErrors(r) == ErrorIf("arm", r.arm \notin ARMS \/ {"arm_contract", "build"} \cap r.unpinned # {})

AttemptErrors(r) ==
    ErrorIf("attempt_number", r.attempt < 1)
    \cup ErrorIf("generated_id", r.id # <<r.participant, r.case, r.arm, r.attempt>>)

AssessorErrors(r) ==
    ErrorIf("assessor", r.assessor \in {Nil, r.participant})
    \cup ErrorIf("attest_id", r.attestId = NoId)

ExclusionErrors(r) ==
    ErrorIf("exclusion", IF r.excluded THEN r.reason \notin ExclusionReasons ELSE r.reason # Nil)

AttestationErrors(r) ==
    ErrorIf("attestation", /\ r.attestId # NoId
                           /\ \/ ~Held(retained.attested, r.attestId, Attestation(r))
                              \/ r.attestHash # <<Attestation(r)>>)

OutcomeErrors(r) ==
    ErrorIf("outcome",
        \/ r.outcome \notin {"approved", "blocked"}
        \/ r.outcome = "approved" /\ r.blocker # Nil
        \/ r.outcome = "blocked" /\ r.blocker = Nil
        \/ r.outcome \in DOMAIN ArtifactKinds /\ r.kind \notin ArtifactKinds[r.outcome])
    \cup ErrorIf("artifact",
        IF r.kind = "output_artifact"
        THEN r.output = Nil \/ ~OutputHeld(r)
        ELSE r.path # NoId \/ r.output # Nil)

SealErrors(r) ==
    ErrorIf("envelope", r.envelope # <<RunClaims(r)>> \/ r.seal # r.envelope)
    \cup ErrorIf("sealed", /\ r.sealId # NoId
                           /\ \/ ~Held(retained.sealed, r.sealId, r.envelope)
                              \/ r.seal # r.envelope)

\* The gold answer stayed hidden, the checklist is complete, the counts possible.
ConductErrors(r) ==
    ErrorIf("gold_seen", ~r.hidden /\ ~(r.excluded /\ r.reason = "protocol_deviation"))
    \cup ErrorIf("checklist", ~r.excluded /\ ~r.complete)
    \cup ErrorIf("counts", r.misses < 0 \/ (r.case \in CaseIds /\ r.misses > HighRisk[r.case]))

RunErrors(s, r) ==
    UNION {RunIdentityErrors(s, r), PinnedErrors(r), ArmErrors(r), AttemptErrors(r), AssessorErrors(r),
           ExclusionErrors(r), TimingErrors(r), AttestationErrors(r), OutcomeErrors(r),
           SealErrors(r), ConductErrors(r)}

-----------------------------------------------------------------------------
\* Runs against each other and against their participants.
RunsOf(s, p) == {r \in Range(s.runs) : r.participant = p.id}

\* A variant that only looks at runs whose interval can be used.
UsableRuns(s, p) == {r \in RunsOf(s, p) : Usable(r)}

\* Every run with its times counts as activity, a failed timer included.
ActiveRuns(s, p) == {r \in RunsOf(s, p) : TimesKnown(r)}

ApprovalOrderErrors(s) ==
    LET starts == UNION {{r.start : r \in ActiveRuns(s, s.participants[i])} :
                           i \in DOMAIN s.participants}
    IN  ErrorIf("approved_late", \E t \in starts : s.approved >= t \/ s.quality >= t)

PracticeErrors(s, p) ==
    ErrorIf("practice_order",
        \E r \in ActiveRuns(s, p) :
            \/ p.order \notin Orders
            \/ \E a \in ARMS : ~p.practice[a].done \/ p.practice[a].at >= r.start)

ConsentErrors(s, p) ==
    ErrorIf("consent_order",
        /\ p.consented # NoTime
        /\ \/ p.consented <= s.approved
           \/ \E a \in ARMS : p.practice[a].done /\ p.practice[a].at # NoTime
                              /\ p.consented >= p.practice[a].at
           \/ \E r \in ActiveRuns(s, p) : p.consented >= r.start)

WithdrawalErrors(s, p) ==
    ErrorIf("withdrawal_order",
        /\ p.status = "withdrawn" /\ p.withdrawn # NoTime
        /\ \/ p.consented # NoTime /\ p.consented >= p.withdrawn
           \/ \E a \in ARMS : p.practice[a].done /\ p.practice[a].at > p.withdrawn
           \/ \E r \in ActiveRuns(s, p) :
                \/ r.start >= p.withdrawn
                \/ Usable(r) /\ r.end > p.withdrawn
                \/ r.excluded /\ r.reason = "participant_withdrew" /\ r.end # p.withdrawn)

\* Attempts of one participant, case and arm: numbered from 1 without a gap,
\* and the usable ones in the order of their numbers.
Group(s, r) == {q \in Range(s.runs) : /\ q.participant = r.participant
                                      /\ q.case = r.case /\ q.arm = r.arm}

AttemptOrderErrors(s) ==
    ErrorIf("attempts",
        \E r \in Range(s.runs) :
            \/ {q.attempt : q \in Group(s, r)} # 1..Cardinality({q.attempt : q \in Group(s, r)})
            \/ \E q \in Group(s, r) : /\ Usable(q) /\ Usable(r)
                                      /\ q.attempt < r.attempt /\ r.start < q.end)

Distinct(s, field(_)) == IsInjective([i \in DOMAIN s.runs |-> field(s.runs[i])])

DuplicateErrors(s) ==
    ErrorIf("duplicates", \/ ~Distinct(s, LAMBDA r : <<r.participant, r.case, r.arm, r.attempt>>)
                          \/ ~Distinct(s, LAMBDA r : r.id)
                          \/ ~Distinct(s, LAMBDA r : r.sealId)
                          \/ ~Distinct(s, LAMBDA r : r.attestId))

OverlapErrors(s, p) ==
    ErrorIf("overlap",
        \E q, r \in RunsOf(s, p) : /\ q # r /\ Usable(q) /\ Usable(r)
                                   /\ q.start <= r.start /\ r.start < q.end)

CoverageErrors(s, p) ==
    LET included(c, a) == Cardinality({r \in RunsOf(s, p) : r.case = c /\ r.arm = a /\ ~r.excluded})
    IN  ErrorIf("coverage",
            \E c \in Range(s.cases), a \in ARMS :
                IF p.status = "completed" THEN included(c, a) # 1 ELSE included(c, a) > 1)
        \cup ErrorIf("withdrew", /\ p.status = "completed"
                                 /\ \E r \in RunsOf(s, p) : r.excluded /\ r.reason = "participant_withdrew")

ArmOrderErrors(s, p) ==
    LET runs(a) == {r \in ActiveRuns(s, p) : r.arm = a}
        boundaries == {r.start : r \in runs(p.order[1])}
                      \cup {r.end : r \in {r \in runs(p.order[1]) : Usable(r)}}
    IN  ErrorIf("arm_order_followed",
            /\ p.order \in Orders
            /\ \E r \in runs(p.order[2]) : boundaries = {} \/ \E t \in boundaries : t > r.start)

StudySealErrors(s) ==
    ErrorIf("study_envelope", s.envelope # <<StudyClaims(s)>> \/ s.seal # s.envelope)
    \cup ErrorIf("study_sealed", retained.study # s.envelope \/ retained.study # s.seal)

\* validate_record
ValidateRecord(s) ==
    UNION ({StudyPinnedErrors(s), StudyErrors(s), ApprovalErrors(s), CohortErrors(s), ApprovalOrderErrors(s),
            AttemptOrderErrors(s), DuplicateErrors(s), StudySealErrors(s),
            ErrorIf("unaccounted", Len(s.runs) < 2 * Cardinality(Completed(s)) * Len(s.cases))}
           \cup {RunErrors(s, r) : r \in Range(s.runs)}
           \cup {UNION {ParticipantErrors(s, p), PracticeErrors(s, p), ConsentErrors(s, p),
                        WithdrawalErrors(s, p), OverlapErrors(s, p), CoverageErrors(s, p),
                        ArmOrderErrors(s, p)} : p \in Range(s.participants)})

-----------------------------------------------------------------------------
\* summarize_record: of each participant and case, the pair of included runs.
PairResult(s, p, c) ==
    LET included(a) == {r \in RunsOf(s, p) : r.case = c /\ r.arm = a /\ ~r.excluded}
        calculable == \A a \in ARMS : \E r \in included(a) : r.outcome = "approved" /\ r.complete
        time(a) == CorrectionTime(CHOOSE r \in included(a) : TRUE)
    IN  [participant |-> p.id, case |-> c, calculable |-> calculable,
         eligible |-> /\ calculable /\ p.status = "completed"
                      /\ s.status = "validation_example",
         manual |-> IF calculable THEN time("manual") ELSE 0,
         veridoc |-> IF calculable THEN time("veridoc") ELSE 0]

Summary(s) == {PairResult(s, p, c) : p \in Range(s.participants), c \in Range(s.cases)}

-----------------------------------------------------------------------------
NothingRetained == [sealed |-> <<>>, attested |-> <<>>, files |-> <<>>, study |-> <<>>]
NoVerdict == [errors |-> {"not validated"}, pairs |-> {}]

StudyInit == /\ \E i \in DOMAIN Studies : study \in Studies[i]
             /\ retained = NothingRetained
             /\ phase = "conducted"
             /\ verdict = NoVerdict

\* The runs and the study are sealed, and the seals, the attestations and the
\* artifacts retained under the identifiers the record names.
Seal ==
    /\ phase = "conducted"
    /\ study' = SealedStudy([study EXCEPT !.runs = [i \in DOMAIN @ |-> SealedRun(@[i])]])
    /\ LET by(field(_), value(_)) ==
               [id \in {field(r) : r \in Range(study'.runs)} |->
                    value(CHOOSE r \in Range(study'.runs) : field(r) = id)]
       IN  retained' = [sealed |-> by(LAMBDA r : r.sealId, LAMBDA r : r.envelope),
                        attested |-> by(LAMBDA r : r.attestId, LAMBDA r : Attestation(r)),
                        files |-> by(LAMBDA r : r.sealId, LAMBDA r : r.output),
                        study |-> study'.envelope]
    /\ phase' = "sealed"
    /\ UNCHANGED verdict

\* Afterwards the record is changed and its own envelopes and digests, though
\* nothing that was retained, are made to fit again.
Edit(what, of, field, value) ==
    /\ phase = "sealed"
    /\ of \in DOMAIN study.runs
    /\ study' = SealedStudy(
         CASE what = "run" ->
                [study EXCEPT !.runs[of] = SealedRun([@ EXCEPT ![field] = value])]
           [] what = "drop" -> [study EXCEPT !.runs = RemoveAt(@, of)]
           [] what = "participant" -> [study EXCEPT !.participants[1][field] = value]
           [] OTHER -> [study EXCEPT ![field] = value])
    /\ phase' = "edited"
    /\ UNCHANGED <<retained, verdict>>

ValidateStudy ==
    /\ phase \in {"conducted", "sealed", "edited"}
    /\ LET errors == ValidateRecord(study)
       IN  verdict' = [errors |-> errors, pairs |-> IF errors = {} THEN Summary(study) ELSE {}]
    /\ phase' = "validated"
    /\ UNCHANGED <<study, retained>>

StudyNext == Seal \/ ValidateStudy \/ \E e \in Edits : Edit(e[1], e[2], e[3], e[4])

StudySpec == StudyInit /\ [][StudyNext]_studyVars

-----------------------------------------------------------------------------
Accepted == phase = "validated" /\ verdict.errors = {}

\* In an accepted study every participant went through the protocol in order:
\* approval, consent, practice in both arms, all runs of the first arm, all
\* runs of the second, nothing after a withdrawal; and each pair of times the
\* efficiency is computed from is that of two runs that do not overlap, the
\* only ones that count for their arm, both of positive length.
AcceptedStudySound ==
    Accepted =>
        /\ \A p \in Range(study.participants) : \A r \in RunsOf(study, p) :
              /\ study.approved < p.consented /\ study.quality < r.start
              /\ \A a \in ARMS : /\ p.consented < p.practice[a].at
                                 /\ p.practice[a].at < r.start
              /\ \A q \in RunsOf(study, p) :
                    (r.arm = p.order[1] /\ q.arm = p.order[2]) =>
                        r.start <= q.start /\ (Usable(r) => r.end <= q.start)
              /\ p.status = "withdrawn" => /\ r.start < p.withdrawn
                                           /\ Usable(r) => r.end <= p.withdrawn
        /\ \A x \in verdict.pairs : x.calculable =>
              /\ x.manual > 0 /\ x.veridoc > 0
              /\ \E m, v \in Range(study.runs) :
                    /\ m.arm = "manual" /\ v.arm = "veridoc"
                    /\ {m.participant, v.participant} = {x.participant}
                    /\ {m.case, v.case} = {x.case}
                    /\ m.end <= v.start \/ v.end <= m.start
                    /\ x.manual = m.end - m.start - m.pause
                    /\ x.veridoc = v.end - v.start - v.pause
                    /\ \A r \in Range(study.runs) \ {m, v} :
                          (r.participant = x.participant /\ r.case = x.case) => r.excluded

\* A record that was changed after it was sealed is accepted only if each of its
\* runs, its participants and its approvals are still what was retained.
EditsDetected ==
    Accepted =>
        /\ \A r \in Range(study.runs) :
              /\ retained.sealed[r.sealId] = <<[r EXCEPT !.envelope = <<>>, !.seal = <<>>]>>
              /\ r.kind = "output_artifact" => retained.files[r.sealId] = r.output
        /\ retained.study = <<[study EXCEPT !.runs = <<>>, !.envelope = <<>>, !.seal = <<>>]>>
=============================================================================
