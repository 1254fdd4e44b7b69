------------------------------- MODULE MCStudy -------------------------------
(***************************************************************************)
(* Studies for model checking StudyEvidence: three reviewers and one case, *)
(* with every order of the first reviewer's times, a retried run, a fourth *)
(* reviewer who withdraws, and single facts that are wrong.                *)
(***************************************************************************)
EXTENDS StudyEvidence

MCCaseIds == {"c1"}
MCHighRisk == [c1 |-> 1]

Run(p, arm, attempt, start, end) ==
    [id |-> <<p, "c1", arm, attempt>>, participant |-> p, case |-> "c1", arm |-> arm,
     attempt |-> attempt, start |-> start, end |-> end, pause |-> 0, assessed |-> 20,
     excluded |-> FALSE, reason |-> Nil, outcome |-> "approved", blocker |-> Nil,
     kind |-> "output_artifact", path |-> <<p, arm, attempt>>, output |-> "bytes",
     hidden |-> TRUE, complete |-> TRUE, misses |-> 0, assessor |-> "a1",
     sealId |-> <<p, arm, attempt>>, attestId |-> <<p, arm, attempt>>, attestHash |-> <<>>,
     unpinned |-> {}, envelope |-> <<>>, seal |-> <<>>]

Practised(at) == [done |-> TRUE, at |-> at, pinned |-> TRUE]
NotPractised == [done |-> FALSE, at |-> NoTime, pinned |-> TRUE]
Reviewer(id, order) ==
    [id |-> id, status |-> "completed", withdrawn |-> NoTime, attested |-> TRUE,
     consented |-> 2, version |-> "v1", order |-> order,
     practice |-> [manual |-> Practised(3), veridoc |-> Practised(3)]]

ByHand == <<"manual", "veridoc">>
WithTool == <<"veridoc", "manual">>
TwoRuns(p, order) == <<Run(p, order[1], 1, 4, 6), Run(p, order[2], 1, 6, 8)>>

BaseStudy ==
    [status |-> "validation_example", cases |-> <<"c1">>, unpinned |-> {}, approved |-> 1,
     quality |-> 1, version |-> "v1",
     participants |-> <<Reviewer("p1", ByHand), Reviewer("p2", WithTool), Reviewer("p3", ByHand)>>,
     runs |-> TwoRuns("p1", ByHand) \o TwoRuns("p2", WithTool) \o TwoRuns("p3", ByHand),
     seal |-> <<>>, envelope |-> <<>>]

Timed(r, start, end) == [r EXCEPT !.start = start, !.end = end]

TimelineStudies ==
    {[BaseStudy EXCEPT !.approved = a, !.quality = q, !.participants[1].consented = c,
                       !.participants[1].practice.manual = Practised(m),
                       !.participants[1].practice.veridoc = Practised(v),
                       !.runs[1] = Timed(@, s, e), !.runs[2] = Timed(@, t, f),
                       !.runs[2].pause = n] :
        a \in {1, 2}, q \in {1, 4}, c \in {2, 3}, m \in {3, 4}, v \in {3, 6},
        s \in {4, 5}, e \in {5, 6}, t \in {5, 6, 7}, f \in {7, 8}, n \in {0, 1}}

\* A first attempt that does not count, before or after the one that does.
RetriedStudies ==
    {[BaseStudy EXCEPT
        !.participants[1].practice.veridoc = Practised(v),
        !.runs = Append(
            [@ EXCEPT ![k] = [Timed(@, 5 + k, 7 + k) EXCEPT !.attempt = 3 - n, !.id[4] = 3 - n]],
            [Run("p1", ByHand[k], n, s, e) EXCEPT
                !.excluded = x, !.reason = r, !.outcome = "blocked", !.blocker = "tool",
                !.hidden = h, !.sealId = <<"s">>, !.attestId = <<"s">>, !.path = <<"s">>])] :
        k \in {1, 2}, n \in {1, 2}, s \in {3, 4, 6, 8}, e \in {3, 5, 9}, x \in BOOLEAN,
        r \in {Nil, "technical_failure", "invalid_timing", "participant_withdrew",
               "protocol_deviation"},
        h \in BOOLEAN, v \in {3, 4}}

Leaver(w, order, tool) ==
    [Reviewer("p4", order) EXCEPT !.status = "withdrawn", !.withdrawn = w,
                                  !.practice.veridoc = tool]
LeavingStudies ==
    {[BaseStudy EXCEPT
        !.participants = Append(@, Leaver(w, o, t)),
        !.runs = @ \o rs] :
        w \in {NoTime, 2, 3, 6, 7}, o \in {<<>>, ByHand, <<"manual", "manual">>},
        t \in {Practised(3), Practised(7), NotPractised, [NotPractised EXCEPT !.at = 3]},
        rs \in {<<>>, <<Run("p4", "manual", 1, 4, 6)>>, <<Run("p4", "veridoc", 1, 4, 6)>>,
                TwoRuns("p4", ByHand),
                <<[Run("p4", "manual", 1, 4, 7) EXCEPT !.excluded = TRUE,
                                                       !.reason = "participant_withdrew"]>>,
                <<[Run("p4", "manual", 1, 6, 5) EXCEPT !.excluded = TRUE,
                                                       !.reason = "invalid_timing"]>>}}

FieldValues ==
    {<<"id", <<>>>>, <<"id", <<"p1", "c1", "manual", 2>>>>, <<"participant", "p2">>,
     <<"participant", "p9">>, <<"case", "c9">>, <<"arm", "veridoc">>, <<"arm", "other">>,
     <<"attempt", 0>>, <<"attempt", 2>>, <<"start", NoTime>>, <<"start", 6>>, <<"pause", NoTime>>,
     <<"pause", 1>>, <<"pause", 2>>, <<"assessed", NoTime>>, <<"assessed", 6>>, <<"excluded", TRUE>>,
     <<"reason", "odd">>, <<"outcome", "blocked">>, <<"outcome", "odd">>, <<"blocker", "tool">>,
     <<"kind", "blocked_attempt_envelope">>, <<"kind", "odd">>, <<"path", NoId>>, <<"output", Nil>>,
     <<"output", "other bytes">>, <<"hidden", FALSE>>, <<"complete", FALSE>>, <<"misses", 1>>,
     <<"misses", 2>>, <<"assessor", "p1">>, <<"assessor", "a2">>, <<"assessor", Nil>>,
     <<"unpinned", {"fixture"}>>, <<"unpinned", {"comparison_withheld"}>>}
RunStudies ==
    {[BaseStudy EXCEPT !.runs[1][x[1]] = x[2]] : x \in FieldValues}
    \cup {[BaseStudy EXCEPT !.runs[1].outcome = "blocked", !.runs[1].blocker = "tool",
                            !.runs[1][x[1]] = x[2], !.runs[1].kind = k] :
            x \in FieldValues, k \in {"output_artifact", "blocked_attempt_envelope"}}
    \cup {[BaseStudy EXCEPT !.runs[1].sealId = i, !.runs[1].path = i, !.runs[2].sealId = j,
                            !.runs[2].path = j, !.runs[1].attestId = k] :
            i, j \in {NoId, <<"s">>}, k \in {NoId, <<"t">>, <<"p1", "veridoc", 1>>}}

CohortStudies ==
    {[BaseStudy EXCEPT !.participants[1].order = o, !.participants[2].order = q,
                       !.participants[3].status = s, !.participants[3].id = i,
                       !.status = t, !.cases = c] :
        o, q \in {ByHand, WithTool, <<>>}, s \in {"completed", "withdrawn", "odd"},
        i \in {"p3", "p1", Nil}, t \in {"validation_example", "completed", "odd"},
        c \in {<<"c1">>, <<>>, <<"c1", "c1">>, <<"c9">>}}
    \cup {[BaseStudy EXCEPT !.participants[1].attested = a, !.participants[1].version = v,
                            !.version = w, !.participants[1].consented = c, !.unpinned = u] :
            a \in BOOLEAN, v, w \in {"v1", "v2", Nil}, c \in {NoTime, 2}, u \in {{}, {"manifest"}}}

MCStudies == <<TimelineStudies, RetriedStudies, LeavingStudies, RunStudies, CohortStudies>>

MCEdits ==
    {<<"run", 1, x[1], x[2]>> : x \in FieldValues}
    \cup {<<"drop", i, "", 0>> : i \in {1, 7}}
    \cup {<<"participant", 1, "consented", 1>>, <<"participant", 1, "version", "v2">>,
          <<"study", 1, "quality", 2>>, <<"study", 1, "status", "completed">>}

\* The record is edited in the studies whose first three reviewers keep to the
\* protocol and whose runs are blind and well timed: the others are looked at
\* without an edit.
Editable == /\ SubSeq(study.participants, 1, 3) = BaseStudy.participants
            /\ \A i \in DOMAIN study.runs :
                  study.runs[i].hidden /\ study.runs[i].end > study.runs[i].start

NoStudyYet == BaseStudy
=============================================================================
