----------------------------- MODULE ExamResults -----------------------------
(***************************************************************************)
(* Exams of one session and one class: their structure, the marks entered,  *)
(* the subject results computed from the marks of active exams, the report  *)
(* cards computed from the results, and their publication.                  *)
(*                                                                         *)
(* Percentages are in hundredths of a percent.                              *)
(***************************************************************************)
EXTENDS Handlers, FiniteSetsExt, SequencesExt

CONSTANTS Exams, Subjects, Pupils, Weight   \* Weight: of each exam, Nothing where none is set

WeightAssumption == Weight \in [Exams -> Nat \cup {Nothing}]

\* exam: its row and its class link; slot: subjects of an exam; marks: per slot and student,
\* "absent" or a number; result, card: per student; now: time; told: what a publish answered.
ExamTables ==
    [exam : [Exams -> [status : {"DRAFT", "ACTIVE"}, entry : BOOLEAN, klass : {"none", "on", "off"}] \cup {Nothing}],
     slot : [Exams -> [Subjects -> [active : BOOLEAN, total : Nat \cup {Nothing}] \cup {Nothing}]],
     marks : [Exams -> [Subjects -> [Pupils -> Int]]],
     result : [Pupils -> [Subjects -> [percent : Nat, rank : Nat, computedAt : Nat] \cup {Nothing}]],
     card : [Pupils -> [percent : Nat, updatedAt : Nat, published : BOOLEAN] \cup {Nothing}],
     now : Nat]

\* A marks entry: no entry, absent, or the marks obtained.
NoEntry == -2
Absent == -1
HasMarks(e, b) == \E s \in Pupils : db.marks[e][b][s] # NoEntry
Tick(tables) == [tables EXCEPT !.now = @ + 1]

-----------------------------------------------------------------------------
(* Averages, ranks and grades                                              *)

Percent(obtained, total) == IF total > 0 THEN (10000 * obtained) \div total ELSE 0
Total(seq) == FoldLeft(LAMBDA a, b : a + b, 0, seq)
\* rows: percentage and weight of each exam; equal weights where all are zero.
WeightedAverage(rows) ==
    LET weights == Total([i \in DOMAIN rows |-> rows[i].weight]) IN
    IF rows = <<>> THEN 0
    ELSE IF weights = 0 THEN Total([i \in DOMAIN rows |-> rows[i].percent]) \div Len(rows)
    ELSE Total([i \in DOMAIN rows |-> rows[i].percent * rows[i].weight]) \div weights
\* The report card's overall percentage: the simple average of the subjects.
Overall(percents) == IF percents = <<>> THEN 0 ELSE Total(percents) \div Len(percents)

\* Mutant: ties do not push the next rank back.
DenseRanks(percents) ==
    FoldLeftDomain(LAMBDA acc, i :
        IF i = 1 THEN [acc EXCEPT !.ranks = <<1>>]
        ELSE IF percents[i] < percents[i - 1]
        THEN [ranks |-> Append(acc.ranks, acc.rank + 1), rank |-> acc.rank + 1, skip |-> 0]
        ELSE [acc EXCEPT !.ranks = Append(@, acc.rank)],
        [ranks |-> <<>>, rank |-> 1, skip |-> 0], percents).ranks
\* Of percentages in descending order: ties share a rank and the next one is pushed back.
CompetitionRanks(percents) ==
    FoldLeftDomain(LAMBDA acc, i :
        IF i = 1 THEN [acc EXCEPT !.ranks = <<1>>]
        ELSE IF percents[i] < percents[i - 1]
        THEN [ranks |-> Append(acc.ranks, acc.rank + acc.skip + 1), rank |-> acc.rank + acc.skip + 1, skip |-> 0]
        ELSE [acc EXCEPT !.ranks = Append(@, acc.rank), !.skip = @ + 1],
        [ranks |-> <<>>, rank |-> 1, skip |-> 0], percents).ranks

-----------------------------------------------------------------------------
(* Exams and their structure                                               *)

\* The subjects of the class that the exam lacks are added, disabled ones stay.
Structure(p) ==
    LET e == Call(p).exam IN
    \/ At(p, "structure", 0) /\ IF db.exam[e] = Nothing THEN Refuse(p) ELSE ReadTo(p, 1, Nothing)
    \/ /\ At(p, "structure", 1)
       /\ IF db.exam[e] = Nothing THEN Refuse(p)
          ELSE Commit(p, [db EXCEPT
              !.exam[e].klass = IF @ = "none" THEN "on" ELSE @,
              !.slot[e] = [b \in Subjects |-> IF b \in Call(p).subjects /\ @[b] = Nothing
                                              THEN [active |-> TRUE, total |-> Nothing] ELSE @[b]]])
\* A class is disabled only without marks, and its subjects after it.
ToggleClass(p) ==
    LET e == Call(p).exam IN
    \/ /\ At(p, "toggleClass", 0)
       /\ IF db.exam[e] = Nothing \/ db.exam[e].klass = "none" \/ (~Call(p).on /\ \E b \in Subjects : HasMarks(e, b))
          THEN Refuse(p) ELSE ReadTo(p, 1, Nothing)
    \/ /\ At(p, "toggleClass", 1) /\ db.exam[e] # Nothing
       /\ WriteTo(p, 2, [db EXCEPT !.exam[e].klass = IF Call(p).on THEN "on" ELSE "off"])
    \/ /\ At(p, "toggleClass", 2)
       /\ Commit(p, [db EXCEPT !.slot[e] =
              [b \in Subjects |-> IF @[b] = Nothing THEN Nothing ELSE [@[b] EXCEPT !.active = Call(p).on]]])
    \/ At(p, "toggleClass", 1) /\ db.exam[e] = Nothing /\ Refuse(p)
ToggleSubject(p) ==
    LET e == Call(p).exam b == Call(p).subject IN
    \/ /\ At(p, "toggleSubject", 0)
       /\ IF db.slot[e][b] = Nothing \/ (~Call(p).on /\ HasMarks(e, b)) THEN Refuse(p) ELSE ReadTo(p, 1, Nothing)
    \/ At(p, "toggleSubject", 1) /\ IF db.slot[e][b] = Nothing THEN Refuse(p)
                                    ELSE Commit(p, [db EXCEPT !.slot[e][b].active = Call(p).on])
\* Publishing an exam asks for a class, and ends the teachers' entry of marks.
UpdateExam(p) ==
    LET e == Call(p).exam goes == Call(p).status = "ACTIVE" /\ loc[p] # Nothing /\ loc[p].was = "DRAFT" IN
    \/ /\ At(p, "status", 0)
       /\ IF db.exam[e] = Nothing THEN Refuse(p) ELSE ReadTo(p, 1, [was |-> db.exam[e].status])
    \/ /\ At(p, "status", 1)
       /\ IF (goes /\ (db.exam[e] = Nothing \/ db.exam[e].klass # "on")) \/ (Call(p).entry /\ loc[p].was = "ACTIVE")
          THEN Refuse(p) ELSE ReadTo(p, 2, loc[p])
    \/ /\ At(p, "status", 2)
       /\ IF db.exam[e] = Nothing THEN Refuse(p)
          ELSE Commit(p, [db EXCEPT !.exam[e].status = Call(p).status,
                                    !.exam[e].entry = IF goes THEN FALSE ELSE Call(p).entry \/ @])
DeleteExam(p) ==
    LET e == Call(p).exam IN
    \/ /\ At(p, "delete", 0)
       /\ IF db.exam[e] = Nothing \/ db.exam[e].klass # "none" THEN Refuse(p) ELSE ReadTo(p, 1, Nothing)
    \/ /\ At(p, "delete", 1)
       /\ Commit(p, [db EXCEPT !.exam[e] = Nothing, !.slot[e] = [b \in Subjects |-> Nothing],
                               !.marks[e] = [b \in Subjects |-> [s \in Pupils |-> NoEntry]]])

-----------------------------------------------------------------------------
(* Marks                                                                   *)

\* A teacher's way in: refused once a card of the class is published.
TeacherAccess(p) ==
    /\ At(p, "marks", 0)
    /\ LET e == db.exam[Call(p).exam] IN
       IF Call(p).teacher
          /\ (e = Nothing \/ e.status # "DRAFT" \/ ~e.entry \/ ~scene.teachersEnter
                \/ \E s \in Pupils : db.card[s] # Nothing /\ db.card[s].published)
       THEN Refuse(p) ELSE ReadTo(p, 1, Nothing)
\* The subject is enabled, the exam a draft, and no entry of the request above the total.
SaveCheck(p) ==
    /\ At(p, "marks", 1)
    /\ LET e == Call(p).exam slot == db.slot[e][Call(p).subject]
           total == IF Call(p).total # Nothing THEN Call(p).total ELSE IF slot = Nothing THEN Nothing ELSE slot.total IN
       IF slot = Nothing \/ db.exam[e].status # "DRAFT" THEN Refuse(p)
       ELSE IF ~slot.active \/ total = Nothing THEN Refuse(p)
       ELSE IF \E s \in DOMAIN Call(p).entries : Call(p).entries[s] > total THEN Refuse(p)
       ELSE ReadTo(p, 2, [todo |-> DOMAIN Call(p).entries])
SaveTotal(p) ==
    LET e == Call(p).exam b == Call(p).subject IN
    /\ At(p, "marks", 2)
    /\ IF Call(p).total = Nothing THEN ReadTo(p, 3, loc[p])
       ELSE IF db.slot[e][b] = Nothing THEN Refuse(p)
       ELSE WriteTo(p, 3, [db EXCEPT !.slot[e][b].total = Call(p).total])
\* The entries are written side by side, in any order.
SaveEntry(p) ==
    LET e == Call(p).exam b == Call(p).subject IN
    /\ At(p, "marks", 3)
    /\ IF db.slot[e][b] = Nothing THEN Refuse(p)
       ELSE \E s \in loc[p].todo :
              LET tables == [db EXCEPT !.marks[e][b][s] = Call(p).entries[s]] IN
              IF loc[p].todo = {s} THEN Commit(p, tables)
              ELSE /\ db' = tables /\ loc' = [loc EXCEPT ![p].todo = @ \ {s}] /\ UNCHANGED <<calls, pc, scene>>
DeleteMark(p) ==
    LET e == Call(p).exam b == Call(p).subject IN
    \/ /\ At(p, "unmark", 0)
       /\ IF db.marks[e][b][Call(p).pupil] = NoEntry \/ db.exam[e].status # "DRAFT" THEN Refuse(p) ELSE ReadTo(p, 1, Nothing)
    \/ /\ At(p, "unmark", 1) /\ Commit(p, [db EXCEPT !.marks[e][b][Call(p).pupil] = NoEntry])

-----------------------------------------------------------------------------
(* Subject results                                                         *)

Slots(b) == {e \in Exams : db.exam[e] # Nothing /\ db.exam[e].status = "ACTIVE" /\ db.slot[e][b] # Nothing /\ db.slot[e][b].active}
EntryPercent(mark, total) == IF mark = Absent THEN 0 ELSE Percent(mark, IF total = Nothing THEN 100 ELSE total)
\* Exams with an entry of the student; a missing weight counts as one.
Rows(w, s) ==
    LET es == SetToSeq({e \in w.exams : w.marks[e][s] # NoEntry}) IN
    [i \in DOMAIN es |-> [percent |-> EntryPercent(w.marks[es[i]][s], w.totals[es[i]]),
                          weight |-> IF Weight[es[i]] = Nothing THEN 1 ELSE Weight[es[i]]]]
\* The students with rows, best first.
ByPercent(w, pupils) ==
    SetToSortSeq({s \in pupils : Rows(w, s) # <<>>},
                 LAMBDA s, t : WeightedAverage(Rows(w, s)) > WeightedAverage(Rows(w, t))
                               \/ (WeightedAverage(Rows(w, s)) = WeightedAverage(Rows(w, t)) /\ s < t))
\* An upsert: an existing row keeps the time it was first computed at.
Upserted(tables, s, b, percent, rank) ==
    LET old == tables.result[s][b] IN
    Tick([tables EXCEPT !.result[s][b] =
        [percent |-> percent, rank |-> IF rank = 0 /\ old # Nothing THEN old.rank ELSE rank,
         computedAt |-> IF old = Nothing THEN tables.now + 1 ELSE old.computedAt]])

Computing(p) == calls[p] # <<>> /\ Call(p).op \in {"computeOne", "computeClass", "computeSession"}
Subject(p) == loc[p].subjects[1]
\* A session computes the subjects of its active exams one after the other.
StartCompute(p) ==
    /\ Computing(p) /\ pc[p] = 0
    /\ LET bs == IF Call(p).op = "computeSession" THEN SetToSeq({b \in Subjects : Slots(b) # {}}) ELSE <<Call(p).subject>> IN
       IF bs = <<>> THEN Refuse(p) ELSE ReadTo(p, 1, [subjects |-> bs])
FetchSlots(p) ==
    /\ Computing(p) /\ pc[p] = 1
    /\ IF Slots(Subject(p)) = {} THEN Refuse(p)
       ELSE ReadTo(p, 2, [subjects |-> loc[p].subjects, exams |-> Slots(Subject(p)),
                          totals |-> [e \in Slots(Subject(p)) |-> db.slot[e][Subject(p)].total]])
\* The marks, from which the percentages and the ranks follow.
FetchMarks(p) ==
    /\ Computing(p) /\ pc[p] = 2
    /\ LET w == [exams |-> loc[p].exams, totals |-> loc[p].totals,
                 marks |-> [e \in loc[p].exams |-> db.marks[e][Subject(p)]]]
           who == ByPercent(w, IF Call(p).op = "computeOne" THEN {Call(p).pupil} ELSE Pupils)
           percents == [i \in DOMAIN who |-> WeightedAverage(Rows(w, who[i]))]
       IN IF who = <<>> /\ Call(p).op = "computeOne" THEN Refuse(p)
          ELSE ReadTo(p, 3, [subjects |-> loc[p].subjects, who |-> who, percents |-> percents,
                             rows |-> [i \in DOMAIN who |-> Rows(w, who[i])],
                             ranks |-> IF Call(p).op = "computeOne" THEN <<0>> ELSE CompetitionRanks(percents),
                             todo |-> DOMAIN who])
\* The results are written side by side; then the session's next subject.
UpsertResults(p) ==
    /\ Computing(p) /\ pc[p] = 3
    /\ \/ \E i \in loc[p].todo :
             /\ db' = Upserted(db, loc[p].who[i], Subject(p), loc[p].percents[i], loc[p].ranks[i])
             /\ loc' = [loc EXCEPT ![p].todo = @ \ {i}]
             /\ UNCHANGED <<calls, pc, scene>>
       \/ /\ loc[p].todo = {}
          /\ IF Len(loc[p].subjects) = 1 THEN Refuse(p)
             ELSE ReadTo(p, 1, [subjects |-> Tail(loc[p].subjects)])

-----------------------------------------------------------------------------
(* Report cards                                                            *)

ResultsOf(s) == {b \in Subjects : db.result[s][b] # Nothing}
PercentsOf(s) == LET bs == SetToSeq(ResultsOf(s)) IN [i \in DOMAIN bs |-> db.result[s][bs[i]].percent]
Carding(p) == calls[p] # <<>> /\ Call(p).op \in {"cardOne", "cardClass"}
ReadResults(p) ==
    /\ Carding(p) /\ pc[p] = 0
    /\ LET who == {s \in (IF Call(p).op = "cardOne" THEN {Call(p).pupil} ELSE Pupils) : ResultsOf(s) # {}}
           best == SetToSortSeq(who, LAMBDA s, t : Overall(PercentsOf(s)) > Overall(PercentsOf(t))
                                                   \/ (Overall(PercentsOf(s)) = Overall(PercentsOf(t)) /\ s < t))
           percents == [i \in DOMAIN best |-> Overall(PercentsOf(best[i]))]
       IN IF who = {} THEN Refuse(p)
          ELSE ReadTo(p, 1, [who |-> best, percents |-> percents, ranks |-> CompetitionRanks(percents), todo |-> DOMAIN best])
\* A card is a draft again, and has no rank.
UpsertCards(p) ==
    /\ Carding(p) /\ pc[p] = 1
    /\ \/ \E i \in loc[p].todo :
             /\ db' = Tick([db EXCEPT !.card[loc[p].who[i]] =
                        [percent |-> loc[p].percents[i], updatedAt |-> db.now + 1, published |-> FALSE]])
             /\ loc' = [loc EXCEPT ![p].todo = @ \ {i}]
             /\ UNCHANGED <<calls, pc, scene>>
       \/ loc[p].todo = {} /\ IF Call(p).op = "cardOne" THEN Refuse(p) ELSE ReadTo(p, 2, loc[p])
\* The cards are ranked in one statement, which compares the id with a condition on the id
\* (CASE id WHEN id = $1): PostgreSQL refuses it, and the class is answered with the error.
RankCards(p) ==
    /\ Carding(p) /\ pc[p] = 2
    /\ Refuse(p)

\* Publication: every subject of the active exams has a result, and no result is younger
\* than the card.
ReadCard(p) ==
    /\ At(p, "publish", 0)
    /\ LET c == db.card[Call(p).pupil] IN
       IF c = Nothing THEN Refuse(p) ELSE IF c.published THEN Refuse(p) ELSE ReadTo(p, 1, [card |-> c])
PublishResults(p) ==
    /\ At(p, "publish", 1)
    /\ ReadTo(p, 2, [card |-> loc[p].card, results |-> db.result[Call(p).pupil]])
\* Mutant: nothing is asked of the results.
PublishAnyway(p) ==
    At(p, "publish", 2) /\ Commit(p, [db EXCEPT !.card[Call(p).pupil].published = TRUE])
Expected == {b \in Subjects : \E e \in Slots(b) : db.exam[e].klass = "on"}
Younger(results, card) == \E b \in Subjects : results[b] # Nothing /\ results[b].computedAt > card.updatedAt
PublishCheck(p) ==
    /\ At(p, "publish", 2)
    /\ IF (\E b \in Expected : loc[p].results[b] = Nothing) \/ Younger(loc[p].results, loc[p].card)
       THEN Refuse(p) ELSE ReadTo(p, 3, loc[p])
Publish(p) ==
    /\ At(p, "publish", 3)
    /\ Commit(p, Tick([db EXCEPT !.card[Call(p).pupil].published = TRUE, !.card[Call(p).pupil].updatedAt = db.now + 1]))

-----------------------------------------------------------------------------
Init == HandlersInit

Next ==
    \/ \E p \in Procs : calls[p] # <<>> /\
          (Structure(p) \/ ToggleClass(p) \/ ToggleSubject(p) \/ UpdateExam(p) \/ DeleteExam(p)
             \/ TeacherAccess(p) \/ SaveCheck(p) \/ SaveTotal(p) \/ SaveEntry(p) \/ DeleteMark(p)
             \/ StartCompute(p) \/ FetchSlots(p) \/ FetchMarks(p) \/ UpsertResults(p)
             \/ ReadResults(p) \/ UpsertCards(p) \/ RankCards(p)
             \/ ReadCard(p) \/ PublishResults(p) \/ PublishCheck(p) \/ Publish(p))
    \/ Rest

Spec == Init /\ [][Next]_handlerVars

-----------------------------------------------------------------------------
(* Properties                                                              *)

TypeOK == HandlersTypeOK /\ db \in ExamTables

Ranking(p) == loc[p] # Nothing /\ "ranks" \in DOMAIN loc[p] /\ loc[p].ranks # <<0>>

\* Ranks are competition ranks: one more than the students who did better, so that ties
\* share a rank and the ranks they take are left out.
RanksAreCompetition ==
    \A p \in Procs : Ranking(p) => \A i \in DOMAIN loc[p].who :
        loc[p].ranks[i] = 1 + Cardinality({j \in DOMAIN loc[p].who : loc[p].percents[j] > loc[p].percents[i]})

\* A card is published with a result for every subject its class sat in an active exam.
\* Said of scenes in which no exam changes while a card is being published.
CompletePublication ==
    scene.exams = "still" => \A s \in Pupils :
          db'.card[s] # Nothing /\ db'.card[s].published /\ (db.card[s] # Nothing => ~db.card[s].published)
            => Expected \subseteq ResultsOf(s)

\* No card is published from results that were computed again after it, which the
\* publication says it refuses ("Report card is stale - subject results were recomputed
\* after this card").  Said of a single caller.
FreshPublication ==
    \A s \in Pupils :
        db'.card[s] # Nothing /\ db'.card[s].published /\ (db.card[s] # Nothing => ~db.card[s].published)
          => db'.card[s].percent = Overall(PercentsOf(s))
=============================================================================
