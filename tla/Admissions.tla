------------------------------ MODULE Admissions ------------------------------
(***************************************************************************)
(* Students: admission with its key, its guard against a second copy, its   *)
(* numbers and its guardian; status, removal, school tenures and moves from *)
(* one class to another.  An admission is a dozen statements; the unique    *)
(* indexes decide what two of them at once may write.                       *)
(***************************************************************************)
EXTENDS Handlers, FiniteSetsExt

CONSTANTS AdmitKeys, Names, Classes, MaxStudents, MaxNumber

\* No student is inserted beyond the first bound and no number taken beyond the second.
ASSUME AdmissionBounds == MaxStudents \in Nat /\ MaxNumber \in Nat /\ Nothing \notin AdmitKeys

StudentRow ==
    [key : AdmitKeys \cup {Nothing}, name : Names, klass : Classes, number : 1..MaxNumber,
     roll : Nat \ {0}, status : {"ACTIVE", "WITHDRAWN"}, kin : SUBSET Names, links : 0..3]

\* student: in the order of their rows; gone: the deleted; person: admission numbers
\* taken; next: of the sequence of student numbers; answers: which student each
\* answered admission named; log: status changes; attended: students with attendance
\* rows, billed: with fee rows; stays: school tenures; moves: rows of class movements.
StudentTables ==
    [student : Seq(StudentRow), gone : SUBSET (1..MaxStudents),
     person : SUBSET (1..MaxNumber), next : 1..(MaxNumber + 1),
     answers : SUBSET [key : AdmitKeys \cup {Nothing}, student : 1..MaxStudents, twin : BOOLEAN],
     log : [1..MaxStudents -> Seq({"ACTIVE", "WITHDRAWN"})],
     attended : SUBSET (1..MaxStudents), billed : SUBSET (1..MaxStudents),
     stays : [1..MaxStudents -> Seq({"open", "left"})], moves : [1..MaxStudents -> Nat]]
AdmissionCalls ==
    [op : {"admit"}, key : AdmitKeys \cup {Nothing}, name : Names, klass : Classes, guardian : Names \cup {Nothing}]
        \cup [op : {"delete", "attend", "enter", "depart"}, student : 1..MaxStudents]
        \cup [op : {"status"}, student : 1..MaxStudents, to : {"ACTIVE", "WITHDRAWN"}]
        \cup [op : {"move"}, student : 1..MaxStudents, klass : Classes]
\* The tables a scene starts with: what the unique index and the status log promise holds.
StudentsSound(d) ==
    /\ d \in StudentTables /\ Len(d.student) <= MaxStudents
    /\ \A s, t \in DOMAIN d.student \ d.gone :
          d.student[s].key = d.student[t].key /\ d.student[s].key # Nothing => s = t
    /\ \A a \in d.answers : a.key # Nothing /\ ~a.twin =>
          a.student \in DOMAIN d.student /\ d.student[a.student].key = a.key
    /\ \A s \in DOMAIN d.student \ d.gone :
          d.log[s] # <<>> => d.log[s][Len(d.log[s])] = d.student[s].status
    /\ \A s \in 1..MaxStudents : s \notin DOMAIN d.student => d.log[s] = <<>>
ASSUME AdmissionsSceneAssumption ==
    \A s \in Scenes : s.part = "admissions" =>
        /\ StudentsSound(s.db) /\ \A n \in DOMAIN s.db.student : s.db.student[n].roll <= MaxNumber
        /\ \A p \in DOMAIN s.calls : s.calls[p] \in Seq(AdmissionCalls)

Here == DOMAIN db.student \ db.gone
WithKey(k) == {s \in Here : k # Nothing /\ db.student[s].key = k}
Answers(p, tables, s, twin) ==
    Commit(p, [tables EXCEPT !.answers = @ \cup {[key |-> Call(p).key, student |-> s, twin |-> twin]}])

-----------------------------------------------------------------------------
(* Admission                                                               *)

\* The key was used before: the student it admitted is the answer.
AdmitReplay(p) ==
    /\ At(p, "admit", 0)
    /\ IF WithKey(Call(p).key) # {}
       THEN \E s \in WithKey(Call(p).key) : Answers(p, db, s, FALSE) ELSE ReadTo(p, 1, {})

\* The same child in the same class a moment ago, with the guardian if one is named.
Twins(p) ==
    {s \in Here : /\ db.student[s].klass = Call(p).klass /\ db.student[s].status = "ACTIVE"
                  /\ db.student[s].name = Call(p).name
                  /\ Call(p).guardian = Nothing \/ Call(p).guardian \in db.student[s].kin}
AdmitTwin(p) ==
    /\ At(p, "admit", 1)
    /\ \/ \E s \in Twins(p) : Answers(p, db, s, TRUE)
       \/ (Twins(p) = {} \/ scene.slow) /\ ReadTo(p, 2, {})

\* nextval is never taken back; then the first number free in both tables, up to a bound.
AdmitNumber(p) ==
    /\ At(p, "admit", 2) /\ db.next <= MaxNumber
    /\ db' = [db EXCEPT !.next = @ + 1]
    /\ pc' = [pc EXCEPT ![p] = 3] /\ loc' = [loc EXCEPT ![p] = [number |-> db.next]]
    /\ UNCHANGED <<calls, scene>>
AdmitWalk(p) ==
    LET n == loc[p].number IN
    /\ At(p, "admit", 3)
    /\ CASE n \notin db.person /\ \A s \in Here : db.student[s].number # n -> ReadTo(p, 4, loc[p])
         [] n < MaxNumber -> ReadTo(p, 3, [number |-> n + 1])
         [] OTHER -> Refuse(p)

\* The highest roll of the class and one; a read, with the write two statements later.
Rolls(k) == {db.student[s].roll : s \in {s \in Here : db.student[s].klass = k}}
AdmitRoll(p) ==
    /\ At(p, "admit", 4)
    /\ ReadTo(p, 5, [number |-> loc[p].number, roll |-> Max(Rolls(Call(p).klass) \cup {0}) + 1])

AdmitPerson(p) ==
    /\ At(p, "admit", 5)
    /\ IF loc[p].number \in db.person THEN Refuse(p)
       ELSE WriteTo(p, 6, [db EXCEPT !.person = @ \cup {loc[p].number}])

NewStudent(p) ==
    [key |-> Call(p).key, name |-> Call(p).name, klass |-> Call(p).klass, number |-> loc[p].number,
     roll |-> loc[p].roll, status |-> "ACTIVE", kin |-> {}, links |-> 0]
Insert(p) ==
    /\ db' = [db EXCEPT !.student = Append(@, NewStudent(p))]
    /\ pc' = [pc EXCEPT ![p] = 7] /\ loc' = [loc EXCEPT ![p] = [student |-> Len(db.student) + 1]]
    /\ UNCHANGED <<calls, scene>>
\* Mutant: no unique index on the key.
AdmitInsertAnyKey(p) ==
    /\ At(p, "admit", 6) /\ Len(db.student) < MaxStudents
    /\ IF \E s \in Here : db.student[s].number = loc[p].number THEN Refuse(p) ELSE Insert(p)
\* Of two inserts with one key the second finds the first one's row and goes on with it.
AdmitInsert(p) ==
    /\ At(p, "admit", 6) /\ Len(db.student) < MaxStudents
    /\ CASE WithKey(Call(p).key) # {} -> \E s \in WithKey(Call(p).key) : ReadTo(p, 7, [student |-> s])
         [] \E s \in Here : db.student[s].number = loc[p].number -> Refuse(p)
         [] OTHER -> Insert(p)

\* The guardian's account, whose failure the caller is told although the student stays, then
\* profile and link, whose failure is only logged.
AdmitGuardian(p) ==
    LET s == loc[p].student   g == Call(p).guardian IN
    /\ At(p, "admit", 7)
    /\ \/ /\ g # Nothing /\ s \in Here /\ db.student[s].links < 3
          /\ Answers(p, [db EXCEPT !.student[s].kin = @ \cup {g}, !.student[s].links = @ + 1], s, FALSE)
       \/ g = Nothing /\ Answers(p, db, s, FALSE)
       \/ g # Nothing /\ (scene.fails \/ s \notin Here) /\ Answers(p, db, s, FALSE)
       \/ g # Nothing /\ scene.fails /\ Refuse(p)

Admit(p) ==
    \/ AdmitReplay(p) \/ AdmitTwin(p) \/ AdmitNumber(p) \/ AdmitWalk(p) \/ AdmitRoll(p)
    \/ AdmitPerson(p) \/ AdmitInsert(p) \/ AdmitGuardian(p)

-----------------------------------------------------------------------------
(* Status and removal                                                      *)

\* Mutant: a student comes back without a log.
Unlogged(s, to) ==
    [db EXCEPT !.student[s].status = to, !.log[s] = IF to = "ACTIVE" THEN @ ELSE Append(@, to)]
Logged(s, to) ==
    [db EXCEPT !.student[s].status = to, !.log[s] = Append(@, to)]

\* deactivateStudent, reactivateStudent and the status route: the row and its log in one
\* transaction, after a check of the status in a statement before.
SetStatus(p) ==
    LET s == Call(p).student   to == Call(p).to IN
    \/ /\ At(p, "status", 0)
       /\ IF s \notin Here \/ db.student[s].status = to THEN Refuse(p) ELSE ReadTo(p, 1, {})
    \/ /\ At(p, "status", 1)
       /\ IF s \in Here THEN Commit(p, Logged(s, to)) ELSE Refuse(p)

\* Attendance, meanwhile.
Attend(p) ==
    LET s == Call(p).student IN
    /\ At(p, "attend", 0)
    /\ IF s \in Here THEN Commit(p, [db EXCEPT !.attended = @ \cup {s}]) ELSE Refuse(p)

\* Only without history; the fee rows refuse a late delete, the attendance rows go with it.
DeleteStudent(p) ==
    LET s == Call(p).student IN
    \/ /\ At(p, "delete", 0)
       /\ IF s \notin Here \/ s \in db.attended \cup db.billed THEN Refuse(p) ELSE ReadTo(p, 1, {})
    \/ /\ At(p, "delete", 1)
       /\ IF s \in Here /\ s \notin db.billed
          THEN Commit(p, [db EXCEPT !.gone = @ \cup {s}, !.attended = @ \ {s}]) ELSE Refuse(p)

-----------------------------------------------------------------------------
(* School tenures and class movements                                      *)

StudentJoin(p) ==
    LET s == Call(p).student IN
    \/ /\ At(p, "enter", 0)
       /\ IF db.stays[s] # <<>> /\ db.stays[s][Len(db.stays[s])] = "open" THEN Refuse(p)
          ELSE ReadTo(p, 1, Len(db.stays[s]))
    \/ /\ At(p, "enter", 1)
       /\ IF Len(db.stays[s]) = loc[p]
          THEN Commit(p, [db EXCEPT !.stays[s] = Append(@, "open")]) ELSE Refuse(p)

StudentLeave(p) ==
    LET s == Call(p).student
        open == {n \in DOMAIN db.stays[s] : db.stays[s][n] = "open"} IN
    \/ /\ At(p, "depart", 0)
       /\ IF open = {} THEN Refuse(p) ELSE ReadTo(p, 1, Max(open))
    \/ At(p, "depart", 1) /\ Commit(p, [db EXCEPT !.stays[s][loc[p]] = "left"])

\* The movement is a row of its own, and the student's class follows in another statement.
ClassMovement(p) ==
    LET s == Call(p).student IN
    \/ /\ At(p, "move", 0)
       /\ IF s \in Here THEN ReadTo(p, 1, db.moves[s]) ELSE Refuse(p)
    \/ /\ At(p, "move", 1)
       /\ IF s \in Here /\ db.moves[s] = loc[p] THEN WriteTo(p, 2, [db EXCEPT !.moves[s] = @ + 1])
          ELSE Refuse(p)
    \/ /\ At(p, "move", 2)
       /\ IF s \in Here THEN Commit(p, [db EXCEPT !.student[s].klass = Call(p).klass]) ELSE Refuse(p)

-----------------------------------------------------------------------------
AdmissionsInit == HandlersInit

AdmissionsNext ==
    \/ \E p \in Procs :
          \/ Admit(p) \/ SetStatus(p) \/ Attend(p) \/ DeleteStudent(p)
          \/ StudentJoin(p) \/ StudentLeave(p) \/ ClassMovement(p)
    \/ Rest

AdmissionsSpec == AdmissionsInit /\ [][AdmissionsNext]_handlerVars

-----------------------------------------------------------------------------
(* Properties                                                              *)

AdmissionsTypeOK == HandlersTypeOK /\ db \in StudentTables

\* A key admits one student: every two answers to one key name the same student, however
\* the retry overlaps the first request, unless the answer was another admission of the
\* same child or one of the two students has been deleted (the key's promise in create).
OneStudentPerKey ==
    \A a, b \in {x \in db.answers : x.key # Nothing /\ ~x.twin /\ x.student \notin db.gone} :
        a.key = b.key => a.student = b.student

\* The last entry of the status log is the status the student has.
LogTellsStatus ==
    \A s \in Here : db.log[s] # <<>> => db.log[s][Len(db.log[s])] = db.student[s].status

\* Admissions: an idempotency key admits one student, and the status log ends with the
\* status that the student has.
AdmissionsSound == Of("admissions") => AdmissionsTypeOK /\ OneStudentPerKey /\ LogTellsStatus

\* No two students of one class hold one roll number: what create says of MAX + 1, that
\* counting "happily hands out a roll that somebody else has".
RollsDiffer ==
    \A s, t \in Here : s # t /\ db.student[s].klass = db.student[t].klass =>
        db.student[s].roll # db.student[t].roll
=============================================================================
