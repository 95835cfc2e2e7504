------------------------- MODULE BatchPromotionProofs -------------------------
(***************************************************************************)
(* Proofs about BatchPromotion for any years, students, runs, requests and  *)
(* scenes: the tables refer to what exists, a run's phases are passed       *)
(* through one by one, a user account is linked to one row, and the wizard  *)
(* alone loses no student and moves none up twice.                          *)
(*                                                                         *)
(* The first three rest on the locals of the requests being of the kind     *)
(* that their next step expects (LocOK); nothing is needed about their age. *)
(* The last is an invariant of one run under way at a time (Wizarding).     *)
(***************************************************************************)
EXTENDS BatchPromotion, TLAPS

YearLabels == {"create", "delete"}
ChangeLabels == {"check", "write"}
StartLabels == {"target", "newTarget", "pair", "insert"}
RunLabels == {"carry", "snapshot", "apply", "promote"}

\* What a request carries at each label.
Fits(label, l) ==
    /\ label \in {"idle"} \cup YearLabels \cup ChangeLabels \cup StartLabels \cup RunLabels
    /\ label \in YearLabels => l \in [year : Years]
    /\ label \in ChangeLabels => l \in [change : Changes, year : Years]
    /\ label \in StartLabels => l \in [source : Years, target : Years, carry : Carry]
    /\ label \in RunLabels => l \in [run : RunIds, read : Run]

LocOK ==
    /\ pc = [p \in Requests |-> pc[p]]
    /\ loc = [p \in Requests |-> loc[p]]
    /\ \A p \in Requests : Fits(pc[p], loc[p])

IInv == TypeOK /\ LocOK /\ OneLogin

-----------------------------------------------------------------------------
(* Locals.                                                                 *)

\* A request that goes to a label with what fits there.
LEMMA GotoFits ==
    ASSUME LocOK, NEW p \in Requests, NEW label, NEW l, Fits(label, l), Goto(p, label, l)
    PROVE  LocOK'
<1>1. \A q \in Requests : Fits(pc'[q], loc'[q])
  BY DEF LocOK, Goto
<1> QED
  BY <1>1 DEF LocOK, Goto

LEMMA FinishFits ==
    ASSUME LocOK, NEW p \in Requests, Finish(p)
    PROVE  LocOK'
<1>1. Fits("idle", NoCall)
  BY DEF Fits, YearLabels, ChangeLabels, StartLabels, RunLabels
<1> QED
  BY <1>1, GotoFits DEF Finish

LEMMA MergedTyped ==
    ASSUME NEW c \in Carry, NEW partial \in Partial
    PROVE  Merged(c, partial) \in Carry
BY DEF Merged, Carry, Partial

LEMMA DefaultTyped == DefaultCarry \in Carry
BY DEF DefaultCarry, Carry

LEMMA LocStep ==
    ASSUME TypeOK, LocOK, [Next]_vars
    PROVE  LocOK'
<1>1. CASE UNCHANGED vars
  BY <1>1 DEF vars, yearVars, LocOK
<1>2. ASSUME NEW p \in Requests, YearStep(p) \/ DeleteCascades(p)
      PROVE  LocOK'
  <2>1. ASSUME NEW y \in Years, NEW h \in {"create", "import"}, CreateRead(p, h, y)
        PROVE  LocOK'
    <3>1. Fits("create", [year |-> y])
      BY DEF Fits, YearLabels, ChangeLabels, StartLabels, RunLabels
    <3> QED
      BY <2>1, <3>1, GotoFits DEF CreateRead
  <2>2. ASSUME NEW y \in Years, NEW h \in Changes, ChangeRead(p, h, y)
        PROVE  LocOK'
    <3>1. Fits("check", [change |-> h, year |-> y])
      BY DEF Fits, YearLabels, ChangeLabels, StartLabels, RunLabels
    <3> QED
      BY <2>2, <3>1, GotoFits DEF ChangeRead
  <2>3. ASSUME NEW y \in Years, DeleteRead(p, y)
        PROVE  LocOK'
    <3>1. Fits("delete", [year |-> y])
      BY DEF Fits, YearLabels, ChangeLabels, StartLabels, RunLabels
    <3> QED
      BY <2>3, <3>1, GotoFits DEF DeleteRead
  <2>4. CASE ChangeCheck(p)
    <3>1. Fits("write", loc[p])
      BY <2>4 DEF ChangeCheck, LocOK, Fits, YearLabels, ChangeLabels, StartLabels, RunLabels
    <3> QED
      BY <2>4, <3>1, GotoFits, FinishFits DEF ChangeCheck
  <2>5. CASE CreateWrite(p) \/ ChangeWrite(p) \/ Drop(p) \/ DeleteCascades(p)
    BY <2>5, FinishFits DEF CreateWrite, ChangeWrite, Drop, DeleteCascades, DeleteWrite
  <2> QED
    BY <1>2, <2>1, <2>2, <2>3, <2>4, <2>5 DEF YearStep
<1>3. ASSUME NEW p \in Requests, Start(p)
      PROVE  LocOK'
  <2>1. ASSUME NEW source \in Years, NEW target \in Years, NEW new \in BOOLEAN,
               NEW partial \in Partial, StartRead(p, source, target, new, partial)
        PROVE  LocOK'
    <3>1. Merged(DefaultCarry, partial) \in Carry
      BY DefaultTyped, MergedTyped
    <3> DEFINE l == [source |-> source, target |-> target, carry |-> Merged(DefaultCarry, partial)]
    <3>2. Fits("target", l) /\ Fits("newTarget", l)
      BY <3>1 DEF Fits, YearLabels, ChangeLabels, StartLabels, RunLabels
    <3>3. Goto(p, "target", l) \/ Goto(p, "newTarget", l)
      BY <2>1 DEF StartRead
    <3> QED
      BY <3>2, <3>3, GotoFits
  <2>2. pc[p] \in {"target", "newTarget", "pair"} => Fits("pair", loc[p]) /\ Fits("insert", loc[p])
    BY DEF LocOK, Fits, YearLabels, ChangeLabels, StartLabels, RunLabels
  <2>3. CASE StartTarget(p)
    BY <2>2, <2>3, GotoFits, FinishFits DEF StartTarget
  <2>4. CASE StartNewTarget(p)
    BY <2>2, <2>4, GotoFits, FinishFits DEF StartNewTarget
  <2>5. CASE StartPair(p)
    BY <2>2, <2>5, GotoFits, FinishFits DEF StartPair
  <2>6. CASE \E r \in RunIds : StartInsert(p, r)
    BY <2>6, FinishFits DEF StartInsert
  <2> QED
    BY <1>3, <2>1, <2>3, <2>4, <2>5, <2>6 DEF Start
<1>4. ASSUME NEW p \in Requests, Wizard(p)
      PROVE  LocOK'
  <2>1. ASSUME NEW r \in RunIds, NEW partial \in Partial, CarryRead(p, r, partial)
        PROVE  LocOK'
    <3> DEFINE l == [run |-> r, read |-> [runs[r] EXCEPT !.carry = Merged(@, partial)]]
    <3>1. runs[r] \in Run /\ runs[r].carry \in Carry
      BY <2>1 DEF CarryRead, Exists, TypeOK, Run
    <3>2. [runs[r] EXCEPT !.carry = Merged(@, partial)] \in Run
      BY <3>1, MergedTyped DEF Run
    <3>3. Fits("carry", l)
      BY <3>2 DEF Fits, YearLabels, ChangeLabels, StartLabels, RunLabels
    <3>4. Goto(p, "carry", l)
      BY <2>1 DEF CarryRead
    <3> QED
      BY <3>3, <3>4, GotoFits
  <2>2. ASSUME NEW r \in RunIds, NEW h \in {"snapshot", "apply", "promote"}, StepRead(p, h, r)
        PROVE  LocOK'
    <3>1. runs[r] \in Run
      BY <2>2 DEF StepRead, Exists, TypeOK
    <3>2. Fits(h, [run |-> r, read |-> runs[r]])
      BY <3>1 DEF Fits, YearLabels, ChangeLabels, StartLabels, RunLabels
    <3> QED
      BY <2>2, <3>2, GotoFits DEF StepRead
  <2>3. CASE CarryWrite(p) \/ Snapshot(p) \/ Apply(p) \/ Promote(p)
    BY <2>3, FinishFits DEF CarryWrite, Snapshot, Apply, Promote
  <2> QED
    BY <1>4, <2>1, <2>2, <2>3 DEF Wizard
<1> QED
  BY <1>1, <1>2, <1>3, <1>4 DEF Next

-----------------------------------------------------------------------------
(* The tables.                                                             *)

RunsT == runs \in [RunIds -> Run \cup {NoRun}]
GroupsT == groups \in [Years -> SUBSET (Nat \ {NoClass})]
RowsT == row \in [Years -> [Students -> Row \cup {NoRow}]]

LEMMA InPhaseTyped ==
    ASSUME NEW r \in Run, NEW ph \in Phases
    PROVE  [r EXCEPT !.phase = ph] \in Run
BY DEF Run

LEMMA LeftBehindTyped ==
    ASSUME RowsT, NEW source \in Years, NEW s \in Students
    PROVE  /\ LeftBehind(source, s) \in Row \cup {NoRow}
           /\ LeftBehind(source, s) # NoRow => row[source][s] # NoRow
           /\ Promotable(source, s) => ~LeftBehind(source, s).user
<1>1. CASE Promotable(source, s)
  <2>1. row[source][s] \in Row
    BY <1>1 DEF RowsT, Promotable
  <2> QED
    BY <1>1, <2>1 DEF LeftBehind, Promotable, Row
<1>2. CASE ~Promotable(source, s)
  BY <1>2 DEF LeftBehind, RowsT
<1> QED
  BY <1>1, <1>2

LEMMA MovedUpTyped ==
    ASSUME RowsT, NEW source \in Years, NEW s \in Students
    PROVE  /\ MovedUp(source, s) \in Row \cup {NoRow}
           /\ MovedUp(source, s) # NoRow =>
                Promotable(source, s) /\ MovedUp(source, s).user = row[source][s].user
<1>1. CASE Promotable(source, s)
  <2>1. row[source][s] \in Row
    BY <1>1 DEF RowsT, Promotable
  <2> QED
    BY <1>1, <2>1 DEF MovedUp, Row
<1>2. CASE ~Promotable(source, s)
  BY <1>2 DEF MovedUp
<1> QED
  BY <1>1, <1>2

\* The transaction of applyCarry, row by row.
LEMMA CarriedTyped ==
    ASSUME RowsT, NEW source \in Years, NEW target \in Years, NEW carry \in Carry, source # target
    PROVE  /\ CarriedRows(source, target, carry) \in [Years -> [Students -> Row \cup {NoRow}]]
           /\ \A y \in Years, s \in Students :
                /\ y # target /\ CarriedRows(source, target, carry)[y][s] # NoRow => row[y][s] # NoRow
                /\ y \notin {source, target} => CarriedRows(source, target, carry)[y][s] = row[y][s]
                /\ ~carry["students"] =>
                     /\ CarriedRows(source, target, carry)[target][s] = NoRow
                     /\ CarriedRows(source, target, carry)[source][s] = row[source][s]
                /\ carry["students"] =>
                     /\ CarriedRows(source, target, carry)[target][s] = MovedUp(source, s)
                     /\ CarriedRows(source, target, carry)[source][s] = LeftBehind(source, s)
<1> DEFINE cell(y, s) == CASE y = target -> IF carry["students"] THEN MovedUp(source, s) ELSE NoRow
                           [] y = source /\ carry["students"] -> LeftBehind(source, s)
                           [] OTHER -> row[y][s]
<1>1. ASSUME NEW y \in Years, NEW s \in Students
      PROVE  /\ cell(y, s) \in Row \cup {NoRow}
             /\ y # target /\ cell(y, s) # NoRow => row[y][s] # NoRow
             /\ y \notin {source, target} => cell(y, s) = row[y][s]
             /\ ~carry["students"] => cell(target, s) = NoRow /\ cell(source, s) = row[source][s]
             /\ carry["students"] =>
                  cell(target, s) = MovedUp(source, s) /\ cell(source, s) = LeftBehind(source, s)
  BY LeftBehindTyped, MovedUpTyped DEF RowsT
<1>2. CarriedRows(source, target, carry) = [y \in Years |-> [s \in Students |-> cell(y, s)]]
  BY DEF CarriedRows
<1> HIDE DEF cell
<1>3. CarriedRows(source, target, carry) \in [Years -> [Students -> Row \cup {NoRow}]]
  BY <1>1, <1>2
<1>4. \A y \in Years, s \in Students : CarriedRows(source, target, carry)[y][s] = cell(y, s)
  BY <1>2
<1> QED
  BY <1>1, <1>3, <1>4

LEMMA InitIInv == Init => IInv
<1> SUFFICES ASSUME Init PROVE IInv
  OBVIOUS
<1>1. scene \in Scene
  BY ScenesAssumption DEF Init, YearsInit
<1>2. status \in [Years -> Statuses] /\ runs \in [RunIds -> Run \cup {NoRun}]
  BY <1>1 DEF Init, YearsInit, Scene
<1>3. groups \in [Years -> SUBSET (Nat \ {NoClass})]
  BY <1>1 DEF Init, Scene
<1>4. \A s \in Students :
        [class |-> scene.classOf[s], active |-> TRUE, user |-> s \in Logins] \in Row
  BY <1>1 DEF Scene, Row
<1>5. row \in [Years -> [Students -> Row \cup {NoRow}]]
  BY <1>4 DEF Init
<1>6. References
  <2>1. ASSUME NEW r \in RunIds, Exists(r)
        PROVE  status[runs[r].source] \in Live /\ status[runs[r].target] \in Live
    BY <2>1, ScenesAssumption DEF Init, YearsInit, Exists
  <2>2. ASSUME NEW y \in Years, NEW s \in Students, row[y][s] # NoRow
        PROVE  status[y] \in Live
    BY <2>2 DEF Init, Live
  <2> QED
    BY <2>1, <2>2 DEF References
<1>7. OneLogin
  <2>1. ASSUME NEW y \in Years, NEW s \in Students, HasLogin(y, s)
        PROVE  status[y] = "ACTIVE"
    BY <2>1 DEF Init, HasLogin
  <2>2. \A y, z \in Years : status[y] = "ACTIVE" /\ status[z] = "ACTIVE" => y = z
    BY ScenesAssumption DEF Init, YearsInit
  <2> QED
    BY <2>1, <2>2 DEF OneLogin
<1>8. LocOK
  BY DEF Init, YearsInit, LocOK, Fits, YearLabels, ChangeLabels, StartLabels, RunLabels
<1> QED
  BY <1>2, <1>3, <1>5, <1>6, <1>7, <1>8 DEF IInv, TypeOK

-----------------------------------------------------------------------------
(* Every step keeps the tables' types and references.                      *)

\* A step that only brings years to life, or none, and rewrites no row or run.
LEMMA StatusStep ==
    ASSUME TypeOK, UNCHANGED promotion, status' \in [Years -> Statuses],
           \A y \in Years : status[y] \in Live => status'[y] \in Live
    PROVE  TypeOK'
<1>1. References'
  BY DEF TypeOK, References, promotion, Exists, Run
<1> QED
  BY <1>1 DEF TypeOK, promotion

\* A step that rewrites run r, which stays between its years.
LEMMA RunStep ==
    ASSUME TypeOK, NEW r \in RunIds, NEW rn \in Run, Exists(r), runs' = [runs EXCEPT ![r] = rn],
           rn.source = runs[r].source, rn.target = runs[r].target,
           status' \in [Years -> Statuses], UNCHANGED <<groups, row>>,
           \A y \in Years : status[y] \in Live => status'[y] \in Live
    PROVE  TypeOK'
<1>1. runs' \in [RunIds -> Run \cup {NoRun}]
  BY DEF TypeOK
<1>2. ASSUME NEW q \in RunIds, Exists(q)'
      PROVE  status'[runs'[q].source] \in Live /\ status'[runs'[q].target] \in Live
  <2>1. CASE q = r
    BY <2>1 DEF TypeOK, References, Exists, Run
  <2>2. CASE q # r
    BY <1>2, <2>2 DEF TypeOK, References, Exists, Run
  <2> QED
    BY <2>1, <2>2
<1>3. \A y \in Years, s \in Students : row'[y][s] # NoRow => status'[y] \in Live
  BY DEF TypeOK, References
<1> QED
  BY <1>1, <1>2, <1>3 DEF TypeOK, References

LEMMA DeleteStep ==
    ASSUME IInv, NEW p \in Requests, DeleteCascades(p)
    PROVE  TypeOK'
<1> DEFINE y == loc[p].year
<1>1. y \in Years
  BY DEF DeleteCascades, DeleteWrite, IInv, LocOK, Fits, YearLabels
<1>2. status' \in [Years -> Statuses] /\ \A z \in Years \ {y} : status'[z] = status[z]
  BY <1>1 DEF DeleteCascades, DeleteWrite, IInv, TypeOK, Statuses
<1>3. ASSUME NEW r \in RunIds
      PROVE  /\ runs'[r] \in Run \cup {NoRun}
             /\ Exists(r)' => runs'[r] = runs[r] /\ y \notin {runs[r].source, runs[r].target}
  <2>1. CASE runs[r] # NoRun /\ y \in {runs[r].source, runs[r].target}
    <3>1. runs[r] \in Run
      BY <2>1 DEF IInv, TypeOK
    <3>2. runs'[r] = [runs[r] EXCEPT !.phase = "deleted"]
      BY <2>1 DEF DeleteCascades
    <3> QED
      BY <3>1, <3>2, InPhaseTyped DEF Exists, Phases, Run
  <2>2. CASE ~(runs[r] # NoRun /\ y \in {runs[r].source, runs[r].target})
    <3>1. runs'[r] = runs[r]
      BY <2>2 DEF DeleteCascades
    <3> QED
      BY <2>2, <3>1 DEF IInv, TypeOK, Exists
  <2> QED
    BY <2>1, <2>2
<1>4. runs' \in [RunIds -> Run \cup {NoRun}]
  <2>1. runs' = [r \in RunIds |-> runs'[r]]
    BY DEF DeleteCascades
  <2> QED
    BY <1>3, <2>1
<1>5. groups' \in [Years -> SUBSET (Nat \ {NoClass})]
  BY <1>1 DEF DeleteCascades, IInv, TypeOK
<1>6. row' \in [Years -> [Students -> Row \cup {NoRow}]]
  BY <1>1 DEF DeleteCascades, IInv, TypeOK
<1>7. References'
  <2>1. ASSUME NEW r \in RunIds, Exists(r)'
        PROVE  status'[runs'[r].source] \in Live /\ status'[runs'[r].target] \in Live
    <3>1. runs'[r] = runs[r] /\ Exists(r) /\ y \notin {runs[r].source, runs[r].target}
      BY <1>3, <2>1 DEF Exists
    <3>2. runs[r] \in Run
      BY <3>1 DEF IInv, TypeOK, Exists
    <3> QED
      BY <1>2, <3>1, <3>2 DEF IInv, TypeOK, References, Run
  <2>2. ASSUME NEW z \in Years, NEW s \in Students, row'[z][s] # NoRow
        PROVE  status'[z] \in Live
    BY <1>1, <1>2, <2>2 DEF DeleteCascades, IInv, TypeOK, References
  <2> QED
    BY <2>1, <2>2 DEF References
<1> QED
  BY <1>2, <1>4, <1>5, <1>6, <1>7 DEF TypeOK

LEMMA StartStep ==
    ASSUME IInv, NEW p \in Requests, Start(p)
    PROVE  TypeOK'
<1>1. CASE \E source, target \in Years, new \in BOOLEAN, partial \in Partial :
             StartRead(p, source, target, new, partial)
  BY <1>1, StatusStep DEF StartRead, IInv, TypeOK
<1>2. CASE StartTarget(p) \/ StartPair(p)
  BY <1>2, StatusStep DEF StartTarget, StartPair, IInv, TypeOK
<1>3. CASE StartNewTarget(p)
  <2>1. loc[p].target \in Years
    BY <1>3 DEF StartNewTarget, IInv, LocOK, Fits, StartLabels
  <2>2. status' = status \/ status' = [status EXCEPT ![loc[p].target] = "BUILD_STAGE"]
    BY <1>3 DEF StartNewTarget
  <2>3. /\ status' \in [Years -> Statuses]
        /\ \A y \in Years : status[y] \in Live => status'[y] \in Live
    BY <2>1, <2>2 DEF IInv, TypeOK, Statuses, Live
  <2> QED
    BY <1>3, <2>3, StatusStep DEF StartNewTarget, IInv
<1>4. ASSUME NEW r \in RunIds, StartInsert(p, r)
      PROVE  TypeOK'
  <2> DEFINE rn == [source |-> loc[p].source, target |-> loc[p].target, phase |-> "DRAFT",
                    carry |-> loc[p].carry, snapshot |-> "none"]
  <2>1. loc[p] \in [source : Years, target : Years, carry : Carry]
    BY <1>4 DEF StartInsert, IInv, LocOK, Fits, StartLabels
  <2>2. rn \in Run
    BY <2>1 DEF Run, Phases
  <2>3. runs' = [runs EXCEPT ![r] = rn]
    BY <1>4 DEF StartInsert
  <2>4. runs' \in [RunIds -> Run \cup {NoRun}]
    BY <2>2, <2>3 DEF IInv, TypeOK
  <2>5. ASSUME NEW q \in RunIds, Exists(q)'
        PROVE  status'[runs'[q].source] \in Live /\ status'[runs'[q].target] \in Live
    <3>1. CASE q = r
      BY <1>4, <2>3, <3>1 DEF StartInsert, IInv, TypeOK
    <3>2. CASE q # r
      BY <1>4, <2>3, <2>5, <3>2 DEF StartInsert, IInv, TypeOK, References, Exists
    <3> QED
      BY <3>1, <3>2
  <2> QED
    BY <1>4, <2>4, <2>5 DEF StartInsert, IInv, TypeOK, References
<1> QED
  BY <1>1, <1>2, <1>3, <1>4 DEF Start

\* The userId of a promoted student leaves the source row with the same step.
LEMMA CarriedLogin ==
    ASSUME OneLogin, RowsT, NEW source \in Years, NEW target \in Years, NEW carry \in Carry,
           source # target, row' = CarriedRows(source, target, carry)
    PROVE  OneLogin'
<1>1. CASE ~carry["students"]
  <2>1. ASSUME NEW y \in Years, NEW s \in Students, HasLogin(y, s)'
        PROVE  HasLogin(y, s)
    <3>1. /\ y = target => row'[y][s] = NoRow
          /\ y # target => row'[y][s] = row[y][s]
      BY <1>1, CarriedTyped
    <3> QED
      BY <2>1, <3>1 DEF HasLogin
  <2> QED
    BY <2>1 DEF OneLogin
<1>2. CASE carry["students"]
  <2>1. ASSUME NEW s \in Students, HasLogin(target, s)'
        PROVE  HasLogin(source, s) /\ ~HasLogin(source, s)'
    <3>1. row'[target][s] = MovedUp(source, s) /\ row'[source][s] = LeftBehind(source, s)
      BY <1>2, CarriedTyped
    <3>2. Promotable(source, s) /\ row[source][s].user
      BY <2>1, <3>1, MovedUpTyped DEF HasLogin
    <3>3. ~LeftBehind(source, s).user
      BY <3>2, LeftBehindTyped
    <3> QED
      BY <3>1, <3>2, <3>3 DEF HasLogin, Promotable
  <2>2. ASSUME NEW y \in Years, NEW s \in Students, y # target, HasLogin(y, s)'
        PROVE  HasLogin(y, s)
    <3>1. CASE y = source
      <4>1. row'[source][s] = LeftBehind(source, s)
        BY <1>2, CarriedTyped
      <4>2. ~Promotable(source, s)
        BY <2>2, <3>1, <4>1, LeftBehindTyped DEF HasLogin
      <4> QED
        BY <2>2, <3>1, <4>1, <4>2 DEF HasLogin, LeftBehind
    <3>2. CASE y # source
      BY <2>2, <3>2, CarriedTyped DEF HasLogin
    <3> QED
      BY <3>1, <3>2
  <2>3. ASSUME NEW s \in Students, NEW y \in Years, NEW z \in Years,
               HasLogin(y, s)', HasLogin(z, s)'
        PROVE  y = z
    <3>1. CASE y # target /\ z # target
      BY <2>2, <2>3, <3>1 DEF OneLogin
    <3>2. CASE y = target /\ z # target
      BY <2>1, <2>2, <2>3, <3>2 DEF OneLogin
    <3>3. CASE y # target /\ z = target
      BY <2>1, <2>2, <2>3, <3>3 DEF OneLogin
    <3> QED
      BY <3>1, <3>2, <3>3
  <2> QED
    BY <2>3 DEF OneLogin
<1> QED
  BY <1>1, <1>2

LEMMA ApplyStep ==
    ASSUME IInv, NEW p \in Requests, Apply(p)
    PROVE  TypeOK' /\ OneLogin'
<1> DEFINE r == loc[p].run
           source == runs[r].source
           target == runs[r].target
           carry == loc[p].read.carry
<1>1. r \in RunIds /\ loc[p].read \in Run
  BY DEF Apply, IInv, LocOK, Fits, RunLabels
<1>2. runs[r] \in Run /\ Exists(r)
  BY <1>1 DEF Apply, LockedIn, Exists, IInv, TypeOK
<1>3. source \in Years /\ target \in Years /\ carry \in Carry /\ source # target
  BY <1>1, <1>2 DEF Apply, Run
<1>4. status[source] \in Live /\ status[target] \in Live
  BY <1>1, <1>2 DEF IInv, TypeOK, References
<1>5. row' = CarriedRows(source, target, carry) /\ RowsT
  BY DEF Apply, IInv, TypeOK, RowsT
<1>6. runs' = [runs EXCEPT ![r] = [runs[r] EXCEPT !.phase = "APPLIED"]]
  BY <1>1, <1>2 DEF Apply, IInv, TypeOK
<1>7. groups' = [groups EXCEPT ![target] = IF carry["classes"] THEN groups[source] ELSE {}]
  BY DEF Apply
<1>8. UNCHANGED status
  BY DEF Apply
<1> HIDE DEF r, source, target, carry
<1>9. [runs[r] EXCEPT !.phase = "APPLIED"] \in Run
  BY <1>2, InPhaseTyped DEF Phases
<1>10. TypeOK'
  <2>1. runs' \in [RunIds -> Run \cup {NoRun}]
    BY <1>1, <1>6, <1>9 DEF IInv, TypeOK
  <2>2. groups' \in [Years -> SUBSET (Nat \ {NoClass})]
    BY <1>3, <1>7 DEF IInv, TypeOK
  <2>3. row' \in [Years -> [Students -> Row \cup {NoRow}]]
    BY <1>3, <1>5, CarriedTyped
  <2>4. ASSUME NEW q \in RunIds, Exists(q)'
        PROVE  status'[runs'[q].source] \in Live /\ status'[runs'[q].target] \in Live
    <3>1. CASE q = r
      BY <1>1, <1>2, <1>6, <1>8, <3>1 DEF IInv, TypeOK, References, Run
    <3>2. CASE q # r
      BY <1>1, <1>6, <1>8, <2>4, <3>2 DEF IInv, TypeOK, References, Exists
    <3> QED
      BY <3>1, <3>2
  <2>5. ASSUME NEW y \in Years, NEW s \in Students, row'[y][s] # NoRow
        PROVE  status'[y] \in Live
    <3>1. CASE y = target
      BY <1>4, <1>8, <3>1
    <3>2. CASE y # target
      BY <1>3, <1>5, <1>8, <2>5, <3>2, CarriedTyped DEF IInv, TypeOK, References
    <3> QED
      BY <3>1, <3>2
  <2> QED
    BY <1>8, <2>1, <2>2, <2>3, <2>4, <2>5 DEF IInv, TypeOK, References
<1>11. OneLogin'
  BY <1>3, <1>5, CarriedLogin DEF IInv
<1> QED
  BY <1>10, <1>11

LEMMA WizardStep ==
    ASSUME IInv, NEW p \in Requests, Wizard(p)
    PROVE  TypeOK'
<1> DEFINE r == loc[p].run
<1>1. CASE \/ \E q \in RunIds, partial \in Partial : CarryRead(p, q, partial)
           \/ \E q \in RunIds, h \in {"snapshot", "apply", "promote"} : StepRead(p, h, q)
  BY <1>1, StatusStep DEF CarryRead, StepRead, IInv, TypeOK
<1>2. pc[p] \in RunLabels => /\ r \in RunIds
                             /\ loc[p].read \in Run
                             /\ Exists(r) => runs[r] \in Run
  BY DEF IInv, LocOK, Fits, TypeOK, Exists
<1>3. CASE CarryWrite(p)
  <2>1. [runs[r] EXCEPT !.carry = loc[p].read.carry] \in Run
    BY <1>2, <1>3 DEF CarryWrite, RunLabels, Run
  <2>2. runs' = [runs EXCEPT ![r] = [runs[r] EXCEPT !.carry = loc[p].read.carry]]
    BY <1>2, <1>3 DEF CarryWrite, RunLabels, IInv, TypeOK
  <2> QED
    BY <1>2, <1>3, <2>1, <2>2, RunStep DEF CarryWrite, RunLabels, IInv, TypeOK, Run
<1>4. CASE Snapshot(p)
  <2> DEFINE rn == [runs[r] EXCEPT !.phase = "SNAPSHOT_DONE", !.snapshot = "IN_PROGRESS"]
  <2>1. rn \in Run /\ rn.source = runs[r].source /\ rn.target = runs[r].target
    BY <1>2, <1>4 DEF Snapshot, LockedIn, RunLabels, Run, Phases
  <2>2. runs' = [runs EXCEPT ![r] = rn]
    BY <1>2, <1>4 DEF Snapshot, LockedIn, RunLabels, IInv, TypeOK
  <2> QED
    BY <1>2, <1>4, <2>1, <2>2, RunStep DEF Snapshot, LockedIn, RunLabels, IInv, TypeOK
<1>5. CASE Promote(p)
  <2> DEFINE sn == IF loc[p].read.snapshot = "none" THEN runs[r].snapshot ELSE "COMPLETED"
             rn == [runs[r] EXCEPT !.phase = "PUBLISHED", !.snapshot = sn]
  <2>1. r \in RunIds /\ runs[r] \in Run /\ Exists(r)
    BY <1>2, <1>5 DEF Promote, LockedIn, RunLabels
  <2>2. rn \in Run /\ rn.source = runs[r].source /\ rn.target = runs[r].target
    BY <2>1 DEF Run, Phases
  <2>3. runs' = [runs EXCEPT ![r] = rn]
    BY <1>5, <2>1 DEF Promote, IInv, TypeOK
  <2>4. status' = [status EXCEPT ![runs[r].source] = "ARCHIVED", ![runs[r].target] = "ACTIVE"]
    BY <1>5 DEF Promote
  <2>5. /\ status' \in [Years -> Statuses]
        /\ \A y \in Years : status[y] \in Live => status'[y] \in Live
    BY <2>1, <2>4 DEF Run, IInv, TypeOK, Statuses, Live
  <2>6. UNCHANGED <<groups, row>>
    BY <1>5 DEF Promote
  <2> QED
    BY <2>1, <2>2, <2>3, <2>5, <2>6, RunStep DEF IInv
<1> QED
  BY <1>1, <1>3, <1>4, <1>5, ApplyStep DEF Wizard

\* The year handlers bring a year to life or change the status of a live one.
LEMMA YearKeepsTypes ==
    ASSUME IInv, NEW p \in Requests, YearStep(p), UNCHANGED promotion
    PROVE  TypeOK'
<1>1. CASE CreateWrite(p)
  <2>1. loc[p].year \in Years
    BY <1>1 DEF CreateWrite, IInv, LocOK, Fits, YearLabels
  <2>2. /\ status' \in [Years -> Statuses]
        /\ \A y \in Years : status[y] \in Live => status'[y] \in Live
    BY <1>1, <2>1 DEF CreateWrite, IInv, TypeOK, Statuses, Live
  <2> QED
    BY <2>2, StatusStep DEF IInv
<1>2. CASE ChangeWrite(p)
  <2>1. loc[p].year \in Years /\ To(loc[p].change) \in Live
    BY <1>2 DEF ChangeWrite, IInv, LocOK, Fits, ChangeLabels, To, Live
  <2>2. /\ status' \in [Years -> Statuses]
        /\ \A y \in Years : status[y] \in Live => status'[y] \in Live
    BY <1>2, <2>1 DEF ChangeWrite, IInv, TypeOK, Statuses
  <2> QED
    BY <2>2, StatusStep DEF IInv
<1>3. CASE UNCHANGED status
  BY <1>3, StatusStep DEF IInv, TypeOK
<1> QED
  BY <1>1, <1>2, <1>3 DEF YearStep, CreateRead, ChangeRead, DeleteRead, ChangeCheck, Drop

-----------------------------------------------------------------------------
(* The theorems.                                                           *)

\* Other steps link no row to an account.
LEMMA LoginStep ==
    ASSUME IInv, [Next]_vars
    PROVE  OneLogin'
<1>1. CASE UNCHANGED row
  BY <1>1 DEF IInv, OneLogin, HasLogin
<1>2. ASSUME NEW p \in Requests, DeleteCascades(p)
      PROVE  OneLogin'
  <2>1. ASSUME NEW y \in Years, NEW s \in Students, HasLogin(y, s)'
        PROVE  HasLogin(y, s)
    BY <1>2, <2>1 DEF DeleteCascades, IInv, TypeOK, HasLogin
  <2> QED
    BY <2>1 DEF IInv, OneLogin
<1>3. ASSUME NEW p \in Requests, Apply(p)
      PROVE  OneLogin'
  BY <1>3, ApplyStep
<1> QED
  BY <1>1, <1>2, <1>3 DEF Next, vars, promotion, Start, StartRead, StartTarget, StartNewTarget,
     StartPair, StartInsert, Wizard, CarryRead, StepRead, CarryWrite, Snapshot, Promote

LEMMA IInvStep == IInv /\ [Next]_vars => IInv'
<1> SUFFICES ASSUME IInv, [Next]_vars PROVE IInv'
  OBVIOUS
<1>1. TypeOK'
  <2>1. CASE UNCHANGED vars
    BY <2>1, StatusStep DEF vars, yearVars, IInv, TypeOK
  <2> QED
    BY <2>1, YearKeepsTypes, DeleteStep, StartStep, WizardStep DEF Next
<1>2. LocOK'
  BY LocStep DEF IInv
<1>3. OneLogin'
  BY LoginStep
<1> QED
  BY <1>1, <1>2, <1>3 DEF IInv

\* The tables are well formed, and runs and rows refer to years that exist.
THEOREM PromotionTypes == Spec => []TypeOK
<1>1. IInv => TypeOK
  BY DEF IInv
<1> QED
  BY <1>1, InitIInv, IInvStep, PTL DEF Spec

\* A user account is linked to one students row, whatever runs at the same time.
THEOREM LoginNeverTwice == Spec => []OneLogin
<1>1. IInv => OneLogin
  BY DEF IInv
<1> QED
  BY <1>1, InitIInv, IInvStep, PTL DEF Spec

LEMMA ForwardStep ==
    ASSUME IInv, [Next]_vars, NEW r \in RunIds
    PROVE  RunForward(r)
<1> SUFFICES ASSUME Exists(r) PROVE RunForward(r)
  BY DEF RunForward
<1>1. runs[r] \in Run /\ runs \in [RunIds -> Run \cup {NoRun}]
  BY DEF IInv, TypeOK, Exists
<1>2. CASE runs'[r] = runs[r]
  BY <1>2 DEF RunForward
<1>3. ASSUME NEW p \in Requests, DeleteCascades(p)
      PROVE  RunForward(r)
  <2>1. runs'[r] = [runs[r] EXCEPT !.phase = "deleted"] \/ runs'[r] = runs[r]
    BY <1>3 DEF DeleteCascades
  <2> QED
    BY <1>1, <2>1 DEF RunForward, Run
<1>4. ASSUME NEW p \in Requests, NEW q \in RunIds, StartInsert(p, q)
      PROVE  RunForward(r)
  <2>1. q # r
    BY <1>4 DEF StartInsert, Exists
  <2> QED
    BY <1>1, <1>2, <1>4, <2>1 DEF StartInsert
<1>5. ASSUME NEW p \in Requests, CarryWrite(p) \/ Snapshot(p) \/ Apply(p) \/ Promote(p), loc[p].run # r
      PROVE  RunForward(r)
  <2>1. runs'[r] = runs[r]
    BY <1>1, <1>5 DEF CarryWrite, Snapshot, Apply, Promote
  <2> QED
    BY <1>2, <2>1
<1>6. ASSUME NEW p \in Requests, loc[p].run = r
      PROVE  /\ CarryWrite(p) => RunForward(r)
             /\ Snapshot(p) => RunForward(r)
             /\ Apply(p) => RunForward(r)
             /\ Promote(p) => RunForward(r)
  <2>1. CASE CarryWrite(p)
    <3>1. runs'[r] = [runs[r] EXCEPT !.carry = loc[p].read.carry]
      BY <1>1, <1>6, <2>1 DEF CarryWrite
    <3> QED
      BY <1>1, <2>1, <3>1 DEF RunForward, Run
  <2>2. CASE Snapshot(p)
    <3>1. /\ runs'[r] = [runs[r] EXCEPT !.phase = "SNAPSHOT_DONE", !.snapshot = "IN_PROGRESS"]
          /\ runs[r].phase = "DRAFT"
      BY <1>1, <1>6, <2>2 DEF Snapshot, LockedIn
    <3> QED
      BY <1>1, <3>1 DEF RunForward, Run
  <2>3. CASE Apply(p)
    <3>1. runs'[r] = [runs[r] EXCEPT !.phase = "APPLIED"] /\ runs[r].phase = "SNAPSHOT_DONE"
      BY <1>1, <1>6, <2>3 DEF Apply, LockedIn
    <3> QED
      BY <1>1, <3>1 DEF RunForward, Run
  <2>4. CASE Promote(p)
    <3> DEFINE sn == IF loc[p].read.snapshot = "none" THEN runs[r].snapshot ELSE "COMPLETED"
    <3>1. /\ runs'[r] = [runs[r] EXCEPT !.phase = "PUBLISHED", !.snapshot = sn]
          /\ runs[r].phase = "APPLIED"
      BY <1>1, <1>6, <2>4 DEF Promote, LockedIn
    <3> QED
      BY <1>1, <3>1 DEF RunForward, Run
  <2> QED
    BY <2>1, <2>2, <2>3, <2>4
<1>7. UNCHANGED runs => RunForward(r)
  BY <1>2
<1> QED
  BY <1>3, <1>4, <1>5, <1>6, <1>7 DEF Next, vars, promotion, Start, StartRead, StartTarget,
     StartNewTarget, StartPair, Wizard, CarryRead, StepRead

\* Under any interleaving a run passes its phases one by one: it is applied once
\* and published once.
THEOREM PhasesOneByOne == Spec => PhasesForward
<1>1. IInv /\ [Next]_vars => [\A r \in RunIds : RunForward(r)]_vars
  BY ForwardStep
<1> QED
  BY <1>1, InitIInv, IInvStep, PTL DEF Spec, PhasesForward
-----------------------------------------------------------------------------
(* Who runs: a request is at a label only by a handler of its scene.         *)

CalledAt(p, label, l) ==
    /\ label # "idle" => p \in scene.staff
    /\ label \in StartLabels => "start" \in scene.handlers
    /\ label \in RunLabels \cup {"delete"} => label \in scene.handlers
    /\ label = "create" => {"create", "import"} \cap scene.handlers # {}
    /\ label \in ChangeLabels => l.change \in scene.handlers
Called == \A p \in Requests : CalledAt(p, pc[p], loc[p])

LEMMA GotoCalled ==
    ASSUME LocOK, Called, NEW p \in Requests, NEW label, NEW l, CalledAt(p, label, l), Goto(p, label, l)
    PROVE  Called'
<1>1. scene' = scene /\ pc' = [pc EXCEPT ![p] = label] /\ loc' = [loc EXCEPT ![p] = l]
  BY DEF Goto
<1>2. ASSUME NEW q \in Requests PROVE CalledAt(q, pc[q], loc[q])'
  <2>1. CASE q = p
    <3>1. pc'[q] = label /\ loc'[q] = l
      BY <1>1, <2>1 DEF LocOK
    <3> QED
      BY <1>1, <2>1, <3>1 DEF CalledAt
  <2>2. CASE q # p
    <3>1. pc'[q] = pc[q] /\ loc'[q] = loc[q]
      BY <1>1, <2>2 DEF LocOK
    <3>2. CalledAt(q, pc[q], loc[q])
      BY DEF Called
    <3> QED
      BY <1>1, <3>1, <3>2 DEF CalledAt
  <2> QED
    BY <2>1, <2>2
<1> QED
  BY <1>2 DEF Called

LEMMA FinishCalled ==
    ASSUME LocOK, Called, NEW p \in Requests, Finish(p)
    PROVE  Called'
<1>1. CalledAt(p, "idle", NoCall)
  BY DEF CalledAt, YearLabels, ChangeLabels, StartLabels, RunLabels
<1> QED
  BY <1>1, GotoCalled DEF Finish

LEMMA CalledStep ==
    ASSUME LocOK, Called, [Next]_vars
    PROVE  Called' /\ scene' = scene
<1>1. CASE UNCHANGED vars
  BY <1>1 DEF vars, yearVars, Called, CalledAt
<1>2. ASSUME NEW p \in Requests, YearStep(p) \/ DeleteCascades(p)
      PROVE  Called' /\ scene' = scene
  <2>1. ASSUME NEW y \in Years, NEW h \in {"create", "import"}, CreateRead(p, h, y)
        PROVE  Called' /\ scene' = scene
    <3>1. CalledAt(p, "create", [year |-> y])
      BY <2>1 DEF CreateRead, Begin, CalledAt, YearLabels, ChangeLabels, StartLabels, RunLabels
    <3> QED
      BY <2>1, <3>1, GotoCalled DEF CreateRead, Goto
  <2>2. ASSUME NEW y \in Years, NEW h \in Changes, ChangeRead(p, h, y)
        PROVE  Called' /\ scene' = scene
    <3>1. CalledAt(p, "check", [change |-> h, year |-> y])
      BY <2>2 DEF ChangeRead, Begin, CalledAt, YearLabels, ChangeLabels, StartLabels, RunLabels
    <3> QED
      BY <2>2, <3>1, GotoCalled DEF ChangeRead, Goto
  <2>3. ASSUME NEW y \in Years, DeleteRead(p, y)
        PROVE  Called' /\ scene' = scene
    <3>1. CalledAt(p, "delete", [year |-> y])
      BY <2>3 DEF DeleteRead, Begin, CalledAt, YearLabels, ChangeLabels, StartLabels, RunLabels
    <3> QED
      BY <2>3, <3>1, GotoCalled DEF DeleteRead, Goto
  <2>4. CASE ChangeCheck(p)
    <3>1. CalledAt(p, "write", loc[p])
      BY <2>4 DEF ChangeCheck, Called, CalledAt, ChangeLabels, StartLabels, RunLabels
    <3> QED
      BY <2>4, <3>1, GotoCalled, FinishCalled DEF ChangeCheck, Finish, Goto
  <2>5. CASE CreateWrite(p) \/ ChangeWrite(p) \/ Drop(p) \/ DeleteCascades(p)
    BY <2>5, FinishCalled DEF CreateWrite, ChangeWrite, Drop, DeleteCascades, DeleteWrite, Finish, Goto
  <2> QED
    BY <1>2, <2>1, <2>2, <2>3, <2>4, <2>5 DEF YearStep
<1>3. ASSUME NEW p \in Requests, Start(p)
      PROVE  Called' /\ scene' = scene
  <2>1. ASSUME NEW source \in Years, NEW target \in Years, NEW new \in BOOLEAN,
               NEW partial \in Partial, StartRead(p, source, target, new, partial)
        PROVE  Called' /\ scene' = scene
    <3> DEFINE l == [source |-> source, target |-> target, carry |-> Merged(DefaultCarry, partial)]
    <3>1. CalledAt(p, "target", l) /\ CalledAt(p, "newTarget", l)
      BY <2>1 DEF StartRead, Begin, CalledAt, YearLabels, ChangeLabels, StartLabels, RunLabels
    <3>2. Goto(p, "target", l) \/ Goto(p, "newTarget", l)
      BY <2>1 DEF StartRead
    <3> QED
      BY <3>1, <3>2, GotoCalled DEF Goto
  <2>2. pc[p] \in {"target", "newTarget", "pair"} => CalledAt(p, "pair", loc[p]) /\ CalledAt(p, "insert", loc[p])
    BY DEF Called, CalledAt, YearLabels, ChangeLabels, StartLabels, RunLabels
  <2>3. CASE StartTarget(p)
    BY <2>2, <2>3, GotoCalled, FinishCalled DEF StartTarget, Finish, Goto
  <2>4. CASE StartNewTarget(p)
    BY <2>2, <2>4, GotoCalled, FinishCalled DEF StartNewTarget, Finish, Goto
  <2>5. CASE StartPair(p)
    BY <2>2, <2>5, GotoCalled, FinishCalled DEF StartPair, Finish, Goto
  <2>6. CASE \E r \in RunIds : StartInsert(p, r)
    BY <2>6, FinishCalled DEF StartInsert, Finish, Goto
  <2> QED
    BY <1>3, <2>1, <2>3, <2>4, <2>5, <2>6 DEF Start
<1>4. ASSUME NEW p \in Requests, Wizard(p)
      PROVE  Called' /\ scene' = scene
  <2>1. ASSUME NEW r \in RunIds, NEW partial \in Partial, CarryRead(p, r, partial)
        PROVE  Called' /\ scene' = scene
    <3> DEFINE l == [run |-> r, read |-> [runs[r] EXCEPT !.carry = Merged(@, partial)]]
    <3>1. CalledAt(p, "carry", l)
      BY <2>1 DEF CarryRead, Begin, CalledAt, YearLabels, ChangeLabels, StartLabels, RunLabels
    <3>2. Goto(p, "carry", l)
      BY <2>1 DEF CarryRead
    <3> QED
      BY <3>1, <3>2, GotoCalled DEF Goto
  <2>2. ASSUME NEW r \in RunIds, NEW h \in {"snapshot", "apply", "promote"}, StepRead(p, h, r)
        PROVE  Called' /\ scene' = scene
    <3>1. CalledAt(p, h, [run |-> r, read |-> runs[r]])
      BY <2>2 DEF StepRead, Begin, CalledAt, YearLabels, ChangeLabels, StartLabels, RunLabels
    <3> QED
      BY <2>2, <3>1, GotoCalled DEF StepRead, Goto
  <2>3. CASE CarryWrite(p) \/ Snapshot(p) \/ Apply(p) \/ Promote(p)
    BY <2>3, FinishCalled DEF CarryWrite, Snapshot, Apply, Promote, Finish, Goto
  <2> QED
    BY <1>4, <2>1, <2>2, <2>3 DEF Wizard
<1> QED
  BY <1>1, <1>2, <1>3, <1>4 DEF Next

LEMMA InitCalled == Init => Called
BY DEF Init, YearsInit, Called, CalledAt, YearLabels, ChangeLabels, StartLabels, RunLabels
-----------------------------------------------------------------------------
(* One year of each kind, when requests come one at a time.                  *)

Settled ==
    /\ Alone /\ scene.handlers \cap {"import", "resume", "start", "promote"} = {}
    /\ OneUnderConstruction(scene.status)

\* What a request has read of the years is still so when it writes, in statuses st.
FreshIn(st, label, l) ==
    /\ label = "create" => \A z \in Years : st[z] # "BUILD_STAGE"
    /\ label \in ChangeLabels => st[l.year] \in From(l.change)
    /\ label = "write" /\ l.change = "publish" => \A z \in Years \ {l.year} : st[z] # "ACTIVE"
    /\ label = "write" /\ l.change = "restoreBuild" => \A z \in Years \ {l.year} : st[z] # "BUILD_STAGE"
Fresh == \A p \in Requests : FreshIn(status, pc[p], loc[p])

YearsKept == OneActivePerBranch /\ OneUnderConstruction(status) /\ Fresh

\* In a scene of one request the others are idle.
LEMMA OthersIdle ==
    ASSUME Called, Alone, NEW p \in Requests, p \in scene.staff, NEW q \in Requests, q # p
    PROVE  pc[q] = "idle"
BY DEF Called, CalledAt, Alone

LEMMA GotoFresh ==
    ASSUME LocOK, Called, Alone, NEW p \in Requests, p \in scene.staff, NEW label, NEW l,
           FreshIn(status', label, l), Goto(p, label, l)
    PROVE  Fresh'
<1>1. ASSUME NEW q \in Requests PROVE FreshIn(status', pc'[q], loc'[q])
  <2>1. CASE q = p
    BY <2>1 DEF LocOK, Goto
  <2>2. CASE q # p
    <3>1. pc'[q] = "idle"
      BY <2>2, OthersIdle DEF LocOK, Goto
    <3> QED
      BY <3>1 DEF FreshIn, ChangeLabels
  <2> QED
    BY <2>1, <2>2
<1> QED
  BY <1>1 DEF Fresh

LEMMA FinishFresh ==
    ASSUME LocOK, Called, Alone, NEW p \in Requests, p \in scene.staff, Finish(p)
    PROVE  Fresh'
<1>1. FreshIn(status', "idle", NoCall)
  BY DEF FreshIn, ChangeLabels
<1> QED
  BY <1>1, GotoFresh DEF Finish

\* A request that acts is one of the scene.
LEMMA ActorOnStaff ==
    ASSUME Called, NEW p \in Requests, YearStep(p) \/ DeleteCascades(p) \/ Start(p) \/ Wizard(p)
    PROVE  p \in scene.staff
<1>1. pc[p] # "idle" => p \in scene.staff
  BY DEF Called, CalledAt
<1>2. CASE YearStep(p) \/ DeleteCascades(p)
  BY <1>1, <1>2 DEF YearStep, DeleteCascades, DeleteWrite, CreateRead, CreateWrite, ChangeRead, ChangeCheck,
     ChangeWrite, DeleteRead, Drop, Begin
<1>3. CASE Start(p)
  BY <1>1, <1>3 DEF Start, StartRead, StartTarget, StartNewTarget, StartPair, StartInsert, Begin
<1>4. CASE Wizard(p)
  BY <1>1, <1>4 DEF Wizard, CarryRead, StepRead, CarryWrite, Snapshot, Apply, Promote, Begin
<1> QED
  BY <1>2, <1>3, <1>4

LEMMA YearsKeptStep ==
    ASSUME IInv, Called, Settled, YearsKept, [Next]_vars
    PROVE  YearsKept'
<1>0. LocOK /\ Alone /\ Fresh /\ status \in [Years -> Statuses]
  BY DEF IInv, TypeOK, Settled, YearsKept
<1>1. CASE UNCHANGED vars
  BY <1>1 DEF vars, yearVars, YearsKept, Fresh, OneActivePerBranch, OneUnderConstruction
<1>2. SUFFICES ASSUME NEW p \in Requests, YearStep(p) \/ DeleteCascades(p) \/ Start(p) \/ Wizard(p)
               PROVE  YearsKept'
  BY <1>1 DEF Next
<1>3. p \in scene.staff
  BY <1>2, ActorOnStaff
\* The status stays, and p goes on with what it has just read.
<1>4. ASSUME UNCHANGED status, Fresh' PROVE YearsKept'
  BY <1>4 DEF YearsKept, OneActivePerBranch, OneUnderConstruction
<1>5. ASSUME NEW y \in Years, NEW h \in {"create", "import"}, CreateRead(p, h, y)
      PROVE  YearsKept'
  <2>1. h = "create" /\ UNCHANGED status
    BY <1>5 DEF CreateRead, Begin, Settled
  <2>2. \A z \in Years : status[z] # "BUILD_STAGE"
    BY <1>5, <2>1 DEF CreateRead, Another
  <2>3. FreshIn(status', "create", [year |-> y])
    BY <2>1, <2>2 DEF FreshIn, ChangeLabels
  <2> QED
    BY <1>0, <1>3, <1>4, <1>5, <2>1, <2>3, GotoFresh DEF CreateRead
<1>6. ASSUME NEW y \in Years, NEW h \in Changes, ChangeRead(p, h, y)
      PROVE  YearsKept'
  <2>1. FreshIn(status', "check", [change |-> h, year |-> y])
    BY <1>6 DEF ChangeRead, FreshIn, ChangeLabels
  <2> QED
    BY <1>0, <1>3, <1>4, <1>6, <2>1, GotoFresh DEF ChangeRead
<1>7. CASE ChangeCheck(p)
  <2>1. CASE OthersAllow(loc[p].change, loc[p].year)
    <3>1. FreshIn(status, "check", loc[p])
      BY <1>0, <1>7 DEF Fresh, ChangeCheck
    <3>2. FreshIn(status', "write", loc[p])
      BY <1>7, <2>1, <3>1 DEF ChangeCheck, FreshIn, ChangeLabels, OthersAllow, Another
    <3> QED
      BY <1>0, <1>3, <1>4, <1>7, <2>1, <3>2, GotoFresh DEF ChangeCheck
  <2>2. CASE ~OthersAllow(loc[p].change, loc[p].year)
    BY <1>0, <1>3, <1>4, <1>7, <2>2, FinishFresh DEF ChangeCheck
  <2> QED
    BY <2>1, <2>2
<1>8. CASE ChangeWrite(p)
  <2> DEFINE h == loc[p].change
             y == loc[p].year
  <2>1. FreshIn(status, "write", loc[p]) /\ h \in Changes /\ y \in Years /\ h \in scene.handlers
    BY <1>0, <1>8 DEF Fresh, ChangeWrite, LocOK, Fits, ChangeLabels, Called, CalledAt
  <2>2. status[y] \in From(h) /\ h # "resume"
    BY <2>1 DEF FreshIn, ChangeLabels, Settled
  <2>3. status' = [status EXCEPT ![y] = IF @ \in Live THEN To(h) ELSE @] /\ Fresh'
    BY <1>0, <1>3, <1>8, FinishFresh DEF ChangeWrite
  <2>4. /\ h = "publish" => \A z \in Years \ {y} : status[z] # "ACTIVE"
        /\ h = "restoreBuild" => \A z \in Years \ {y} : status[z] # "BUILD_STAGE"
    BY <2>1 DEF FreshIn
  <2>5. To(h) = "ACTIVE" => h = "publish"
    BY <2>1, <2>2 DEF To, Changes
  <2>6. To(h) = "BUILD_STAGE" => h = "restoreBuild"
    BY <2>1 DEF To, Changes
  <2>7. status[y] \in Live
    BY <2>1, <2>2 DEF From, Changes, Live
  <2>8. status'[y] = To(h) /\ \A z \in Years \ {y} : status'[z] = status[z]
    BY <1>0, <2>1, <2>3, <2>7
  <2> HIDE DEF h, y
  <2> QED
    BY <2>1, <2>3, <2>4, <2>5, <2>6, <2>8 DEF YearsKept, OneActivePerBranch, OneUnderConstruction
<1>9. CASE CreateWrite(p)
  <2>1. FreshIn(status, "create", loc[p]) /\ loc[p].year \in Years
    BY <1>0, <1>9 DEF Fresh, CreateWrite, LocOK, Fits, YearLabels
  <2>2. \A z \in Years : status[z] # "BUILD_STAGE"
    BY <2>1 DEF FreshIn
  <2>3. Fresh' /\ \A z \in Years : z # loc[p].year => status'[z] = status[z]
    BY <1>0, <1>3, <1>9, FinishFresh DEF CreateWrite
  <2>4. status'[loc[p].year] \in {"BUILD_STAGE", status[loc[p].year]}
    BY <1>0, <1>9, <2>1 DEF CreateWrite
  <2> QED
    BY <2>1, <2>2, <2>3, <2>4 DEF YearsKept, OneActivePerBranch, OneUnderConstruction
<1>10. ASSUME NEW y \in Years, DeleteRead(p, y) PROVE YearsKept'
  <2>1. FreshIn(status', "delete", [year |-> y])
    BY DEF FreshIn, ChangeLabels
  <2> QED
    BY <1>0, <1>3, <1>4, <1>10, <2>1, GotoFresh DEF DeleteRead
<1>11. CASE DeleteCascades(p)
  <2>1. loc[p].year \in Years
    BY <1>0, <1>11 DEF DeleteCascades, DeleteWrite, LocOK, Fits, YearLabels
  <2>2. Fresh' /\ status' = [status EXCEPT ![loc[p].year] = "deleted"]
    BY <1>0, <1>3, <1>11, FinishFresh DEF DeleteCascades, DeleteWrite
  <2> QED
    BY <1>0, <2>1, <2>2 DEF YearsKept, OneActivePerBranch, OneUnderConstruction
<1>12. CASE Drop(p)
  BY <1>0, <1>3, <1>4, <1>12, FinishFresh DEF Drop
<1>13. CASE Start(p)
  <2>1. pc[p] \notin StartLabels
    BY DEF Called, CalledAt, Settled
  <2> QED
    BY <1>13, <2>1 DEF Start, StartRead, StartTarget, StartNewTarget, StartPair, StartInsert, StartLabels, Begin, Settled
<1>14. CASE Wizard(p)
  <2>1. pc[p] # "promote"
    BY DEF Called, CalledAt, RunLabels, Settled
  <2>2. ASSUME NEW r \in RunIds, NEW partial \in Partial, CarryRead(p, r, partial) PROVE YearsKept'
    <3> DEFINE l == [run |-> r, read |-> [runs[r] EXCEPT !.carry = Merged(@, partial)]]
    <3>1. FreshIn(status', "carry", l)
      BY DEF FreshIn, ChangeLabels
    <3>2. Goto(p, "carry", l) /\ UNCHANGED status
      BY <2>2 DEF CarryRead
    <3> HIDE DEF l
    <3> QED
      BY <1>0, <1>3, <1>4, <3>1, <3>2, GotoFresh
  <2>3. ASSUME NEW r \in RunIds, NEW h \in {"snapshot", "apply", "promote"}, StepRead(p, h, r) PROVE YearsKept'
    <3>1. FreshIn(status', h, [run |-> r, read |-> runs[r]])
      BY DEF FreshIn, ChangeLabels
    <3> QED
      BY <1>0, <1>3, <1>4, <2>3, <3>1, GotoFresh DEF StepRead
  <2>4. CASE CarryWrite(p) \/ Snapshot(p) \/ Apply(p)
    BY <1>0, <1>3, <1>4, <2>4, FinishFresh DEF CarryWrite, Snapshot, Apply
  <2> QED
    BY <1>14, <2>1, <2>2, <2>3, <2>4 DEF Wizard, Promote
<1> QED
  BY <1>2, <1>5, <1>6, <1>7, <1>8, <1>9, <1>10, <1>11, <1>12, <1>13, <1>14 DEF YearStep
-----------------------------------------------------------------------------
(* The wizard alone: the rows of its students.                               *)

\* A run that is under way goes from the active year to one under construction;
\* a published one has left its years behind.
RunsKept ==
    \A r \in RunIds : runs[r] # NoRun =>
      /\ runs[r].phase \in InProgress =>
           status[runs[r].source] = "ACTIVE" /\ status[runs[r].target] = "BUILD_STAGE"
      /\ runs[r].phase \notin InProgress =>
           /\ runs[r].phase = "PUBLISHED" /\ status[runs[r].source] = "ARCHIVED"
           /\ status[runs[r].target] \in {"ACTIVE", "ARCHIVED"}

\* No year is promoted twice.
SourcesDiffer ==
    \A q, r \in RunIds : runs[q] # NoRun /\ runs[r] # NoRun /\ runs[q].source = runs[r].source => q = r

\* A year under construction has students only from the run that was applied to it.
NewYearEmpty ==
    \A y \in Years, s \in Students : status[y] = "BUILD_STAGE" /\ row[y][s] # NoRow =>
      \E r \in RunIds : runs[r] # NoRun /\ runs[r].phase = "APPLIED" /\ runs[r].target = y

OrdersKept == \A y \in Years : groups[y] \in {{}, scene.orders}

\* MovedUpOnce of one run and one student.
MovedSound(r, s) ==
    CarriedBy(r, s) =>
      /\ row[runs[r].source][s] # NoRow /\ ~row[runs[r].source][s].user
      /\ row[runs[r].target][s].class = row[runs[r].source][s].class + 1
      /\ row[runs[r].target][s].class \in groups[runs[r].target]
MovesSound == \A r \in RunIds, s \in Students : MovedSound(r, s)

\* NobodyLost of one student.
Kept(s) == \/ \E y \in Years : HasLogin(y, s) /\ row[y][s].active
           \/ \E y \in Years : row[y][s] # NoRow /\ ~row[y][s].active
LoginsKept ==
    NoGaps =>
      /\ \A y \in Years, s \in Students : row[y][s] # NoRow => row[y][s].class \in scene.orders
      /\ \A s \in Logins : Kept(s)

Tables == RunsKept /\ SourcesDiffer /\ OneActivePerBranch /\ NewYearEmpty
Rolls == OrdersKept /\ MovesSound /\ LoginsKept

\* What a request has read of its years and options is still so when it writes.
Started(st, busy, label, l) ==
    /\ label \in StartLabels => ~busy /\ st[l.source] = "ACTIVE"
    /\ label \in {"pair", "insert"} => st[l.target] = "BUILD_STAGE"
    /\ label = "apply" => ValidCarry(l.read.carry)
AllStarted == \A p \in Requests : Started(status, Busy, pc[p], loc[p])

Wizarding == Tables /\ Rolls /\ AllStarted

\* With two runs under way they would have one source.
LEMMA OneUnderWay ==
    ASSUME IInv, Tables, NEW q \in RunIds, NEW r \in RunIds, runs[q] # NoRun, runs[r] # NoRun,
           runs[q].phase \in InProgress, runs[r].phase \in InProgress
    PROVE  q = r
<1>1. runs[q] \in Run /\ runs[r] \in Run
  BY DEF IInv, TypeOK
<1>2. status[runs[q].source] = "ACTIVE" /\ status[runs[r].source] = "ACTIVE"
  BY DEF Tables, RunsKept
<1>3. runs[q].source = runs[r].source
  BY <1>1, <1>2 DEF Tables, OneActivePerBranch, Run
<1> QED
  BY <1>3 DEF Tables, SourcesDiffer

\* The target of a run that was not applied yet has no students.
LEMMA TargetEmpty ==
    ASSUME IInv, Tables, NEW r \in RunIds, runs[r] # NoRun, runs[r].phase = "SNAPSHOT_DONE", NEW s \in Students
    PROVE  row[runs[r].target][s] = NoRow
<1>1. runs[r] \in Run /\ runs[r].phase \in InProgress
  BY DEF IInv, TypeOK, InProgress
<1>2. status[runs[r].target] = "BUILD_STAGE" /\ runs[r].target \in Years
  BY <1>1 DEF Tables, RunsKept, Run
<1> SUFFICES ASSUME row[runs[r].target][s] # NoRow PROVE FALSE
  OBVIOUS
<1>3. PICK q \in RunIds : runs[q] # NoRun /\ runs[q].phase = "APPLIED"
  BY <1>2 DEF Tables, NewYearEmpty
<1>4. runs[q].phase \in InProgress
  BY <1>3 DEF InProgress
<1> QED
  BY <1>1, <1>3, <1>4, OneUnderWay
\* Rows and groups that stay are sound as long as no run is applied.
LEMMA SameRolls ==
    ASSUME Rolls, UNCHANGED <<row, groups, scene>>,
           \A r \in RunIds, s \in Students : CarriedBy(r, s)' =>
              CarriedBy(r, s) /\ runs'[r].source = runs[r].source /\ runs'[r].target = runs[r].target
    PROVE  Rolls'
<1>1. OrdersKept'
  BY DEF Rolls, OrdersKept
<1>2. LoginsKept'
  BY DEF Rolls, LoginsKept, NoGaps, Kept, HasLogin
<1>3. ASSUME NEW r \in RunIds, NEW s \in Students, CarriedBy(r, s)'
      PROVE  /\ row'[runs'[r].source][s] # NoRow /\ ~row'[runs'[r].source][s].user
             /\ row'[runs'[r].target][s].class = row'[runs'[r].source][s].class + 1
             /\ row'[runs'[r].target][s].class \in groups'[runs'[r].target]
  <2>1. CarriedBy(r, s) /\ runs'[r].source = runs[r].source /\ runs'[r].target = runs[r].target
    BY <1>3
  <2> QED
    BY <2>1 DEF Rolls, MovesSound, MovedSound
<1> QED
  BY <1>1, <1>2, <1>3 DEF Rolls, MovesSound, MovedSound

\* A step that changes no table.
LEMMA QuietStep ==
    ASSUME Tables, Rolls, UNCHANGED <<status, runs, groups, row, scene>>
    PROVE  Tables' /\ Rolls'
<1>1. Tables'
  BY DEF Tables, RunsKept, SourcesDiffer, OneActivePerBranch, NewYearEmpty
<1>2. Rolls'
  BY SameRolls DEF CarriedBy, Exists
<1> QED
  BY <1>1, <1>2

\* A year is created for a run.
LEMMA NewYearStep ==
    ASSUME IInv, Tables, Rolls, NEW y \in Years, status[y] = "none",
           status' = [status EXCEPT ![y] = "BUILD_STAGE"], UNCHANGED <<runs, groups, row, scene>>
    PROVE  Tables' /\ Rolls'
<1>1. /\ status \in [Years -> Statuses] /\ \A r \in RunIds : runs[r] # NoRun => runs[r] \in Run
      /\ \A s \in Students : row[y][s] = NoRow
  BY DEF IInv, TypeOK, References, Live
<1>2. /\ status'[y] = "BUILD_STAGE" /\ \A z \in Years : z # y => status'[z] = status[z]
  BY <1>1
<1>3. RunsKept'
  <2> SUFFICES ASSUME NEW r \in RunIds, runs[r] # NoRun
               PROVE  /\ status'[runs[r].source] = status[runs[r].source]
                      /\ status'[runs[r].target] = status[runs[r].target]
    BY DEF Tables, RunsKept
  <2>1. runs[r].source \in Years /\ runs[r].target \in Years
    BY <1>1 DEF Run
  <2>2. runs[r].source # y /\ runs[r].target # y
    BY DEF Tables, RunsKept
  <2> QED
    BY <1>2, <2>1, <2>2
<1>4. OneActivePerBranch'
  BY <1>2 DEF Tables, OneActivePerBranch
<1>5. NewYearEmpty'
  BY <1>1, <1>2 DEF Tables, NewYearEmpty
<1>6. SourcesDiffer'
  BY DEF Tables, SourcesDiffer
<1>7. Rolls'
  BY SameRolls DEF CarriedBy, Exists
<1> QED
  BY <1>3, <1>4, <1>5, <1>6, <1>7 DEF Tables

\* A run is drafted while none is under way.
LEMMA NewRunStep ==
    ASSUME IInv, Tables, Rolls, ~Busy, NEW r \in RunIds, NEW rn \in Run, runs[r] = NoRun,
           runs' = [runs EXCEPT ![r] = rn], rn.phase = "DRAFT",
           status[rn.source] = "ACTIVE", status[rn.target] = "BUILD_STAGE",
           UNCHANGED <<status, groups, row, scene>>
    PROVE  Tables' /\ Rolls'
<1>0. runs \in [RunIds -> Run \cup {NoRun}] /\ rn # NoRun
  BY ScenesAssumption DEF IInv, TypeOK
<1>1. runs'[r] = rn /\ \A q \in RunIds : q # r => runs'[q] = runs[q]
  BY <1>0
<1>2. RunsKept'
  BY <1>1 DEF Tables, RunsKept, InProgress
<1>3. \A q \in RunIds : runs[q] # NoRun => status[runs[q].source] = "ARCHIVED"
  BY DEF Tables, RunsKept, Busy
<1>4. SourcesDiffer'
  BY <1>1, <1>3 DEF Tables, SourcesDiffer
<1>5. OneActivePerBranch'
  BY DEF Tables, OneActivePerBranch
<1>6. NewYearEmpty'
  <2> SUFFICES ASSUME NEW y \in Years, NEW s \in Students, status[y] = "BUILD_STAGE", row[y][s] # NoRow
               PROVE  FALSE
    BY DEF NewYearEmpty
  <2> QED
    BY DEF Tables, NewYearEmpty, Busy, InProgress
<1>7. Rolls'
  <2>1. ASSUME NEW q \in RunIds, NEW s \in Students, CarriedBy(q, s)'
        PROVE  CarriedBy(q, s) /\ runs'[q] = runs[q]
    <3>1. q # r
      BY <1>1, <2>1 DEF CarriedBy
    <3> QED
      BY <1>1, <2>1, <3>1 DEF CarriedBy, Exists
  <2> QED
    BY <2>1, SameRolls
<1> QED
  BY <1>2, <1>4, <1>5, <1>6, <1>7 DEF Tables

\* The options of a run change, or its snapshot is taken.
LEMMA RunEdited ==
    ASSUME IInv, Tables, Rolls, NEW r \in RunIds, Exists(r), NEW rn \in Run,
           runs' = [runs EXCEPT ![r] = rn], rn.source = runs[r].source, rn.target = runs[r].target,
           rn.phase = runs[r].phase \/ (runs[r].phase = "DRAFT" /\ rn.phase = "SNAPSHOT_DONE"),
           UNCHANGED <<status, groups, row, scene>>
    PROVE  Tables' /\ Rolls'
<1>0. runs \in [RunIds -> Run \cup {NoRun}] /\ rn # NoRun /\ runs[r] # NoRun
  BY ScenesAssumption DEF IInv, TypeOK, Exists
<1>1. runs'[r] = rn /\ \A q \in RunIds : q # r => runs'[q] = runs[q]
  BY <1>0
<1>2. RunsKept'
  BY <1>0, <1>1 DEF Tables, RunsKept, InProgress
<1>3. SourcesDiffer'
  BY <1>0, <1>1 DEF Tables, SourcesDiffer
<1>4. OneActivePerBranch'
  BY DEF Tables, OneActivePerBranch
<1>5. NewYearEmpty'
  <2> SUFFICES ASSUME NEW y \in Years, NEW s \in Students, status[y] = "BUILD_STAGE", row[y][s] # NoRow
               PROVE  \E q \in RunIds : runs'[q] # NoRun /\ runs'[q].phase = "APPLIED" /\ runs'[q].target = y
    BY DEF NewYearEmpty
  <2>1. PICK q \in RunIds : runs[q] # NoRun /\ runs[q].phase = "APPLIED" /\ runs[q].target = y
    BY DEF Tables, NewYearEmpty
  <2> QED
    BY <1>0, <1>1, <2>1
<1>6. Rolls'
  <2>1. ASSUME NEW q \in RunIds, NEW s \in Students, CarriedBy(q, s)'
        PROVE  CarriedBy(q, s) /\ runs'[q].source = runs[q].source /\ runs'[q].target = runs[q].target
    <3>1. CASE q = r
      <4>1. runs[r].phase = rn.phase
        BY <1>1, <2>1, <3>1 DEF CarriedBy
      <4> QED
        BY <1>1, <2>1, <3>1, <4>1 DEF CarriedBy, Exists
    <3>2. CASE q # r
      BY <1>1, <2>1, <3>2 DEF CarriedBy, Exists
    <3> QED
      BY <3>1, <3>2
  <2> QED
    BY <2>1, SameRolls
<1> QED
  BY <1>2, <1>3, <1>4, <1>5, <1>6 DEF Tables
\* A run is published: its source is left behind, its target becomes the active year.
LEMMA PublishedStep ==
    ASSUME IInv, Tables, Rolls, NEW r \in RunIds, Exists(r), runs[r].phase = "APPLIED", NEW rn \in Run,
           runs' = [runs EXCEPT ![r] = rn], rn.source = runs[r].source, rn.target = runs[r].target,
           rn.phase = "PUBLISHED",
           status' = [status EXCEPT ![runs[r].source] = "ARCHIVED", ![runs[r].target] = "ACTIVE"],
           UNCHANGED <<groups, row, scene>>
    PROVE  Tables' /\ Rolls'
<1> DEFINE source == runs[r].source
           target == runs[r].target
<1>0. /\ runs \in [RunIds -> Run \cup {NoRun}] /\ rn # NoRun /\ runs[r] # NoRun /\ runs[r] \in Run
      /\ status \in [Years -> Statuses]
  BY ScenesAssumption DEF IInv, TypeOK, Exists
<1>1. runs'[r] = rn /\ \A q \in RunIds : q # r => runs'[q] = runs[q]
  BY <1>0
<1>2. source \in Years /\ target \in Years /\ status[source] = "ACTIVE" /\ status[target] = "BUILD_STAGE"
  BY <1>0 DEF Tables, RunsKept, InProgress, Run
<1>3. /\ status'[source] = "ARCHIVED" /\ status'[target] = "ACTIVE"
      /\ \A y \in Years : y # source /\ y # target => status'[y] = status[y]
  BY <1>0, <1>2
<1>4. \A q \in RunIds : runs[q] # NoRun /\ q # r => runs[q].phase \notin InProgress
  BY <1>0, OneUnderWay DEF InProgress
<1>5. \A q \in RunIds : runs[q] # NoRun => runs[q].source \in Years /\ runs[q].target \in Years
  BY DEF IInv, TypeOK, Run
<1> HIDE DEF source, target
<1>6. RunsKept'
  <2> SUFFICES ASSUME NEW q \in RunIds, runs'[q] # NoRun
               PROVE  /\ runs'[q].phase = "PUBLISHED" /\ status'[runs'[q].source] = "ARCHIVED"
                      /\ status'[runs'[q].target] \in {"ACTIVE", "ARCHIVED"}
    BY DEF RunsKept, InProgress
  <2>1. CASE q = r
    BY <1>1, <1>3, <2>1 DEF source, target
  <2>2. CASE q # r
    <3>1. /\ runs'[q] = runs[q] /\ runs[q].phase = "PUBLISHED" /\ status[runs[q].source] = "ARCHIVED"
          /\ status[runs[q].target] \in {"ACTIVE", "ARCHIVED"}
      BY <1>1, <1>4, <2>2 DEF Tables, RunsKept
    <3>2. status'[runs[q].source] = "ARCHIVED"
      BY <1>2, <1>3, <1>5, <2>2, <3>1
    <3>3. status'[runs[q].target] \in {"ACTIVE", "ARCHIVED"}
      BY <1>2, <1>3, <1>5, <2>2, <3>1
    <3> QED
      BY <3>1, <3>2, <3>3
  <2> QED
    BY <2>1, <2>2
<1>7. SourcesDiffer'
  BY <1>0, <1>1 DEF Tables, SourcesDiffer
<1>8. OneActivePerBranch'
  BY <1>2, <1>3 DEF Tables, OneActivePerBranch
<1>9. NewYearEmpty'
  <2> SUFFICES ASSUME NEW y \in Years, NEW s \in Students, status'[y] = "BUILD_STAGE", row[y][s] # NoRow
               PROVE  FALSE
    BY DEF NewYearEmpty
  <2>1. y # target /\ status[y] = "BUILD_STAGE"
    BY <1>2, <1>3
  <2>2. PICK q \in RunIds : runs[q] # NoRun /\ runs[q].phase = "APPLIED" /\ runs[q].target = y
    BY <2>1 DEF Tables, NewYearEmpty
  <2> QED
    BY <1>4, <2>1, <2>2 DEF InProgress, target
<1>10. Rolls'
  <2>1. ASSUME NEW q \in RunIds, NEW s \in Students, CarriedBy(q, s)'
        PROVE  CarriedBy(q, s) /\ runs'[q].source = runs[q].source /\ runs'[q].target = runs[q].target
    <3>1. CASE q = r
      BY <1>0, <1>1, <2>1, <3>1 DEF CarriedBy, Exists
    <3>2. CASE q # r
      BY <1>1, <2>1, <3>2 DEF CarriedBy, Exists
    <3> QED
      BY <3>1, <3>2
  <2> QED
    BY <2>1, SameRolls
<1> QED
  BY <1>6, <1>7, <1>8, <1>9, <1>10 DEF Tables

\* What the transaction of applyCarry does to the student s of the run's years.
LEMMA CarriedStudent ==
    ASSUME RowsT, GroupsT, NEW source \in Years, NEW target \in Years, NEW carry \in Carry,
           source # target, row' = CarriedRows(source, target, carry), NEW s \in Students,
           row[target][s] = NoRow
    PROVE  /\ row[source][s] # NoRow =>
                row'[source][s] # NoRow /\ row'[source][s].class = row[source][s].class
           /\ row[source][s] = NoRow => row'[source][s] = NoRow /\ row'[target][s] = NoRow
           /\ row'[target][s] # NoRow =>
                /\ carry["students"] /\ Promotable(source, s) /\ ~row'[source][s].user
                /\ row'[target][s].class = row[source][s].class + 1
                /\ row'[target][s].class \in groups[source]
                /\ row'[target][s].active /\ row'[target][s].user = row[source][s].user
           /\ row'[target][s] = NoRow /\ carry["students"] /\ Promotable(source, s) =>
                \/ row[source][s].class = NoClass
                \/ IsTop(row[source][s].class, groups[source]) /\ ~row'[source][s].active
                \/ ~IsTop(row[source][s].class, groups[source]) /\ row[source][s].class + 1 \notin groups[source]
           /\ ~carry["students"] \/ ~Promotable(source, s) => row'[source][s] = row[source][s]
<1>1. row[source][s] # NoRow => row[source][s] \in Row
  BY DEF RowsT
<1>2. NoRow \notin Row
  BY ScenesAssumption
<1>3. CASE ~carry["students"]
  <2>1. row'[target][s] = NoRow /\ row'[source][s] = row[source][s]
    BY <1>3, CarriedTyped
  <2> QED
    BY <1>3, <2>1
<1>4. CASE carry["students"]
  <2>1. row'[target][s] = MovedUp(source, s) /\ row'[source][s] = LeftBehind(source, s)
    BY <1>4, CarriedTyped
  <2>2. CASE ~Promotable(source, s)
    BY <1>4, <2>1, <2>2 DEF MovedUp, LeftBehind, Promotable
  <2>3. CASE Promotable(source, s)
    <3> DEFINE old == row[source][s]
               next == old.class + 1
               moved == [class |-> next, active |-> TRUE, user |-> old.user]
               stays == old.class = NoClass \/ ~IsTop(old.class, groups[source])
               left == [old EXCEPT !.user = FALSE, !.active = stays]
    <3>1. old \in Row
      BY <1>1, <2>3 DEF Promotable
    <3>2. row'[source][s] = left
      BY <2>1, <2>3 DEF LeftBehind
    <3>3. row'[target][s] = IF old.class # NoClass /\ ~IsTop(old.class, groups[source]) /\ next \in groups[source]
                            THEN moved ELSE NoRow
      BY <2>1, <2>3 DEF MovedUp
    <3>8. stays \in BOOLEAN
      BY DEF IsTop
    <3>9. moved \in Row
      BY <3>1 DEF Row
    <3>4. left \in Row /\ left.class = old.class /\ ~left.user /\ left.active = stays
      <4> HIDE DEF stays
      <4> QED
        BY <3>1, <3>8 DEF Row
    <3>6. moved.class = next /\ moved.active /\ moved.user = old.user
      OBVIOUS
    <3> HIDE DEF moved, left
    <3>7. row[source][s] # NoRow
      BY <2>3 DEF Promotable
    <3> QED
      BY <1>2, <1>4, <2>3, <3>2, <3>3, <3>4, <3>6, <3>7, <3>9
  <2> QED
    BY <2>2, <2>3
<1> QED
  BY <1>3, <1>4
\* A run is applied: no other run is under way, so what the others moved stays.
LEMMA AppliedStep ==
    ASSUME IInv, scene \in Scenes, Tables, Rolls, NEW r \in RunIds, Exists(r), runs[r].phase = "SNAPSHOT_DONE",
           NEW rn \in Run, runs' = [runs EXCEPT ![r] = rn], rn.source = runs[r].source,
           rn.target = runs[r].target, rn.phase = "APPLIED",
           NEW carry \in Carry, ValidCarry(carry), runs[r].source # runs[r].target, groups[runs[r].source] # {},
           row' = CarriedRows(runs[r].source, runs[r].target, carry),
           groups' = [groups EXCEPT ![runs[r].target] = IF carry["classes"] THEN groups[runs[r].source] ELSE {}],
           UNCHANGED <<status, scene>>
    PROVE  Tables' /\ Rolls'
<1> DEFINE source == runs[r].source
           target == runs[r].target
<1>0. /\ runs \in [RunIds -> Run \cup {NoRun}] /\ rn # NoRun /\ runs[r] # NoRun /\ runs[r] \in Run
      /\ RowsT /\ GroupsT
  BY ScenesAssumption DEF IInv, TypeOK, Exists, RowsT, GroupsT
<1>1. runs'[r] = rn /\ \A q \in RunIds : q # r => runs'[q] = runs[q]
  BY <1>0
<1>2. source \in Years /\ target \in Years /\ status[source] = "ACTIVE" /\ status[target] = "BUILD_STAGE"
  BY <1>0 DEF Tables, RunsKept, InProgress, Run
<1>3. ASSUME NEW q \in RunIds, runs[q] # NoRun, q # r
      PROVE  /\ runs[q].phase = "PUBLISHED" /\ runs[q].source \in Years /\ runs[q].target \in Years
             /\ runs[q].source \notin {source, target} /\ runs[q].target # target
  <2>1. runs[q].phase \notin InProgress
    BY <1>0, <1>3, OneUnderWay DEF InProgress
  <2>2. /\ runs[q].phase = "PUBLISHED" /\ status[runs[q].source] = "ARCHIVED"
        /\ status[runs[q].target] \in {"ACTIVE", "ARCHIVED"}
    BY <1>3, <2>1 DEF Tables, RunsKept
  <2>3. runs[q].source \in Years /\ runs[q].target \in Years
    BY <1>3 DEF IInv, TypeOK, Run
  <2> QED
    BY <1>2, <2>2, <2>3
<1>4. \A s \in Students : row[target][s] = NoRow
  BY <1>0, TargetEmpty
<1>5. /\ source # target /\ groups[source] # {} /\ row' = CarriedRows(source, target, carry)
      /\ groups'[target] = IF carry["classes"] THEN groups[source] ELSE {}
      /\ \A y \in Years : y # target => groups'[y] = groups[y]
  BY <1>0, <1>2 DEF GroupsT
<1>6. rn.source = source /\ rn.target = target
  OBVIOUS
<1> HIDE DEF source, target
<1>7. \A y \in Years, s \in Students : y \notin {source, target} => row'[y][s] = row[y][s]
  BY <1>0, <1>2, <1>5, CarriedTyped
<1>8. RunsKept'
  BY <1>0, <1>1, <1>2, <1>6 DEF Tables, RunsKept, InProgress
<1>9. SourcesDiffer'
  BY <1>0, <1>1 DEF Tables, SourcesDiffer
<1>10. OneActivePerBranch'
  BY DEF Tables, OneActivePerBranch
<1>11. NewYearEmpty'
  <2> SUFFICES ASSUME NEW y \in Years, NEW s \in Students, status[y] = "BUILD_STAGE", row'[y][s] # NoRow
               PROVE  y = target
    BY <1>0, <1>1, <1>6 DEF NewYearEmpty
  <2> SUFFICES ASSUME y # target PROVE FALSE
    OBVIOUS
  <2>1. y # source
    BY <1>2
  <2>2. row[y][s] # NoRow
    BY <1>7, <2>1
  <2>3. PICK q \in RunIds : runs[q] # NoRun /\ runs[q].phase = "APPLIED" /\ runs[q].target = y
    BY <2>2 DEF Tables, NewYearEmpty
  <2> QED
    BY <1>3, <2>3
<1>12. OrdersKept'
  BY <1>2, <1>5 DEF Rolls, OrdersKept
<1>13. MovesSound'
  <2> SUFFICES ASSUME NEW q \in RunIds, NEW s \in Students, CarriedBy(q, s)'
               PROVE  /\ row'[runs'[q].source][s] # NoRow /\ ~row'[runs'[q].source][s].user
                      /\ row'[runs'[q].target][s].class = row'[runs'[q].source][s].class + 1
                      /\ row'[runs'[q].target][s].class \in groups'[runs'[q].target]
    BY DEF MovesSound, MovedSound
  <2>1. CASE q = r
    <3>1. row'[target][s] # NoRow
      BY <1>1, <1>6, <2>1 DEF CarriedBy
    <3>2. /\ row[source][s] # NoRow => row'[source][s] # NoRow /\ row'[source][s].class = row[source][s].class
          /\ carry["students"] /\ Promotable(source, s) /\ ~row'[source][s].user
          /\ row'[target][s].class = row[source][s].class + 1 /\ row'[target][s].class \in groups[source]
      BY <1>0, <1>2, <1>4, <1>5, <3>1, CarriedStudent
    <3>3. row[source][s] # NoRow /\ groups'[target] = groups[source]
      BY <1>5, <3>2 DEF Promotable, ValidCarry
    <3> QED
      BY <1>1, <1>6, <2>1, <3>2, <3>3
  <2>2. CASE q # r
    <3>1. runs'[q] = runs[q] /\ runs[q] # NoRun /\ row'[runs[q].target][s] # NoRow
      BY <1>1, <2>2 DEF CarriedBy, Exists
    <3>2. /\ runs[q].phase = "PUBLISHED" /\ runs[q].source \in Years /\ runs[q].target \in Years
          /\ runs[q].source \notin {source, target} /\ runs[q].target # target
      BY <1>3, <2>2, <3>1
    <3>3. row'[runs[q].source][s] = row[runs[q].source][s] /\ groups'[runs[q].target] = groups[runs[q].target]
      BY <1>5, <1>7, <3>2
    <3>4. row[runs[q].target][s] # NoRow /\ row'[runs[q].target][s].class = row[runs[q].target][s].class
      <4>1. CASE runs[q].target = source
        BY <1>0, <1>2, <1>4, <1>5, <3>1, <4>1, CarriedStudent
      <4>2. CASE runs[q].target # source
        BY <1>7, <3>1, <3>2, <4>2
      <4> QED
        BY <4>1, <4>2
    <3>5. CarriedBy(q, s)
      BY <3>1, <3>2, <3>4 DEF CarriedBy, Exists
    <3>6. /\ row[runs[q].source][s] # NoRow /\ ~row[runs[q].source][s].user
          /\ row[runs[q].target][s].class = row[runs[q].source][s].class + 1
          /\ row[runs[q].target][s].class \in groups[runs[q].target]
      BY <3>5 DEF Rolls, MovesSound, MovedSound
    <3> QED
      BY <3>1, <3>3, <3>4, <3>6
  <2> QED
    BY <2>1, <2>2
<1>14. LoginsKept'
  <2> SUFFICES ASSUME NoGaps
               PROVE  /\ \A y \in Years, s \in Students : row'[y][s] # NoRow => row'[y][s].class \in scene.orders
                      /\ \A s \in Logins : Kept(s)'
    BY DEF LoginsKept, NoGaps
  <2>1. /\ groups[source] = scene.orders
        /\ \A y \in Years, s \in Students : row[y][s] # NoRow => row[y][s].class \in scene.orders
        /\ \A s \in Logins : Kept(s)
    BY <1>2, <1>5 DEF Rolls, OrdersKept, LoginsKept
  <2>2. scene.orders \subseteq Nat \ {NoClass}
    BY ScenesAssumption DEF Scene
  <2>3. ASSUME NEW y \in Years, NEW s \in Students, row'[y][s] # NoRow PROVE row'[y][s].class \in scene.orders
    <3>1. CASE y = target
      BY <1>0, <1>2, <1>4, <1>5, <2>1, <2>3, <3>1, CarriedStudent
    <3>2. CASE y = source
      BY <1>0, <1>2, <1>4, <1>5, <2>1, <2>3, <3>2, CarriedStudent
    <3>3. CASE y \notin {source, target}
      BY <1>7, <2>1, <2>3, <3>3
    <3> QED
      BY <3>1, <3>2, <3>3
  <2>4. ASSUME NEW s \in Logins PROVE Kept(s)'
    <3>0. s \in Students /\ Kept(s)
      BY <2>1, LoginsAssumption
    <3> DEFINE c == row[source][s].class
    <3>1. CASE carry["students"] /\ Promotable(source, s)
      <4>1. row[source][s] # NoRow /\ c \in scene.orders
        BY <1>2, <2>1, <3>0, <3>1 DEF Promotable
      <4>2. row'[source][s] # NoRow
        BY <1>0, <1>2, <1>4, <1>5, <3>0, <4>1, CarriedStudent
      <4>3. CASE row'[target][s] # NoRow
        <5>1. row'[target][s].active /\ row'[target][s].user = row[source][s].user
          BY <1>0, <1>2, <1>4, <1>5, <3>0, <4>3, CarriedStudent
        <5>2. CASE row[source][s].user
          BY <1>2, <4>3, <5>1, <5>2 DEF Kept, HasLogin
        <5>3. CASE ~row[source][s].user
          <6>1. PICK y \in Years : (HasLogin(y, s) /\ row[y][s].active) \/ (row[y][s] # NoRow /\ ~row[y][s].active)
            BY <3>0 DEF Kept
          <6>2. row[y][s] # NoRow
            BY <6>1 DEF HasLogin
          <6>3. y # target /\ y # source
            BY <1>4, <3>0, <3>1, <5>3, <6>1, <6>2 DEF HasLogin, Promotable
          <6>4. row'[y][s] = row[y][s]
            BY <1>7, <3>0, <6>3
          <6> QED
            BY <6>1, <6>4 DEF Kept, HasLogin
        <5> QED
          BY <5>2, <5>3
      <4>4. CASE row'[target][s] = NoRow
        <5>1. \/ c = NoClass
              \/ IsTop(c, groups[source]) /\ ~row'[source][s].active
              \/ ~IsTop(c, groups[source]) /\ c + 1 \notin groups[source]
          BY <1>0, <1>2, <1>4, <1>5, <3>0, <3>1, <4>4, CarriedStudent
        <5>2. c \in Nat \ {NoClass}
          BY <2>2, <4>1
        <5>3. ~IsTop(c, groups[source]) => c + 1 \in groups[source]
          <6> SUFFICES ASSUME NEW m \in scene.orders, ~(m <= c) PROVE c + 1 \in scene.orders
            BY <2>1 DEF IsTop
          <6> HIDE DEF c
          <6>1. c < m
            BY <2>2, <5>2
          <6> QED
            BY <4>1, <6>1 DEF NoGaps
        <5>4. ~row'[source][s].active
          BY <5>1, <5>2, <5>3
        <5> QED
          BY <1>2, <4>2, <5>4 DEF Kept
      <4> QED
        BY <4>3, <4>4
    <3>2. CASE ~(carry["students"] /\ Promotable(source, s))
      <4>1. row'[source][s] = row[source][s]
        BY <1>0, <1>2, <1>4, <1>5, <3>0, <3>2, CarriedStudent
      <4>2. PICK y \in Years : (HasLogin(y, s) /\ row[y][s].active) \/ (row[y][s] # NoRow /\ ~row[y][s].active)
        BY <3>0 DEF Kept
      <4>3. y # target
        BY <1>4, <3>0, <4>2 DEF HasLogin
      <4>4. row'[y][s] = row[y][s]
        BY <1>7, <3>0, <4>1, <4>3
      <4> QED
        BY <4>2, <4>4 DEF Kept, HasLogin
    <3> QED
      BY <3>1, <3>2
  <2> QED
    BY <2>3, <2>4
<1> QED
  BY <1>8, <1>9, <1>10, <1>11, <1>12, <1>13, <1>14 DEF Tables, Rolls
LEMMA GotoStarted ==
    ASSUME LocOK, Called, WizardOnly, AllStarted, NEW p \in Requests, p \in scene.staff, NEW label, NEW l,
           Started(status', Busy', label, l), Goto(p, label, l)
    PROVE  AllStarted'
<1>1. ASSUME NEW q \in Requests PROVE Started(status', Busy', pc'[q], loc'[q])
  <2>1. CASE q = p
    BY <2>1 DEF LocOK, Goto
  <2>2. CASE q # p
    <3>1. pc'[q] = pc[q] /\ loc'[q] = loc[q] /\ Started(status, Busy, pc[q], loc[q])
      BY <2>2 DEF LocOK, Goto, AllStarted
    <3>2. pc[q] \notin StartLabels
      <4> SUFFICES ASSUME pc[q] \in StartLabels PROVE FALSE
        OBVIOUS
      <4>1. Alone
        BY DEF Called, CalledAt, WizardOnly
      <4> QED
        BY <2>2, <4>1, OthersIdle DEF StartLabels
    <3> QED
      BY <3>1, <3>2 DEF Started, StartLabels
  <2> QED
    BY <2>1, <2>2
<1> QED
  BY <1>1 DEF AllStarted

LEMMA FinishStarted ==
    ASSUME LocOK, Called, WizardOnly, AllStarted, NEW p \in Requests, p \in scene.staff, Finish(p)
    PROVE  AllStarted'
<1>1. Started(status', Busy', "idle", NoCall)
  BY DEF Started, StartLabels
<1> QED
  BY <1>1, GotoStarted DEF Finish

LEMMA StartingStep ==
    ASSUME IInv, Called, WizardOnly, Wizarding, NEW p \in Requests, Start(p), scene' = scene
    PROVE  Wizarding'
<1>0. LocOK /\ AllStarted /\ Tables /\ Rolls /\ p \in scene.staff
  BY ActorOnStaff DEF IInv, Wizarding
<1>1. ASSUME UNCHANGED <<status, promotion>>, AllStarted' PROVE Wizarding'
  BY <1>0, <1>1, QuietStep DEF promotion, Wizarding
<1>2. Started(status, Busy, pc[p], loc[p])
  BY <1>0 DEF AllStarted
<1>3. UNCHANGED runs => Busy' = Busy
  BY DEF Busy
<1>4. ASSUME NEW source \in Years, NEW target \in Years, NEW new \in BOOLEAN,
             NEW partial \in Partial, StartRead(p, source, target, new, partial)
      PROVE  Wizarding'
  <2> DEFINE l == [source |-> source, target |-> target, carry |-> Merged(DefaultCarry, partial)]
  <2>1. status[source] = "ACTIVE" /\ ~Busy /\ UNCHANGED <<status, promotion>>
    BY <1>4 DEF StartRead
  <2>2. Started(status', Busy', "target", l) /\ Started(status', Busy', "newTarget", l)
    BY <1>3, <2>1 DEF Started, StartLabels, promotion
  <2>3. Goto(p, "target", l) \/ Goto(p, "newTarget", l)
    BY <1>4 DEF StartRead
  <2> HIDE DEF l
  <2> QED
    BY <1>0, <1>1, <2>1, <2>2, <2>3, GotoStarted
<1>5. CASE StartTarget(p)
  <2>1. UNCHANGED <<status, promotion>> /\ pc[p] = "target"
    BY <1>5 DEF StartTarget
  <2>2. status[loc[p].target] = "BUILD_STAGE" => Started(status', Busy', "pair", loc[p])
    BY <1>2, <1>3, <2>1 DEF Started, StartLabels, promotion
  <2>3. Finish(p) \/ (status[loc[p].target] = "BUILD_STAGE" /\ Goto(p, "pair", loc[p]))
    BY <1>5 DEF StartTarget
  <2> QED
    BY <1>0, <1>1, <2>1, <2>2, <2>3, GotoStarted, FinishStarted
<1>6. CASE StartPair(p)
  <2>1. UNCHANGED <<status, promotion>> /\ pc[p] = "pair"
    BY <1>6 DEF StartPair
  <2>2. Started(status', Busy', "insert", loc[p])
    BY <1>2, <1>3, <2>1 DEF Started, StartLabels, promotion
  <2>3. Finish(p) \/ Goto(p, "insert", loc[p])
    BY <1>6 DEF StartPair
  <2> QED
    BY <1>0, <1>1, <2>1, <2>2, <2>3, GotoStarted, FinishStarted
<1>7. CASE StartNewTarget(p)
  <2> DEFINE y == loc[p].target
  <2>1. pc[p] = "newTarget" /\ loc[p].source \in Years /\ y \in Years /\ status \in [Years -> Statuses]
    BY <1>7 DEF StartNewTarget, IInv, LocOK, Fits, StartLabels, TypeOK
  <2>2. UNCHANGED promotion
    BY <1>7 DEF StartNewTarget
  <2>3. status[loc[p].source] = "ACTIVE" /\ ~Busy
    BY <1>2, <2>1 DEF Started, StartLabels
  <2>4. CASE status[y] = "none"
    <3>1. status' = [status EXCEPT ![y] = "BUILD_STAGE"] /\ Goto(p, "pair", loc[p])
      BY <1>7, <2>4 DEF StartNewTarget
    <3>2. status'[loc[p].source] = "ACTIVE" /\ status'[y] = "BUILD_STAGE"
      BY <2>1, <2>3, <2>4, <3>1
    <3>3. Started(status', Busy', "pair", loc[p])
      BY <1>3, <2>2, <2>3, <3>2 DEF Started, promotion
    <3>4. Tables' /\ Rolls'
      BY <1>0, <2>1, <2>2, <2>4, <3>1, NewYearStep DEF promotion
    <3> QED
      BY <1>0, <3>1, <3>3, <3>4, GotoStarted DEF Wizarding
  <2>5. CASE status[y] = "BUILD_STAGE"
    <3>1. UNCHANGED status /\ Goto(p, "pair", loc[p])
      BY <1>7, <2>5 DEF StartNewTarget
    <3>2. Started(status', Busy', "pair", loc[p])
      BY <1>3, <2>2, <2>3, <2>5, <3>1 DEF Started, promotion
    <3> QED
      BY <1>0, <1>1, <2>2, <3>1, <3>2, GotoStarted
  <2>6. CASE status[y] \notin {"none", "BUILD_STAGE"}
    <3>1. UNCHANGED status /\ Finish(p)
      BY <1>7, <2>6 DEF StartNewTarget
    <3> QED
      BY <1>0, <1>1, <2>2, <3>1, FinishStarted
  <2> QED
    BY <2>4, <2>5, <2>6
<1>8. ASSUME NEW r \in RunIds, StartInsert(p, r) PROVE Wizarding'
  <2> DEFINE rn == [source |-> loc[p].source, target |-> loc[p].target, phase |-> "DRAFT",
                    carry |-> loc[p].carry, snapshot |-> "none"]
  <2>1. loc[p] \in [source : Years, target : Years, carry : Carry] /\ pc[p] = "insert"
    BY <1>8 DEF StartInsert, IInv, LocOK, Fits, StartLabels
  <2>2. rn \in Run /\ rn.phase = "DRAFT" /\ rn.source = loc[p].source /\ rn.target = loc[p].target
    BY <2>1 DEF Run, Phases
  <2>3. /\ runs[r] = NoRun /\ runs' = [runs EXCEPT ![r] = rn] /\ Finish(p)
        /\ UNCHANGED <<status, groups, row>>
    BY <1>8 DEF StartInsert
  <2>4. ~Busy /\ status[loc[p].source] = "ACTIVE" /\ status[loc[p].target] = "BUILD_STAGE"
    BY <1>2, <2>1 DEF Started, StartLabels
  <2> HIDE DEF rn
  <2>5. Tables' /\ Rolls'
    BY <1>0, <2>2, <2>3, <2>4, NewRunStep
  <2> QED
    BY <1>0, <2>3, <2>5, FinishStarted DEF Wizarding
<1> QED
  BY <1>4, <1>5, <1>6, <1>7, <1>8 DEF Start

LEMMA RunningStep ==
    ASSUME IInv, Called, scene \in Scenes, WizardOnly, Wizarding, NEW p \in Requests, Wizard(p), scene' = scene
    PROVE  Wizarding'
<1> DEFINE r == loc[p].run
<1>0. LocOK /\ AllStarted /\ Tables /\ Rolls /\ p \in scene.staff
  BY ActorOnStaff DEF IInv, Wizarding
<1>1. ASSUME UNCHANGED <<status, promotion>>, AllStarted' PROVE Wizarding'
  BY <1>0, <1>1, QuietStep DEF promotion, Wizarding
<1>2. ASSUME Tables', Rolls', Finish(p) PROVE Wizarding'
  BY <1>0, <1>2, FinishStarted DEF Wizarding
<1>3. pc[p] \in RunLabels => r \in RunIds /\ loc[p].read \in Run
  BY DEF IInv, LocOK, Fits
<1>4. Exists(r) /\ r \in RunIds => runs[r] \in Run
  BY DEF IInv, TypeOK, Exists
<1>5. ASSUME NEW q \in RunIds, NEW partial \in Partial, CarryRead(p, q, partial) PROVE Wizarding'
  <2> DEFINE l == [run |-> q, read |-> [runs[q] EXCEPT !.carry = Merged(@, partial)]]
  <2>1. Started(status', Busy', "carry", l)
    BY DEF Started, StartLabels
  <2>2. Goto(p, "carry", l) /\ UNCHANGED <<status, promotion>>
    BY <1>5 DEF CarryRead
  <2> HIDE DEF l
  <2> QED
    BY <1>0, <1>1, <2>1, <2>2, GotoStarted
<1>6. ASSUME NEW q \in RunIds, NEW h \in {"snapshot", "apply", "promote"}, StepRead(p, h, q) PROVE Wizarding'
  <2> DEFINE l == [run |-> q, read |-> runs[q]]
  <2>1. Started(status', Busy', h, l)
    BY <1>6 DEF StepRead, Started, StartLabels
  <2>2. Goto(p, h, l) /\ UNCHANGED <<status, promotion>>
    BY <1>6 DEF StepRead
  <2> HIDE DEF l
  <2> QED
    BY <1>0, <1>1, <2>1, <2>2, GotoStarted
<1>7. CASE CarryWrite(p)
  <2> DEFINE rn == [runs[r] EXCEPT !.carry = loc[p].read.carry]
  <2>1. r \in RunIds /\ loc[p].read \in Run /\ Exists(r)
    BY <1>3, <1>7 DEF CarryWrite, RunLabels
  <2>2. rn \in Run /\ rn.source = runs[r].source /\ rn.target = runs[r].target /\ rn.phase = runs[r].phase
    BY <1>4, <2>1 DEF Run
  <2>3. runs' = [runs EXCEPT ![r] = rn] /\ UNCHANGED <<status, groups, row>> /\ Finish(p)
    BY <1>7, <2>1 DEF CarryWrite, IInv, TypeOK
  <2> HIDE DEF rn, r
  <2> QED
    BY <1>0, <1>2, <2>1, <2>2, <2>3, RunEdited
<1>8. CASE Snapshot(p)
  <2> DEFINE rn == [runs[r] EXCEPT !.phase = "SNAPSHOT_DONE", !.snapshot = "IN_PROGRESS"]
  <2>1. r \in RunIds /\ Exists(r) /\ runs[r].phase = "DRAFT"
    BY <1>3, <1>8 DEF Snapshot, LockedIn, RunLabels
  <2>2. rn \in Run /\ rn.source = runs[r].source /\ rn.target = runs[r].target /\ rn.phase = "SNAPSHOT_DONE"
    BY <1>4, <2>1 DEF Run, Phases
  <2>3. runs' = [runs EXCEPT ![r] = rn] /\ UNCHANGED <<status, groups, row>> /\ Finish(p)
    BY <1>8, <2>1 DEF Snapshot, IInv, TypeOK
  <2> HIDE DEF rn, r
  <2> QED
    BY <1>0, <1>2, <2>1, <2>2, <2>3, RunEdited
<1>9. CASE Promote(p)
  <2> DEFINE sn == IF loc[p].read.snapshot = "none" THEN runs[r].snapshot ELSE "COMPLETED"
             rn == [runs[r] EXCEPT !.phase = "PUBLISHED", !.snapshot = sn]
  <2>1. r \in RunIds /\ Exists(r) /\ runs[r].phase = "APPLIED"
    BY <1>3, <1>9 DEF Promote, LockedIn, RunLabels
  <2>2. rn \in Run /\ rn.source = runs[r].source /\ rn.target = runs[r].target /\ rn.phase = "PUBLISHED"
    BY <1>4, <2>1 DEF Run, Phases
  <2>3. /\ runs' = [runs EXCEPT ![r] = rn] /\ UNCHANGED <<groups, row>> /\ Finish(p)
        /\ status' = [status EXCEPT ![runs[r].source] = "ARCHIVED", ![runs[r].target] = "ACTIVE"]
    BY <1>9, <2>1 DEF Promote, IInv, TypeOK
  <2> HIDE DEF rn, r
  <2> QED
    BY <1>0, <1>2, <2>1, <2>2, <2>3, PublishedStep
<1>10. CASE Apply(p)
  <2> DEFINE rn == [runs[r] EXCEPT !.phase = "APPLIED"]
             carry == loc[p].read.carry
  <2>1. r \in RunIds /\ Exists(r) /\ runs[r].phase = "SNAPSHOT_DONE" /\ loc[p].read \in Run
    BY <1>3, <1>10 DEF Apply, LockedIn, RunLabels
  <2>2. rn \in Run /\ rn.source = runs[r].source /\ rn.target = runs[r].target /\ rn.phase = "APPLIED"
    BY <1>4, <2>1 DEF Run, Phases
  <2>3. /\ runs' = [runs EXCEPT ![r] = rn] /\ UNCHANGED <<status>> /\ Finish(p)
        /\ groups[runs[r].source] # {} /\ runs[r].source # runs[r].target
        /\ row' = CarriedRows(runs[r].source, runs[r].target, carry)
        /\ groups' = [groups EXCEPT ![runs[r].target] = IF carry["classes"] THEN groups[runs[r].source] ELSE {}]
    BY <1>10, <2>1 DEF Apply, IInv, TypeOK
  <2>4. carry \in Carry /\ ValidCarry(carry)
    BY <1>0, <1>10, <2>1 DEF AllStarted, Started, Apply, Run
  <2> HIDE DEF rn, r, carry
  <2>5. Tables' /\ Rolls'
    BY <1>0, <2>1, <2>2, <2>3, <2>4, AppliedStep
  <2> QED
    BY <1>2, <2>3, <2>5
<1> QED
  BY <1>5, <1>6, <1>7, <1>8, <1>9, <1>10 DEF Wizard

LEMMA WizardingStep ==
    ASSUME IInv, Called, scene \in Scenes, WizardOnly, Wizarding, [Next]_vars, scene' = scene
    PROVE  Wizarding'
<1>1. CASE UNCHANGED vars
  <2>1. AllStarted'
    BY <1>1 DEF vars, yearVars, promotion, Wizarding, AllStarted, Busy
  <2> QED
    BY <1>1, <2>1, QuietStep DEF vars, yearVars, promotion, Wizarding
<1>2. ASSUME NEW p \in Requests, Drop(p), UNCHANGED promotion PROVE Wizarding'
  <2>1. p \in scene.staff
    BY <1>2, ActorOnStaff DEF YearStep
  <2>2. AllStarted'
    BY <1>2, <2>1, FinishStarted DEF Drop, IInv, Wizarding
  <2> QED
    BY <1>2, <2>2, QuietStep DEF Drop, promotion, Wizarding
<1>3. ASSUME NEW p \in Requests, YearStep(p) \/ DeleteCascades(p) PROVE Drop(p)
  <2>1. /\ pc[p] \notin {"create", "delete", "check", "write"}
        /\ scene.handlers \cap ({"create", "import", "delete"} \cup Changes) = {}
    BY DEF Called, CalledAt, IInv, LocOK, Fits, RunLabels, ChangeLabels, WizardOnly, Changes
  <2> QED
    BY <1>3, <2>1 DEF YearStep, DeleteCascades, DeleteWrite, CreateRead, CreateWrite, ChangeRead, ChangeCheck,
       ChangeWrite, DeleteRead, Begin
<1>4. ASSUME NEW p \in Requests PROVE ~DeleteCascades(p)
  <2>1. pc[p] # "delete"
    BY DEF Called, CalledAt, WizardOnly
  <2> QED
    BY <2>1 DEF DeleteCascades, DeleteWrite
<1> QED
  BY <1>1, <1>2, <1>3, <1>4, StartingStep, RunningStep DEF Next
LEMMA InitYears == Init /\ Settled => YearsKept
<1> SUFFICES ASSUME Init, Settled PROVE YearsKept
  OBVIOUS
<1>1. OneActivePerBranch
  BY ScenesAssumption DEF Init, YearsInit, OneActivePerBranch
<1>2. OneUnderConstruction(status)
  BY DEF Init, YearsInit, Settled, OneUnderConstruction
<1>3. Fresh
  BY DEF Init, YearsInit, Fresh, FreshIn, ChangeLabels
<1> QED
  BY <1>1, <1>2, <1>3 DEF YearsKept

LEMMA InitWizarding == Init /\ WizardOnly => Wizarding
<1> SUFFICES ASSUME Init, WizardOnly PROVE Wizarding
  OBVIOUS
<1>0. scene \in Scenes /\ scene \in Scene /\ status = scene.status /\ runs = scene.runs
  BY ScenesAssumption DEF Init, YearsInit
<1>1. RunsKept
  BY <1>0 DEF WizardOnly, RunsKept, InProgress
<1>2. SourcesDiffer
  BY <1>0 DEF WizardOnly, SourcesDiffer
<1>3. OneActivePerBranch
  BY <1>0, ScenesAssumption DEF OneActivePerBranch
<1>4. NewYearEmpty
  BY DEF Init, NewYearEmpty
<1>5. OrdersKept
  BY DEF Init, OrdersKept
<1>6. MovesSound
  BY <1>0 DEF WizardOnly, MovesSound, MovedSound, CarriedBy, Exists
<1>7. LoginsKept
  <2> SUFFICES ASSUME NoGaps
               PROVE  /\ \A y \in Years, s \in Students : row[y][s] # NoRow => row[y][s].class \in scene.orders
                      /\ \A s \in Logins : Kept(s)
    BY DEF LoginsKept
  <2> DEFINE old(s) == [class |-> scene.classOf[s], active |-> TRUE, user |-> s \in Logins]
  <2>1. \A y \in Years, s \in Students : row[y][s] = IF status[y] = "ACTIVE" THEN old(s) ELSE NoRow
    BY DEF Init
  <2>2. \A s \in Students : old(s) \in Row /\ old(s).class = scene.classOf[s] /\ old(s).active
    BY <1>0 DEF Scene, Row
  <2>3. \A s \in Logins : old(s).user
    OBVIOUS
  <2> HIDE DEF old
  <2>4. \A y \in Years, s \in Students : row[y][s] # NoRow => row[y][s].class \in scene.orders
    BY <2>1, <2>2 DEF NoGaps
  <2>5. ASSUME NEW s \in Logins PROVE Kept(s)
    <3>1. PICK y \in Years : status[y] = "ACTIVE"
      BY <1>0 DEF WizardOnly
    <3>2. s \in Students /\ row[y][s] = old(s) /\ old(s) # NoRow
      BY <2>1, <2>2, <3>1, LoginsAssumption, ScenesAssumption
    <3> QED
      BY <2>2, <2>3, <3>2 DEF Kept, HasLogin
  <2> QED
    BY <2>4, <2>5
<1>8. AllStarted
  BY DEF Init, YearsInit, AllStarted, Started, StartLabels
<1> QED
  BY <1>1, <1>2, <1>3, <1>4, <1>5, <1>6, <1>7, <1>8 DEF Wizarding, Tables, Rolls

PInv == /\ IInv /\ Called /\ scene \in Scenes
        /\ Settled => YearsKept
        /\ WizardOnly => Wizarding

LEMMA PInvInit == Init => PInv
BY InitIInv, InitCalled, InitYears, InitWizarding DEF PInv, Init, YearsInit

LEMMA PInvStep == PInv /\ [Next]_vars => PInv'
<1> SUFFICES ASSUME PInv, [Next]_vars PROVE PInv'
  OBVIOUS
<1>1. IInv' /\ Called' /\ scene' = scene
  BY IInvStep, CalledStep DEF PInv, IInv
<1>2. Settled' <=> Settled
  BY <1>1 DEF Settled, Alone, OneUnderConstruction
<1>3. WizardOnly' <=> WizardOnly
  BY <1>1 DEF WizardOnly, Alone
<1> QED
  BY <1>1, <1>2, <1>3, YearsKeptStep, WizardingStep DEF PInv

\* No student is lost by a run, moved up twice or left without the login, over any
\* number of promotions; and calls that come one at a time keep one active year.
THEOREM StudentsAreKept == Spec => []StudentsSound
<1>1. PInv => OneOfEach
  BY DEF PInv, Settled, YearsKept, OneOfEach
<1>2. PInv => NobodyLost
  BY DEF PInv, Wizarding, Rolls, LoginsKept, Kept, NobodyLost
<1>3. PInv => MovedUpOnce
  <2> SUFFICES ASSUME PInv, WizardOnly, NEW r \in RunIds, NEW s \in Students, CarriedBy(r, s)
               PROVE  /\ MovedSound(r, s)
                      /\ \A q \in RunIds : CarriedBy(q, s) /\ runs[q].source = runs[r].source => q = r
    BY DEF MovedUpOnce, MovedSound
  <2> QED
    BY DEF PInv, Wizarding, Rolls, MovesSound, Tables, SourcesDiffer, CarriedBy, Exists
<1> QED
  BY <1>1, <1>2, <1>3, PInvInit, PInvStep, PTL DEF Spec, StudentsSound
=============================================================================
