---------------------------- MODULE BatchPromotion ----------------------------
(***************************************************************************)
(* The promotion of a branch's students from one academic year to the next: *)
(* a run goes DRAFT, SNAPSHOT_DONE, APPLIED, PUBLISHED.  Each of the last   *)
(* three is one transaction that locks the run's row and checks its phase;  *)
(* what a handler reads before that transaction can be out of date in it.   *)
(*                                                                         *)
(* A class is its displayOrder (sections of a grade share one).  Subjects,  *)
(* teachers, timetables and fee structures are copied by the same           *)
(* transaction and left out, with the options that select them.             *)
(***************************************************************************)
EXTENDS AcademicYears

VARIABLES
    runs,       \* runs[r]: a row of batch_promotion_runs
    groups,     \* groups[y]: the display orders of the active groups of y
    row         \* row[y][s]: the students row of s in year y

promotion == <<runs, groups, row>>
vars == <<yearVars, promotion>>

Options == {"classes", "students"}
Carry == [Options -> BOOLEAN]
Partial == UNION {[D -> BOOLEAN] : D \in SUBSET Options}
Phases == {"DRAFT", "SNAPSHOT_DONE", "APPLIED", "PUBLISHED", "deleted"}
InProgress == {"DRAFT", "SNAPSHOT_DONE", "APPLIED"}
NoClass == 0

\* A run names its years and what it carries; user: the row holds the userId.
Run == [source : Years, target : Years, phase : Phases, carry : Carry,
        snapshot : {"none", "IN_PROGRESS", "COMPLETED"}]
Row == [class : Nat, active : BOOLEAN, user : BOOLEAN]

\* mergeCarryOptions, over the options that are modelled.
Merged(stored, partial) ==
    [o \in Options |-> IF o \in DOMAIN partial THEN partial[o] ELSE stored[o]]
DefaultCarry == [o \in Options |-> TRUE]
ValidCarry(c) == c["students"] => c["classes"]

\* At the start one year is ACTIVE, and runs are between years that exist.
Scene == [staff : SUBSET Requests, handlers : SUBSET STRING, maxCalls : Nat,
          status : [Years -> Statuses], runs : [RunIds -> Run \cup {NoRun}],
          orders : SUBSET (Nat \ {NoClass}), classOf : [Students -> Nat]]
ASSUME ScenesAssumption ==
    /\ NoRun \notin Run /\ NoRow \notin Row
    /\ \A sc \in Scenes :
         /\ sc \in Scene
         /\ \A y, z \in Years : sc.status[y] = "ACTIVE" /\ sc.status[z] = "ACTIVE" => y = z
         /\ \A r \in RunIds : sc.runs[r] # NoRun =>
              sc.status[sc.runs[r].source] \in Live /\ sc.status[sc.runs[r].target] \in Live

Init ==
    /\ YearsInit
    /\ runs = scene.runs
    /\ groups = [y \in Years |-> IF status[y] = "ACTIVE" THEN scene.orders ELSE {}]
    /\ row = [y \in Years |-> [s \in Students |->
                IF status[y] = "ACTIVE"
                THEN [class |-> scene.classOf[s], active |-> TRUE, user |-> s \in Logins]
                ELSE NoRow]]

-----------------------------------------------------------------------------
(* startRun.                                                               *)

\* Mutant: a run in progress does not stop another one.
BusyIgnored == FALSE

\* findInProgressRun.
Busy == \E r \in RunIds : runs[r] # NoRun /\ runs[r].phase \in InProgress

\* getPreconditions.  With a run in progress the handler returns it, or 409.
StartRead(p, source, target, new, partial) ==
    /\ Begin(p, "start")
    /\ status[source] = "ACTIVE" /\ ~Busy
    /\ Goto(p, IF new THEN "newTarget" ELSE "target",
            [source |-> source, target |-> target, carry |-> Merged(DefaultCarry, partial)])
    /\ UNCHANGED <<status, promotion>>

\* The target is a given year, which must be under construction, ...
StartTarget(p) ==
    /\ pc[p] = "target"
    /\ IF status[loc[p].target] = "BUILD_STAGE" /\ loc[p].target # loc[p].source
       THEN Goto(p, "pair", loc[p]) ELSE Finish(p)
    /\ UNCHANGED <<status, calls, promotion>>

\* ... or the year of a calendar, created unless the unique index finds it there.
StartNewTarget(p) ==
    /\ pc[p] = "newTarget"
    /\ LET y == loc[p].target
       IN CASE status[y] = "none" ->
                 status' = [status EXCEPT ![y] = "BUILD_STAGE"] /\ Goto(p, "pair", loc[p])
            [] status[y] = "BUILD_STAGE" -> Goto(p, "pair", loc[p]) /\ UNCHANGED status
            [] OTHER -> Finish(p) /\ UNCHANGED status
    /\ UNCHANGED <<calls, promotion>>

\* A run of the same two years that is not over is returned instead of a new one.
StartPair(p) ==
    /\ pc[p] = "pair"
    /\ IF \E r \in RunIds : /\ runs[r] # NoRun /\ runs[r].phase \in InProgress
                            /\ runs[r].source = loc[p].source /\ runs[r].target = loc[p].target
       THEN Finish(p) ELSE Goto(p, "insert", loc[p])
    /\ UNCHANGED <<status, calls, promotion>>

\* The foreign keys refuse a run of a year that was deleted meanwhile.
StartInsert(p, r) ==
    /\ pc[p] = "insert" /\ runs[r] = NoRun
    /\ status[loc[p].source] \in Live /\ status[loc[p].target] \in Live
    /\ runs' = [runs EXCEPT ![r] =
                  [source |-> loc[p].source, target |-> loc[p].target, phase |-> "DRAFT",
                   carry |-> loc[p].carry, snapshot |-> "none"]]
    /\ Finish(p) /\ UNCHANGED <<status, calls, groups, row>>

-----------------------------------------------------------------------------
(* The steps of a run.  Each begins with getRun, outside the transaction.  *)

Exists(r) == runs[r] # NoRun /\ runs[r].phase # "deleted"

\* updateCarryOptions: the phase is read here and not looked at again.
CarryRead(p, r, partial) ==
    /\ Begin(p, "carry")
    /\ Exists(r) /\ runs[r].phase = "DRAFT"
    /\ ValidCarry(Merged(runs[r].carry, partial))
    /\ Goto(p, "carry", [run |-> r, read |-> [runs[r] EXCEPT !.carry = Merged(@, partial)]])
    /\ UNCHANGED <<status, promotion>>

CarryWrite(p) ==
    /\ pc[p] = "carry" /\ Exists(loc[p].run)
    /\ runs' = [runs EXCEPT ![loc[p].run].carry = loc[p].read.carry]
    /\ Finish(p) /\ UNCHANGED <<status, calls, groups, row>>

StepRead(p, h, r) ==
    /\ Begin(p, h)
    /\ Exists(r)
    /\ h = "apply" => ValidCarry(runs[r].carry)
    /\ Goto(p, h, [run |-> r, read |-> runs[r]])
    /\ UNCHANGED <<status, promotion>>

\* Mutant: the row is locked and its phase not checked.
PhaseUnchecked(r, phase) == Exists(r)

\* lockAndValidateRun: the transaction has the run's row, in this phase.
LockedIn(r, phase) == Exists(r) /\ runs[r].phase = phase

Snapshot(p) ==
    /\ pc[p] = "snapshot" /\ LockedIn(loc[p].run, "DRAFT")
    /\ runs' = [runs EXCEPT ![loc[p].run].phase = "SNAPSHOT_DONE",
                            ![loc[p].run].snapshot = "IN_PROGRESS"]
    /\ Finish(p) /\ UNCHANGED <<status, calls, groups, row>>

-----------------------------------------------------------------------------
(* applyCarry.                                                             *)

IsTop(n, orders) == \A m \in orders : m <= n

\* The students that the transaction reads: active in the source year.
Promotable(source, s) == row[source][s] # NoRow /\ row[source][s].active

\* Mutant: the new row is made and the old one keeps the userId.
SourceKeepsLogin(source, s) == row[source][s]

\* The row of s in the source year afterwards: it gives up its userId, and a
\* student of the highest class is graduated.
LeftBehind(source, s) ==
    IF Promotable(source, s)
    THEN [row[source][s] EXCEPT
            !.user = FALSE,
            !.active = row[source][s].class = NoClass \/ ~IsTop(row[source][s].class, groups[source])]
    ELSE row[source][s]

\* Mutant: the students are read after their userId was cleared.
WithoutLogin(source, s) ==
    IF Promotable(source, s) /\ row[source][s].class + 1 \in groups[source]
    THEN [row[source][s] EXCEPT !.class = @ + 1, !.user = FALSE] ELSE NoRow

\* The row of s in the target year: one class up, with the userId the old row had.
\* Without a class of that order, or in no class, the student is skipped.
MovedUp(source, s) ==
    LET next == row[source][s].class + 1
    IN IF Promotable(source, s) /\ row[source][s].class # NoClass
          /\ ~IsTop(row[source][s].class, groups[source]) /\ next \in groups[source]
       THEN [class |-> next, active |-> TRUE, user |-> row[source][s].user]
       ELSE NoRow

\* The rows of both years; what the target had is deleted, whoever is to be carried.
CarriedRows(source, target, carry) ==
    [y \in Years |-> [s \in Students |->
        CASE y = target -> IF carry["students"] THEN MovedUp(source, s) ELSE NoRow
          [] y = source /\ carry["students"] -> LeftBehind(source, s)
          [] OTHER -> row[y][s]]]

\* The options are those that were read before the lock was taken.  A source year
\* without groups is refused; so is a run of a year into itself, its groups deleted.
Apply(p) ==
    LET r == loc[p].run
        source == runs[r].source
        target == runs[r].target
        carry == loc[p].read.carry
    IN /\ pc[p] = "apply" /\ LockedIn(r, "SNAPSHOT_DONE")
       /\ groups[source] # {} /\ source # target
       /\ row' = CarriedRows(source, target, carry)
       /\ groups' = [groups EXCEPT ![target] = IF carry["classes"] THEN groups[source] ELSE {}]
       /\ runs' = [runs EXCEPT ![r].phase = "APPLIED"]
       /\ Finish(p) /\ UNCHANGED <<status, calls>>

\* publish: whatever the years' statuses are by now; the snapshot is the one that
\* was there when the run was read.
Promote(p) ==
    LET r == loc[p].run
    IN /\ pc[p] = "promote" /\ LockedIn(r, "APPLIED")
       /\ status' = [status EXCEPT ![runs[r].source] = "ARCHIVED", ![runs[r].target] = "ACTIVE"]
       /\ runs' = [runs EXCEPT ![r].phase = "PUBLISHED",
                               ![r].snapshot = IF loc[p].read.snapshot = "none" THEN @ ELSE "COMPLETED"]
       /\ Finish(p) /\ UNCHANGED <<calls, groups, row>>

\* Mutant: no cascade.
DeleteAlone(p) == DeleteWrite(p) /\ UNCHANGED promotion

\* Deleting a year deletes its students, its groups and its runs.
DeleteCascades(p) ==
    LET y == loc[p].year
    IN /\ DeleteWrite(p)
       /\ runs' = [r \in RunIds |->
                     IF runs[r] # NoRun /\ y \in {runs[r].source, runs[r].target}
                     THEN [runs[r] EXCEPT !.phase = "deleted"] ELSE runs[r]]
       /\ groups' = [groups EXCEPT ![y] = {}]
       /\ row' = [row EXCEPT ![y] = [s \in Students |-> NoRow]]

-----------------------------------------------------------------------------

Start(p) ==
    \/ \E source, target \in Years, new \in BOOLEAN, partial \in Partial :
         StartRead(p, source, target, new, partial)
    \/ StartTarget(p) \/ StartNewTarget(p) \/ StartPair(p)
    \/ \E r \in RunIds : StartInsert(p, r)

Wizard(p) ==
    \/ \E r \in RunIds, partial \in Partial : CarryRead(p, r, partial)
    \/ \E r \in RunIds, h \in {"snapshot", "apply", "promote"} : StepRead(p, h, r)
    \/ CarryWrite(p) \/ Snapshot(p) \/ Apply(p) \/ Promote(p)

Next == \E p \in Requests :
    \/ YearStep(p) /\ UNCHANGED promotion
    \/ DeleteCascades(p) \/ Start(p) \/ Wizard(p)

Spec == Init /\ [][Next]_vars

-----------------------------------------------------------------------------
(* Properties.                                                             *)

\* The years that a run and a student's row refer to exist.
References ==
    /\ \A r \in RunIds : Exists(r) => status[runs[r].source] \in Live /\ status[runs[r].target] \in Live
    /\ \A y \in Years, s \in Students : row[y][s] # NoRow => status[y] \in Live

\* The tables have their types and refer to years that exist.
TypeOK ==
    /\ status \in [Years -> Statuses]
    /\ runs \in [RunIds -> Run \cup {NoRun}]
    /\ groups \in [Years -> SUBSET (Nat \ {NoClass})]
    /\ row \in [Years -> [Students -> Row \cup {NoRow}]]
    /\ References

Alone == \A p, q \in scene.staff : p = q

\* Exactly one ACTIVE per branch (the schema's words), as far as "at most one".
OneActivePerBranch == \A y, z \in Years : status[y] = "ACTIVE" /\ status[z] = "ACTIVE" => y = z

OneUnderConstruction(st) ==
    \A y, z \in Years : st[y] = "BUILD_STAGE" /\ st[z] = "BUILD_STAGE" => y = z

\* The years keep one ACTIVE and one BUILD_STAGE under requests that come one at
\* a time, when none is resumed, imported, or published or created by a promotion.
OneOfEach ==
    /\ Alone /\ scene.handlers \cap {"import", "resume", "start", "promote"} = {}
    /\ OneUnderConstruction(scene.status)
    => OneActivePerBranch /\ OneUnderConstruction(status)

\* What may become of a run in one step.
RunForward(r) == Exists(r) =>
    /\ runs'[r].source = runs[r].source /\ runs'[r].target = runs[r].target
    /\ runs'[r].phase # runs[r].phase =>
         <<runs[r].phase, runs'[r].phase>> \in
           {<<"DRAFT", "SNAPSHOT_DONE">>, <<"SNAPSHOT_DONE", "APPLIED">>, <<"APPLIED", "PUBLISHED">>}
           \cup {<<ph, "deleted">> : ph \in Phases}

\* The phases of a run are passed through one by one, whatever runs at the same
\* time, and a run keeps its years: nothing is applied or published twice.
PhasesForward == [][\A r \in RunIds : RunForward(r)]_vars

HasLogin(y, s) == row[y][s] # NoRow /\ row[y][s].user

\* A user account is linked to one row at a time: the unique index on userId never
\* refuses a promotion, whatever runs at the same time.
OneLogin == \A s \in Students, y, z \in Years : HasLogin(y, s) /\ HasLogin(z, s) => y = z

\* The wizard, with nothing but its own steps: one request at a time, or one run,
\* which was drafted from the active year into the one under construction.
WizardOnly ==
    /\ scene.handlers \subseteq {"start", "carry", "snapshot", "apply", "promote"}
    /\ "start" \in scene.handlers => Alone
    /\ \E y \in Years : scene.status[y] = "ACTIVE"
    /\ \A r \in RunIds : scene.runs[r] # NoRun =>
         /\ scene.runs[r].phase = "DRAFT"
         /\ scene.status[scene.runs[r].source] = "ACTIVE"
         /\ scene.status[scene.runs[r].target] = "BUILD_STAGE"
         /\ \A q \in RunIds : scene.runs[q] # NoRun => q = r
\* Every grade between the lowest and the highest has a class, and everyone is in one.
NoGaps == /\ \A m, n \in scene.orders : m < n => m + 1 \in scene.orders
          /\ \A s \in Students : scene.classOf[s] \in scene.orders

\* Promoted students keep their login and graduates lose it, nobody else does, over
\* any number of promotions.
NobodyLost ==
    WizardOnly /\ NoGaps =>
      \A s \in Logins : \/ \E y \in Years : HasLogin(y, s) /\ row[y][s].active
                        \/ \E y \in Years : row[y][s] # NoRow /\ ~row[y][s].active

\* The student has a row in the new year of run r, which was applied.
CarriedBy(r, s) ==
    Exists(r) /\ runs[r].phase \in {"APPLIED", "PUBLISHED"} /\ row[runs[r].target][s] # NoRow

\* A student who was carried is one class higher in the new year, in a class it
\* has, and signs in there; and no other run carries the student out of that year.
MovedUpOnce ==
    WizardOnly => \A r \in RunIds, s \in Students : CarriedBy(r, s) =>
      LET old == row[runs[r].source][s]
          new == row[runs[r].target][s]
      IN /\ old # NoRow /\ ~old.user
         /\ new.class = old.class + 1 /\ new.class \in groups[runs[r].target]
         /\ \A q \in RunIds : CarriedBy(q, s) /\ runs[q].source = runs[r].source => q = r

\* No student is lost by a run or moved up twice, and requests that come one at a time keep
\* one active year and one in its build stage.
StudentsSound == OneOfEach /\ NobodyLost /\ MovedUpOnce
=============================================================================
