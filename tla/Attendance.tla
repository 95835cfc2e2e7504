------------------------------ MODULE Attendance ------------------------------
(***************************************************************************)
(* Attendance of students and employees.  A batch names a calendar day;     *)
(* what is stored is the UTC day of the instant the handler makes of it:    *)
(* the office takes UTC midnight, a class teacher's portal and the payroll  *)
(* take midnight by the clock of the server, which may be east or west of   *)
(* Greenwich.  A batch checks once and then writes its rows one by one; an  *)
(* absence the office marks is told to the student by a job of its own.     *)
(*                                                                         *)
(* Instants are counted in quarters of a day, so that noon by the server's  *)
(* clock is no midnight of either kind.                                     *)
(***************************************************************************)
EXTENDS Handlers

CONSTANTS Kids, Staffers, LastDay

Days == 0..LastDay
AttendanceAssumption ==
    /\ LastDay \in Nat /\ Kids \cap Staffers = {}
    /\ \A sc \in Scenes : sc.part = "attendance" =>
          sc.offset \in -1..1 /\ sc.today \in 1..LastDay - 1 /\ sc.year \in [first : Days, last : Days]

Statuses == {"present", "absent"}
Notices == [who : Kids \cup Staffers, day : Days, status : Statuses]
\* mark: the rows by person and stored day, with the day that was meant and who marked it;
\* enrolled: who is ACTIVE in the class; tenures: of each employee, first and last instant;
\* notices: what was told, through the outbox or as a message; jobs: tellings under way;
\* dropped: whether one was lost;
\* earned: the days and marks that the last payroll of the month counted.
AttendanceTables ==
    [mark : [Kids \cup Staffers ->
                [Days -> [status : Statuses, meant : Days, by : {"office", "teacher"}] \cup {Nothing}]],
     enrolled : SUBSET Kids,
     tenures : [Staffers -> Seq([from : Int, to : Int \cup {Nothing}])],
     notices : SUBSET Notices, jobs : SUBSET Notices, dropped : BOOLEAN,
     earned : [Staffers -> SUBSET [day : Days, meant : Days]]]

-----------------------------------------------------------------------------
(* Days and instants                                                       *)

\* Mutant: the office reads a date by the server's clock too.
UtcMidnightLocal(d) == 4 * d - scene.offset
UtcMidnight(d) == 4 * d                         \* new Date('YYYY-MM-DD')
LocalMidnight(d) == 4 * d - scene.offset        \* new Date(`${date}T00:00:00`), new Date(y, m, d)
Noon == LocalMidnight(scene.today) + 2          \* new Date(), at any time that is no UTC midnight
Stored(t) == t \div 4                           \* a column @db.Date
LocalDay(t) == (t + scene.offset) \div 4
EndOfDay(t) == LocalMidnight(LocalDay(t) + 1)   \* setHours(23, 59, 59, 999), and a little

\* calendarDayKey: a date-only value keeps its UTC day.
CalendarDayKey(t) == IF t % 4 = 0 THEN t \div 4 ELSE LocalDay(t)

\* Mutant: the future is not looked at.
ValidDateAhead(t) == UtcMidnight(scene.year.first) <= t /\ t < EndOfDay(UtcMidnight(scene.year.last))
\* validateAttendanceDate: not ahead of today, within the academic year.
ValidDate(t) ==
    /\ t < EndOfDay(Noon)
    /\ UtcMidnight(scene.year.first) <= t /\ t < EndOfDay(UtcMidnight(scene.year.last))

\* Mutant: the last day of a tenure is not looked at.
InTenureOpen(u, t) ==
    \E i \in DOMAIN db.tenures[u] : CalendarDayKey(db.tenures[u][i].from) <= CalendarDayKey(t)
\* dateInTenure: the day lies between the days of joining and leaving of some tenure.
InTenure(u, t) ==
    \E i \in DOMAIN db.tenures[u] :
        LET n == db.tenures[u][i] IN
        /\ CalendarDayKey(n.from) <= CalendarDayKey(t)
        /\ n.to # Nothing => CalendarDayKey(t) <= CalendarDayKey(n.to)
\* validateEmployeeAttendanceDate: who has no tenure goes by the joining date of the profile.
ValidFor(u, t) ==
    /\ ValidDate(t)
    /\ IF db.tenures[u] # <<>> THEN InTenure(u, t)
       ELSE scene.joined[u] = Nothing \/ CalendarDayKey(scene.joined[u]) <= CalendarDayKey(t)

-----------------------------------------------------------------------------
(* Batches                                                                 *)

Records(p) == Call(p).records
Named(p) == {Records(p)[i].who : i \in DOMAIN Records(p)}
Batch(t) == [date |-> t, k |-> 1]
Notified(status) == status = "absent"
Notice(p, r) == [who |-> r.who, day |-> Stored(loc[p].date), status |-> r.status]
\* Mutant: only the last record of a batch is told.
ToldAtEnd(p, r, tables) ==
    [tables EXCEPT !.jobs = IF Notified(r.status) /\ loc[p].k = Len(Records(p))
                            THEN @ \cup {Notice(p, r)} ELSE @]
\* The row, and a job that nobody waits for.
Told(p, r, tables) ==
    [tables EXCEPT !.jobs = IF Notified(r.status) THEN @ \cup {Notice(p, r)} ELSE @]

\* The next record, from step n, or the answer.
NextRecord(p, n, tables) ==
    IF loc[p].k = Len(Records(p)) THEN Commit(p, tables)
    ELSE /\ db' = tables /\ pc' = [pc EXCEPT ![p] = n] /\ loc' = [loc EXCEPT ![p].k = @ + 1]
         /\ UNCHANGED <<calls, scene>>
\* The upsert of one row; a statement may fail and leave the rest of the batch undone.
Upsert(p, by) ==
    LET r == Records(p)[loc[p].k] IN
    [db EXCEPT !.mark[r.who][Stored(loc[p].date)] = [status |-> r.status, meant |-> Call(p).day, by |-> by]]
GivesUp(p) == scene.fails /\ Refuse(p)

\* POST /attendance/batch
OfficeCheck(p) ==
    /\ At(p, "class", 0)
    /\ LET t == UtcMidnight(Call(p).day) IN
       IF ValidDate(t) /\ Named(p) \subseteq db.enrolled THEN ReadTo(p, 1, Batch(t)) ELSE Refuse(p)
OfficeRow(p) ==
    /\ At(p, "class", 1)
    /\ NextRecord(p, 1, Told(p, Records(p)[loc[p].k], Upsert(p, "office"))) \/ GivesUp(p)

\* queueAttendanceStatusNotification, notifyTeacherAttendanceStatus: once for a person, a day
\* and a status, under the event's lock; a failure is caught and forgotten.
Tell ==
    /\ \E j \in db.jobs :
          \/ db' = [db EXCEPT !.jobs = @ \ {j}, !.notices = @ \cup {j}]
          \/ scene.fails /\ db' = [db EXCEPT !.jobs = @ \ {j}, !.dropped = TRUE]
    /\ UNCHANGED <<calls, pc, loc, scene>>

\* POST /attendance/notify: whoever has no row yet gets one.
NotifyCheck(p) ==
    /\ At(p, "notify", 0)
    /\ IF Named(p) \subseteq db.enrolled THEN ReadTo(p, 1, Batch(UtcMidnight(Call(p).day))) ELSE Refuse(p)
Notify(p) ==
    LET r == Records(p)[loc[p].k] IN
    \/ /\ At(p, "notify", 1)
       /\ IF Notified(r.status) /\ Notice(p, r) \notin db.notices THEN ReadTo(p, 2, loc[p])
          ELSE NextRecord(p, 1, db)
    \/ /\ At(p, "notify", 2)
       /\ \/ NextRecord(p, 1, [db EXCEPT !.notices = @ \cup {Notice(p, r)}])
          \/ GivesUp(p)

\* saveGroupAttendanceBatch: today only, never on a Sunday; nobody is told.
TeacherCheck(p) ==
    /\ At(p, "portal", 0)
    /\ LET d == Call(p).day   t == LocalMidnight(d) IN
       IF d = scene.today /\ d \notin scene.sundays /\ ValidDate(t) /\ Named(p) \subseteq db.enrolled
       THEN ReadTo(p, 1, Batch(t)) ELSE Refuse(p)
TeacherRow(p) == At(p, "portal", 1) /\ (NextRecord(p, 1, Upsert(p, "teacher")) \/ GivesUp(p))

\* POST /attendance/teachers/batch, /attendance/staff/batch: everybody is active, then the
\* tenures are read one employee after the other.
EmployeeBatch(p, n) == At(p, "staff", n) \/ At(p, "teachers", n)
StaffCheck(p) ==
    /\ EmployeeBatch(p, 0)
    /\ LET t == UtcMidnight(Call(p).day) IN
       IF ValidDate(t) /\ Named(p) \subseteq scene.active THEN ReadTo(p, 1, Batch(t)) ELSE Refuse(p)
StaffTenure(p) ==
    /\ EmployeeBatch(p, 1)
    /\ IF ~ValidFor(Records(p)[loc[p].k].who, loc[p].date) THEN Refuse(p)
       ELSE IF loc[p].k = Len(Records(p)) THEN ReadTo(p, 2, Batch(loc[p].date))
       ELSE ReadTo(p, 1, [loc[p] EXCEPT !.k = @ + 1])
\* A teacher is told; other staff have no chat that tells them.
StaffRow(p) ==
    LET r == Records(p)[loc[p].k]   marked == Upsert(p, "office") IN
    \/ At(p, "staff", 2) /\ NextRecord(p, 2, marked)
    \/ At(p, "teachers", 2) /\ NextRecord(p, 2, Told(p, r, marked))
    \/ EmployeeBatch(p, 2) /\ GivesUp(p)

-----------------------------------------------------------------------------
(* Who is there, meanwhile, and what a month is worth                       *)

Withdraw(p) == At(p, "withdraw", 0) /\ Commit(p, [db EXCEPT !.enrolled = @ \ {Call(p).kid}])

Open(u) == {i \in DOMAIN db.tenures[u] : db.tenures[u][i].to = Nothing}
LeaveNow(p) ==
    LET u == Call(p).user IN
    \/ At(p, "leave", 0) /\ IF Open(u) = {} THEN Refuse(p) ELSE ReadTo(p, 1, CHOOSE i \in Open(u) : TRUE)
    \/ At(p, "leave", 1) /\ Commit(p, [db EXCEPT !.tenures[u][loc[p]].to = Noon])
JoinNow(p) ==
    LET u == Call(p).user IN
    \/ At(p, "join", 0) /\ IF Open(u) # {} THEN Refuse(p) ELSE ReadTo(p, 1, Len(db.tenures[u]))
    \/ At(p, "join", 1) /\ IF Len(db.tenures[u]) > loc[p] THEN Refuse(p)
                           ELSE Commit(p, [db EXCEPT !.tenures[u] = Append(@, [from |-> Noon, to |-> Nothing])])

\* Mutant: a day's mark is looked up by the UTC day on which the day ends.
CountedAtEnd(u) ==
    {[day |-> d, meant |-> db.mark[u][Stored(EndOfDay(LocalMidnight(d)))].meant] :
        d \in {e \in scene.month : /\ ValidFor(u, LocalMidnight(e))
                                   /\ db.mark[u][Stored(EndOfDay(LocalMidnight(e)))] # Nothing}}
\* computePayrollMonth, day by day: the cursor is local midnight, the mark is looked up by
\* its UTC day.
Counted(u) ==
    {[day |-> d, meant |-> db.mark[u][Stored(LocalMidnight(d))].meant] :
        d \in {e \in scene.month : /\ ValidFor(u, LocalMidnight(e))
                                   /\ db.mark[u][Stored(LocalMidnight(e))] # Nothing}}
Pay(p) == At(p, "pay", 0) /\ Commit(p, [db EXCEPT !.earned[Call(p).user] = Counted(Call(p).user)])

Init == HandlersInit
Next ==
    \/ \E p \in Procs :
          \/ OfficeCheck(p) \/ OfficeRow(p) \/ NotifyCheck(p) \/ Notify(p)
          \/ TeacherCheck(p) \/ TeacherRow(p) \/ StaffCheck(p) \/ StaffTenure(p) \/ StaffRow(p)
          \/ Withdraw(p) \/ LeaveNow(p) \/ JoinNow(p) \/ Pay(p)
    \/ Tell
    \/ Rest

Spec == Init /\ [][Next]_handlerVars

-----------------------------------------------------------------------------
(* Properties                                                              *)

TypeOK == HandlersTypeOK /\ db \in AttendanceTables

Marks(people) == {<<u, d>> \in people \X Days : db.mark[u][d] # Nothing}
\* Every row stands under the day that whoever marked it named, whichever of the handlers
\* wrote it and wherever the server's clock stands: "Teachers may only save attendance for
\* today" (teacher-attendance.guard.ts).
DayIsMeant == \A m \in Marks(Kids \cup Staffers) : db.mark[m[1]][m[2]].meant = m[2]

\* Nobody is marked for a day that has not come (validateAttendanceDate).
NotAhead == \A m \in Marks(Kids \cup Staffers) : db.mark[m[1]][m[2]].meant <= scene.today

\* A mark of an employee with tenures lies in one of them, however leaving and coming back
\* interleave with the batch that has read them (validateEmployeeAttendanceDate).
MarkedInTenure ==
    \A m \in Marks({u \in Staffers : db.tenures[u] # <<>>}) :
        \E i \in DOMAIN db.tenures[m[1]] :
            LET n == db.tenures[m[1]][i] IN
            LocalDay(n.from) <= m[2] /\ (n.to # Nothing => m[2] <= LocalDay(n.to))

\* A day of the month is paid by the mark that was made for it.
PaidForItsDays == \A u \in Staffers : \A c \in db.earned[u] : c.day = c.meant

\* When everything has been answered and no telling was lost, the outbox has every absence
\* that stands as the office marked it, those of a batch that failed half way included.
AbsenceIsTold ==
    Quiet /\ db.jobs = {} /\ ~db.dropped =>
        \A m \in Marks(Kids) :
            LET a == db.mark[m[1]][m[2]] IN
            a.by = "office" /\ a.status = "absent" => [who |-> m[1], day |-> m[2], status |-> a.status] \in db.notices
=============================================================================
