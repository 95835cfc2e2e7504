------------------------------- MODULE MCSchool -------------------------------
(* The parts of the school's office and of its chat side by side, each in     *)
(* scenes of its own; `area' says which one a behaviour runs.                *)
EXTENDS MCCounter, Credentials, Admissions, BranchStaff, Payroll

Kinds3 == (O1 :> "student" @@ O2 :> "teacher" @@ O3 :> "staff")
Exams == {N1, N2}   Subjects == {C1, C2}   Pupils == {1, 2, 3}   Weight == (N1 :> Nothing @@ N2 :> 3)
Exam == INSTANCE ExamResults
Stores == {"tcp", "rest"}   Tokens == {K1, K2}   MaxFailed == 2
Sess == INSTANCE Sessions
ASSUME Sess!MaxFailedAssumption
ASSUME Exam!WeightAssumption
Kids == {U1, U2}   Heads == {N1, N2}   OneTimeHeads == {N2}   Homes == {C1, C2}   Forms == {1, 2}   Terms == {1, 2, 3}
Plans == INSTANCE FeePlans
ASSUME Plans!OrderAssumption
Staffers == {U3}   LastDay == 4
Att == INSTANCE Attendance
ASSUME Att!AttendanceAssumption

-----------------------------------------------------------------------------
(* The branch's staff                                                      *)

Adm(email) == [role |-> "management", active |-> TRUE, email |-> email, profile |-> TRUE]
Tea == [role |-> "teacher", active |-> TRUE, email |-> Nothing, profile |-> TRUE]
Sits(role) == [role |-> role, active |-> TRUE]
StaffEmpty ==
    [user |-> [u \in Employees |-> Nothing], seat |-> [u \in Employees |-> Nothing],
     tenures |-> [u \in Employees |-> <<>>], lessons |-> {}, leads |-> {},
     invite |-> [i \in Invitations |-> Nothing], history |-> {}, gone |-> {}, moved |-> {}]
\* U1 administers, U2 and U3 teach a class.
StaffFull ==
    [StaffEmpty EXCEPT !.user = (U1 :> Adm(M1) @@ U2 :> Tea @@ U3 :> Tea),
        !.seat = (U1 :> Sits("branch_admin") @@ U2 :> Sits("teacher") @@ U3 :> Nothing),
        !.tenures = (U1 :> <<>> @@ U2 :> <<"open">> @@ U3 :> <<>>),
        !.lessons = {U2}, !.leads = {U2}]
S(part, tables, cs) == [part |-> part, db |-> tables, calls |-> cs, fails |-> TRUE]
Two(part, tables, as, bs) == {S(part, tables, (P1 :> a @@ P2 :> b)) : a \in as, b \in bs}
C(o, u) == [op |-> o, user |-> u]
Hire(u, e) == [op |-> "hire", user |-> u, email |-> e]
Mail(u, e) == [op |-> "edit", user |-> u, email |-> e]
Role(u, r) == [op |-> "role", user |-> u, role |-> r]
Turn(o, u, b) == [op |-> o, user |-> u, on |-> b]
Give(u, b) == [op |-> "assign", user |-> u, lead |-> b]
Ask(i) == [op |-> "invite", invitation |-> i, email |-> M2]
Reg(i, u) == [op |-> "register", invitation |-> i, user |-> u]

StaffScenes ==
    Two("staff", StaffEmpty, {<<Ask(I1), Reg(I1, U1)>>}, {<<Ask(I2), Reg(I2, U2)>>, <<Ask(I2), Reg(I1, U2)>>,
                                                         <<Hire(U2, M2)>>, <<C("work", U2), C("leave", U2), C("join", U2)>>})
    \cup Two("staff", StaffFull,
             {<<C("leave", U2), C("join", U2)>>, <<C("leave", U2), C("join", U2), C("leave", U2)>>},
             {<<C("join", U2), C("join", U2)>>, <<C("fire", U2)>>, <<Turn("turn", U2, FALSE)>>})
    \cup Two("staff", StaffFull,
             {<<C("sync", U1)>>, <<Give(U3, TRUE)>>, <<C("lead", U2)>>},
             {<<Turn("turnTeacher", U2, FALSE), Turn("turnTeacher", U2, TRUE)>>, <<C("unassign", U2), C("dismiss", U2)>>, <<C("dismiss", U3)>>})
    \cup Two("staff", StaffFull,
             {<<[op |-> "resign", user |-> U1, heir |-> U2]>>, <<C("remove", U1)>>},
             {<<Role(U2, "branch_admin")>>, <<[op |-> "add", user |-> U3, role |-> "teacher"]>>, <<C("remove", U2), [op |-> "promote", user |-> U2, role |-> "branch_admin"]>>})
    \cup Two("staff", StaffEmpty,
             {<<C("teacher", U1), Turn("turn", U1, FALSE)>>},
             {<<C("teacher", U1)>>, <<[op |-> "promote", user |-> U1, role |-> "branch_admin"]>>})
    \cup Two("staff", StaffEmpty,
             {<<Ask(I1), Reg(I1, U1), Mail(U1, M1)>>, <<Ask(I1), Reg(I1, U1), C("fire", U1)>>},
             {<<Ask(I2), Reg(I1, U2)>>, <<Hire(U2, M1), Mail(U2, M2)>>})
    \cup Two("staff", StaffEmpty, {<<Ask(I1), Reg(I1, U1), Mail(U1, Nothing)>>},
             {<<Hire(U2, Nothing), Mail(U2, M2)>>, <<Ask(I2), Reg(I1, U2)>>})
    \cup Two("staff", [StaffFull EXCEPT !.history = {U2, U3}], {<<C("fire", U2)>>}, {<<C("dismiss", U3)>>})
\* The teacher U2 is made the administrator and keeps the class; then teachers are listed.
TeachingAdmin ==
    Two("staff", [StaffFull EXCEPT !.seat[U1] = Sits("management")],
        {<<Role(U2, "branch_admin")>>}, {<<>>, <<C("sync", U1)>>})

-----------------------------------------------------------------------------
(* Admissions                                                              *)

NoStudents ==
    [student |-> <<>>, gone |-> {}, person |-> {}, next |-> 1, answers |-> {},
     log |-> [s \in 1..MaxStudents |-> <<>>], attended |-> {}, billed |-> {},
     stays |-> [s \in 1..MaxStudents |-> <<>>], moves |-> [s \in 1..MaxStudents |-> 0]]
\* One student, whose admission number was typed in and lies ahead of the sequence.
OneStudent ==
    [NoStudents EXCEPT !.student = <<[key |-> Nothing, name |-> N1, klass |-> C1, number |-> 1, roll |-> 1,
                                     status |-> "ACTIVE", kin |-> {N2}, links |-> 1]>>, !.person = {1}]
Put(k, n, c, g) == [op |-> "admit", key |-> k, name |-> n, klass |-> c, guardian |-> g]
B(o, s) == [op |-> o, student |-> s]
Status(s, t) == [op |-> "status", student |-> s, to |-> t]
Move(s, c) == [op |-> "move", student |-> s, klass |-> c]
A(slow, tables, as, bs) ==
    {[part |-> "admissions", db |-> tables, calls |-> (P1 :> a @@ P2 :> b), fails |-> TRUE, slow |-> slow] :
        a \in as, b \in bs}
AdmissionScenes ==
    A(FALSE, NoStudents, {<<Put(K1, N1, C1, N2)>>, <<Put(K1, N1, C1, N2), Put(K1, N1, C1, N2)>>},
      {<<Put(K1, N1, C1, N2)>>, <<Put(K2, N2, C1, Nothing)>>, <<Put(Nothing, N1, C1, N2)>>})
    \cup A(TRUE, OneStudent, {<<Put(K1, N1, C1, Nothing)>>, <<Put(K1, N2, C1, Nothing)>>}, {<<B("delete", 1)>>, <<B("attend", 1)>>, <<Status(1, "WITHDRAWN")>>})
    \cup A(FALSE, OneStudent, {<<Status(1, "WITHDRAWN"), Status(1, "ACTIVE")>>, <<B("attend", 1)>>,
                               <<Move(1, C2)>>, <<B("enter", 1), B("depart", 1)>>},
           {<<Status(1, "WITHDRAWN")>>, <<B("delete", 1)>>, <<Move(1, C1)>>, <<B("enter", 1), B("enter", 1)>>})
TwoOfAClass == A(FALSE, NoStudents, {<<Put(K1, N1, C1, Nothing)>>}, {<<Put(K2, N2, C1, Nothing)>>})

-----------------------------------------------------------------------------
(* Credentials                                                             *)

NoPasswords(n) ==
    [logins |-> [o \in Owners |-> n], hash |-> [o \in Owners |-> Nothing], knowing |-> [o \in Owners |-> FALSE],
     trail |-> [o \in Owners |-> <<>>], lost |-> [o \in Owners |-> FALSE], answers |-> [p \in Procs |-> <<>>]]
W(o, owner, w) == [op |-> o, owner |-> owner, password |-> w, key |-> Nothing]
Save(owner, w, k, r) == [op |-> "save", owner |-> owner, password |-> w, key |-> k, replace |-> r]
CredentialScenes ==
    {[part |-> "credentials", db |-> NoPasswords(IF o = O1 THEN 0 ELSE 1), fails |-> f, calls |-> (P1 :> a @@ P2 :> b)] :
        <<o, a, b, f>> \in UNION {{<<o, first \o a, b, f>> :
            first \in IF o = O1 THEN {<<W("generate", O1, W3)>>} ELSE {<<>>},
            a \in {<<Save(o, W1, K1, FALSE), Save(o, W1, K1, TRUE)>>, <<W("set", o, W1), Save(o, W2, K1, TRUE), W("set", o, W1)>>},
            b \in {<<Save(o, W2, K2, TRUE)>>, <<W("set", o, W2)>>, <<Save(o, W1, K1, FALSE)>>,
                   IF o = O1 THEN <<W("generate", O1, W2)>> ELSE <<>>},
            f \in BOOLEAN} : o \in Owners}}
\* A save whose answer was lost is sent again as it was.
SentAgain ==
    {[part |-> "credentials", db |-> NoPasswords(1), fails |-> FALSE,
      calls |-> (P1 :> <<Save(o, W1, K1, FALSE), Save(o, W1, K1, FALSE)>>)] : o \in Owners}

-----------------------------------------------------------------------------
(* Payroll                                                                 *)

NothingPaid ==
    [active |-> [u \in Payees |-> TRUE], current |-> "this", behind |-> {}, tenure |-> (U1 :> (Months \X {1, 2}) @@ U2 :> {<<1, 2>>, <<2, 1>>}),
     marks |-> {[year |-> "this", payee |-> U1, month |-> 1, day |-> 1, status |-> "present"],
                [year |-> "this", payee |-> U1, month |-> 1, day |-> 2, status |-> "late"],
                [year |-> "last", payee |-> U1, month |-> 1, day |-> 1, status |-> "leave"]},
     paid |-> <<>>, balance |-> [u \in Payees |-> [m \in Months |-> Nothing]], providers |-> {}, runs |-> <<>>,
     told |-> [p \in Procs |-> <<>>]]
Salaries(o, us, m, k) == [op |-> o, users |-> us, month |-> m, amount |-> 5, key |-> k, year |-> "this"]
Spend(n) == [op |-> "spend", provider |-> n, amount |-> 1]
Void(n) == [op |-> "void", number |-> n]
Look(m) == [op |-> "list", month |-> m, year |-> "this"]
MarkOf(u, m, d, s) == [op |-> "mark", mark |-> [year |-> "this", payee |-> u, month |-> m, day |-> d, status |-> s]]
YearIs(y) == [op |-> "year", current |-> y]
Y(alone, as, bs) ==
    {[part |-> "payroll", db |-> NothingPaid, calls |-> (P1 :> a @@ P2 :> b), fails |-> TRUE, alone |-> alone] :
        a \in as, b \in bs}
PayrollScenes ==
    Y(TRUE, {<<Salaries("pay", <<U1>>, 1, K1), Salaries("pay", <<U1>>, 2, Nothing), Void(2)>>,
             <<MarkOf(U1, 1, 1, "late"), Look(1)>>},
      {<<Spend(N1), Spend(N1)>>, <<Spend(Nothing)>>})
    \cup Y(FALSE, {<<Salaries("pay", <<U1>>, 1, K1)>>, <<[Salaries("pay", <<U1>>, 1, K1) EXCEPT !.year = "last"], Look(2)>>},
           {<<Salaries("pay", <<U1>>, 1, K1)>>, <<Void(1), Look(1)>>, <<[op |-> "quit", payee |-> U1]>>, <<Salaries("pay", <<U2>>, 1, Nothing)>>})
    \cup Y(FALSE, {<<Salaries("bulk", <<U1, U2>>, 1, K2)>>},
           {<<Salaries("bulk", <<U1, U2>>, 1, K2), Look(1)>>, <<Salaries("pay", <<U2>>, 2, Nothing)>>, <<[op |-> "quit", payee |-> U2], Salaries("bulk", <<U1>>, 1, K2)>>})
    \cup Y(TRUE, {<<Salaries("bulk", <<U1, U2>>, 1, K2), Void(1), Look(1)>>,
                  <<Salaries("pay", <<U1>>, 1, K1), [op |-> "quit", payee |-> U1], Void(1), [op |-> "rejoin", payee |-> U1],
                    Salaries("bulk", <<U1, U2>>, 2, K1)>>,
                  <<YearIs(Nothing), Salaries("pay", <<U1>>, 1, K1), YearIs("last"), Salaries("pay", <<U1>>, 1, K1)>>,
                  <<Salaries("bulk", <<U1, U2>>, 1, K2), YearIs(Nothing), Void(1), Look(1)>>}, {<<Spend(Nothing)>>})
    \cup Y(FALSE, {<<Salaries("bulk", <<U1, U2>>, 1, K2)>>, <<Salaries("pay", <<U1>>, 1, K1), Void(1)>>},
           {<<YearIs(Nothing), YearIs("this")>>})
    \cup Y(FALSE, {<<Spend(N1)>>}, {<<Spend(N1)>>})
KeyReused == Y(FALSE, {<<Salaries("pay", <<U1>>, 1, K1)>>}, {<<Salaries("pay", <<U2>>, 1, K1)>>})

-----------------------------------------------------------------------------
(* Exams                                                                   *)

NoMarks == [e \in Exams |-> [b \in Subjects |-> [s \in Pupils |-> -2]]]
OneExam ==
    [exam |-> (N1 :> [status |-> "DRAFT", entry |-> TRUE, klass |-> "none"] @@ N2 :> Nothing),
     slot |-> [e \in Exams |-> [b \in Subjects |-> Nothing]], marks |-> NoMarks,
     result |-> [s \in Pupils |-> [b \in Subjects |-> Nothing]], card |-> [s \in Pupils |-> Nothing], now |-> 0]
Slot == [active |-> TRUE, total |-> 10]
\* Two exams, the second active, with marks in it: a tie, and one absent.
Sat ==
    [OneExam EXCEPT !.exam = [e \in Exams |-> [status |-> IF e = N2 THEN "ACTIVE" ELSE "DRAFT", entry |-> e = N1, klass |-> "on"]],
        !.slot = [e \in Exams |-> [b \in Subjects |-> Slot]],
        !.marks[N2] = (C1 :> <<8, 8, -1>> @@ C2 :> <<5, -2, 6>>), !.marks[N1] = (C1 :> <<4, -2, -2>> @@ C2 :> <<-2, -2, -2>>)]
E(o, e) == [op |-> o, exam |-> e, on |-> FALSE]
Sub(o, e, b) == [op |-> o, exam |-> e, subject |-> b, on |-> FALSE, pupil |-> 1]
Marks(e, b, total, entries, teacher) ==
    [op |-> "marks", exam |-> e, subject |-> b, total |-> total, entries |-> entries, teacher |-> teacher]
Stat(e, s, b) == [op |-> "status", exam |-> e, status |-> s, entry |-> b]
Comp(o, b, s) == [op |-> o, subject |-> b, pupil |-> s]
X(exams, enter, tables, as, bs) ==
    {[part |-> "exams", db |-> tables, calls |-> (P1 :> a @@ P2 :> b), fails |-> TRUE, exams |-> exams, teachersEnter |-> enter] :
        a \in as, b \in bs}
ExamScenes ==
    X("move", TRUE, OneExam, {<<[op |-> "structure", exam |-> N1, subjects |-> {C1}], Stat(N1, "ACTIVE", FALSE)>>},
      {<<E("delete", N1)>>, <<Marks(N1, C1, 5, 1 :> 4 @@ 2 :> -1, TRUE)>>, <<E("toggleClass", N1), E("toggleClass", N1)>>})
    \cup X("move", TRUE, Sat, {<<Marks(N1, C2, Nothing, 1 :> 9 @@ 2 :> 3, TRUE)>>, <<Stat(N1, "ACTIVE", FALSE), Comp("computeSession", C1, 1)>>},
           {<<Sub("toggleSubject", N1, C2)>>, <<Sub("unmark", N1, C1), E("toggleClass", N1)>>, <<Marks(N1, C2, 20, 1 :> 15, FALSE)>>,
            <<Stat(N2, "DRAFT", TRUE), Stat(N2, "DRAFT", TRUE)>>})
    \cup X("still", FALSE, Sat,
           {<<Comp("computeSession", C1, 1), Comp("cardClass", C1, 1), Comp("publish", C1, 1)>>,
            <<Comp("computeClass", C1, 1), Comp("cardClass", C1, 1), Comp("publish", C1, 1)>>},
           {<<Comp("computeOne", C2, 1), Comp("cardOne", C2, 1)>>, <<Marks(N1, C2, Nothing, 1 :> 2, TRUE), Comp("publish", C1, 3)>>, <<>>})
CardThenMarks ==
    X("still", TRUE, Sat, {<<Comp("computeOne", C1, 1), Comp("computeOne", C2, 1), Comp("cardOne", C1, 1),
                             Stat(N2, "DRAFT", FALSE), Marks(N2, C1, Nothing, 1 :> 9, FALSE), Stat(N2, "ACTIVE", FALSE),
                             Comp("computeOne", C1, 1), Comp("publish", C1, 1)>>}, {<<>>})

-----------------------------------------------------------------------------
(* Sessions                                                                *)

LoggedOut ==
    [active |-> TRUE, role |-> "student", enrolled |-> TRUE, member |-> FALSE, password |-> "old", fails |-> 0, locked |-> FALSE, remember |-> Nothing,
     issued |-> {}, black |-> [s \in Stores |-> {}], up |-> Stores, ended |-> {}, partly |-> {}, wrong |-> 0]
LoggedIn == [LoggedOut EXCEPT !.issued = {K1}, !.remember = K1]
Login(pw, t) == [op |-> "login", password |-> pw, token |-> t, remember |-> TRUE]
T(o, t) == [op |-> o, token |-> t, new |-> K2]
L(alone, f, tables, as, bs) ==
    {[part |-> "sessions", db |-> tables, calls |-> (P1 :> a @@ P2 :> b), fails |-> f, alone |-> alone] : a \in as, b \in bs}
SessionScenes ==
    L(TRUE, FALSE, LoggedOut, {<<Login("new", K1), Login("new", K1), Login("old", K1), Login("new", K1)>>}, {<<>>})
    \cup L(FALSE, FALSE, LoggedOut, {<<Login("new", K1), Login("old", K1)>>}, {<<Login("new", K2)>>, <<T("request", K1)>>})
    \cup L(FALSE, FALSE, LoggedIn, {<<T("remembered", K1)>>, <<[op |-> "change", password |-> "old"]>>}, {<<Login("old", K2)>>, <<[op |-> "change", password |-> "old"], T("remembered", K1)>>})
    \cup L(FALSE, TRUE, LoggedIn, {<<T("logout", K1), T("request", K1)>>, <<T("refresh", K1), T("request", K1)>>},
           {<<T("request", K1)>>, <<T("refresh", K1), T("request", K2)>>})
    \cup L(FALSE, FALSE, [LoggedIn EXCEPT !.role = "teacher"], {<<T("remembered", K1)>>, <<T("refresh", K1)>>}, {<<Login("old", K2)>>})

-----------------------------------------------------------------------------
(* Fee plans                                                               *)

Row(f, h, a, m) == [form |-> f, head |-> h, amount |-> a, from |-> m, to |-> 0]
\* A pupil in either class, and prices for the lower one only.
Priced ==
    [price |-> <<Row(1, N1, 1, 1), Row(1, N2, 8, 1)>>, logged |-> {}, homeLog |-> <<>>,
     kid |-> [k \in Kids |-> [form |-> IF k = U1 THEN 1 ELSE 2, custom |-> Nothing, over |-> [h \in Heads |-> Nothing]]],
     bill |-> [k \in Kids |-> [m \in Terms |-> Nothing]],
     home |-> [k \in Kids |-> Nothing], open |-> [h \in Homes |-> "none"]]
Price(a, m) == [op |-> "price", row |-> Row(1, N1, a, m)]
Amount(n, a, m) == [op |-> "amount", n |-> n, amount |-> a, from |-> m]
Billing(mode, m, fs, hs) == [op |-> "generate", mode |-> mode, month |-> m, forms |-> fs, heads |-> hs]
Pays(k, m) == [op |-> "pay", kid |-> k, month |-> m]
Own(k, a, o) == [op |-> "custom", kid |-> k, custom |-> a, over |-> o]
Home(h, add) == [op |-> "family", home |-> h, add |-> add]
Members(h, add, out, to) == [op |-> "members", home |-> h, add |-> add, out |-> out, to |-> to]
F(own, as, bs) == {[part |-> "plans", db |-> Priced, calls |-> (P1 :> a @@ P2 :> b), fails |-> TRUE, own |-> own] : a \in as, b \in bs}
PlanScenes ==
    F({}, {<<Price(2, 2), Billing("generate", 3, {1}, {N1})>>, <<Amount(1, 2, 2), Billing("generate", 3, {1}, {N1})>>},
      {<<Price(4, 3), Price(4, 3)>>, <<Amount(1, 4, 2)>>, <<[op |-> "unprice", n |-> 1]>>})
    \cup F({}, {<<Billing("generate", 1, {1, 2}, Heads)>>}, {<<Billing("generate", 1, {2}, Heads)>>, <<Price(2, 2), Billing("update", 1, {1}, {N1})>>})
    \cup F({}, {<<Billing("generate", 1, {1}, Heads), Billing("generate", 2, {1}, Heads)>>},
           {<<Billing("regenerate", 1, {1}, {N1})>>, <<Pays(U1, 1), Billing("regenerate", 1, {1}, Heads)>>})
    \cup F({0, 16}, {<<Billing("generate", 1, {1}, {N1}), [op |-> "recalculate"]>>},
           {<<Own(U1, 16, N1 :> Nothing @@ N2 :> Nothing)>>, <<Own(U1, 16, N1 :> Nothing @@ N2 :> 0), [op |-> "recalculate"]>>, <<Price(2, 1)>>})
    \cup F({}, {<<Home(C1, {U1, U2})>>}, {<<Home(C2, {U2}), Members(C2, {U1}, {U2}, "inactive"), Members(C2, {}, {}, "active")>>})
\* A month is billed with the admission fee, the next without it, and then recalculated.
Recalculated == F({}, {<<Billing("generate", 1, {1}, Heads), Billing("generate", 2, {1}, {N1}), [op |-> "recalculate"]>>}, {<<>>})

-----------------------------------------------------------------------------
(* Attendance: day 3 is today; the employee U3 came on day 2.               *)

NobodyMarked ==
    [mark |-> [u \in Kids \cup Staffers |-> [d \in 0..LastDay |-> Nothing]], enrolled |-> Kids,
     tenures |-> (U3 :> <<[from |-> 10, to |-> Nothing]>>), notices |-> {}, jobs |-> {}, dropped |-> FALSE,
     earned |-> (U3 :> {})]
Register(o, d, a, b) == [op |-> o, day |-> d, records |-> <<[who |-> U1, status |-> a], [who |-> U2, status |-> b]>>]
Clock(d) == [op |-> "staff", day |-> d, records |-> <<[who |-> U3, status |-> "present"]>>]
Worker(o) == [op |-> o, user |-> U3]
D(offsets, tables, as, bs) ==
    {[part |-> "attendance", db |-> tables, calls |-> (P1 :> a @@ P2 :> b), fails |-> TRUE, offset |-> f, today |-> 3,
      year |-> [first |-> 2, last |-> 4], sundays |-> {1}, active |-> Staffers, joined |-> (U3 :> 10), month |-> 2..3] :
        f \in offsets, a \in as, b \in bs}
AttendanceScenes ==
    \* two hands on one register, the office telling again; a student leaves
    D({-1, 0}, NobodyMarked, {<<Register("class", 3, "absent", "absent"), Register("notify", 3, "absent", "absent")>>},
      {<<Register("portal", 3, "present", "absent")>>, <<Register("class", 3, "present", "absent")>>,
       <<Register("notify", 3, "absent", "present")>>, <<[op |-> "withdraw", kid |-> U2], Register("portal", 2, "present", "present")>>})
    \* any day, by any clock that has no tomorrow yet
    \cup D({0, 1}, NobodyMarked, {<<Register("class", d, "absent", "present")>> : d \in 1..4}, {<<>>})
    \* an employee leaves and comes back, and the month is paid
    \cup D({-1, 0}, NobodyMarked, {<<Clock(3), Worker("pay")>>, <<Clock(2), Clock(3), Worker("pay")>>, <<Clock(1)>>},
           {<<Worker("leave"), Worker("join")>>, <<[Clock(2) EXCEPT !.op = "teachers", !.records[1].status = "absent"]>>, <<Worker("join"), Worker("leave"), Worker("pay")>>})
    \cup D({0}, NobodyMarked, {<<Worker("leave")>>}, {<<Clock(4)>>})
    \cup D({-1, 0}, [NobodyMarked EXCEPT !.tenures[U3] = <<>>], {<<Clock(d), Worker("pay")>> : d \in 1..3}, {<<>>})
    \* an earlier stay of two days lies before a gap
    \cup D({-1, 0}, [NobodyMarked EXCEPT !.tenures[U3] = <<[from |-> 6, to |-> 6], [from |-> 14, to |-> Nothing]>>],
           {<<Clock(2)>>, <<Clock(3)>>}, {<<Worker("leave")>>})
\* A class teacher marks today's class where the clock is ahead of Greenwich.
EastOfGreenwich == D({1}, NobodyMarked, {<<Register("portal", 3, "present", "absent")>>}, {<<>>})
\* The same for an employee's pay; and a batch for tomorrow where the clock is behind.
PaidInTheEast == D({1}, NobodyMarked, {<<Clock(2), Clock(3), Worker("pay")>>}, {<<>>})
TomorrowInTheWest == D({-1}, NobodyMarked, {<<Register("class", 4, "absent", "present")>>}, {<<>>})

-----------------------------------------------------------------------------
MCScenes == AttendanceScenes \cup StaffScenes \cup AdmissionScenes \cup CredentialScenes \cup PayrollScenes
              \cup ExamScenes \cup SessionScenes \cup PlanScenes

Init ==
    \/ area = "office" /\ HandlersInit /\ NoChat /\ NoNews /\ NoQuestion /\ NoCounter
    \/ ChatInit /\ NoCounter
    \/ CounterInit
Next ==
    \/ /\ area = "office" /\ UNCHANGED <<area, chatVars, newsVars, mayVars, counterVars>>
       /\ \/ scene.part = "staff" /\ StaffNext
          \/ scene.part = "admissions" /\ AdmissionsNext
          \/ scene.part = "credentials" /\ CredentialsNext
          \/ scene.part = "payroll" /\ PayrollNext
          \/ scene.part = "exams" /\ Exam!Next
          \/ scene.part = "sessions" /\ Sess!Next
          \/ scene.part = "plans" /\ Plans!Next
          \/ scene.part = "attendance" /\ Att!Next
    \/ ChatNext /\ UNCHANGED counterVars
    \/ CounterNext
Spec == Init /\ [][Next]_<<handlerVars, area, chatVars, newsVars, mayVars, counterVars>>

-----------------------------------------------------------------------------
(* The properties of the parts, named for the runs.                        *)

\* Each has its part's type invariant as its first conjunct.

\* Exams: the ranks a computation writes are competition ranks, and publishing a card finds
\* a result for every subject of the class's active exams.
ExamsSound ==
    /\ [](Of("exams") => Exam!TypeOK /\ Exam!RanksAreCompetition)
    /\ [][Of("exams") => Exam!CompletePublication]_handlerVars
\* Exams: publishing a card finds it up to date with the results.
PublishedIsFresh == [][Exam!FreshPublication]_handlerVars
\* Sessions: wrong passwords, one after the other, lock the account, and the token of a
\* session that was ended is not accepted by authenticate.
SessionsSound ==
    /\ [](Of("sessions") => Sess!TypeOK /\ Sess!WrongOnesLock)
    /\ [][Of("sessions") => Sess!NoEndedAccepted]_handlerVars
\* Fee plans: a head is charged at most once in a bill, at a price that was set for it.
PlansSound == Of("plans") => Plans!TypeOK /\ Plans!LineIsOnePrice
\* Fee plans: a one-time head is charged in one month only.
OneTimeOnce == Plans!OneTimeOnce

\* Attendance: rows stand under the day that was meant, never ahead of today, within the
\* employee's tenures; the month is paid by the marks of its days; absences are told.
AttendanceSound ==
    Of("attendance") => /\ Att!TypeOK /\ Att!DayIsMeant /\ Att!NotAhead
                        /\ Att!MarkedInTenure /\ Att!PaidForItsDays /\ Att!AbsenceIsTold
\* Attendance: what a class teacher marks is stored under the day the teacher named.
DayIsMeant == Att!DayIsMeant

\* What the source also says of itself and does not keep; the README tells the scenes.
\* A teacher made the administrator who keeps the classes (TeachingAdmin) stays it.
\* A day is paid by its own mark (PaidInTheEast); nobody is marked ahead (TomorrowInTheWest).
PaidForItsDays == Att!PaidForItsDays
NotAhead == Att!NotAhead
=============================================================================
