------------------------------- MODULE Payroll -------------------------------
(***************************************************************************)
(* Salaries and the branch's other expenses.  A payment first computes the  *)
(* month, takes the next voucher number, is written, and then the month is  *)
(* computed again.  Computing reads the attendance, what the month before   *)
(* left and what was paid, one statement each, and overwrites the month's   *)
(* stored balance; so does every look at the payroll.                       *)
(***************************************************************************)
EXTENDS Handlers, Functions

CONSTANTS Payees, Months, PayKeys, Providers, Salary

\* Payments, of a payee or for something else; the voucher number is the place.
PaidRows ==
    [payee : Payees \cup {Nothing}, month : Months \cup {Nothing}, amount : Nat, key : PayKeys \cup {Nothing},
     run : Nat, void : BOOLEAN, opening : Int]
MonthBalances == [opening : Int, earned : Int, closing : Int]
PayYears == {"this", "last"}
MarkRows ==
    [year : PayYears, payee : Payees, month : Months, day : {1, 2}, status : {"present", "late", "leave"}]

\* active: whether the payee list has this payee; current: the branch's ACTIVE academic year;
\* tenure: the days a payee belongs to the branch; marks: attendance by year; balance: stored
\* months; runs: bulk runs.  For the properties, told: how calls with a key ended; behind:
\* months that could not be computed again after a payment or a void was committed.
PayrollTables ==
    [active : [Payees -> BOOLEAN], current : PayYears \cup {Nothing}, behind : SUBSET (Payees \X Months), tenure : [Payees -> SUBSET (Months \X {1, 2})],
     marks : SUBSET MarkRows, paid : Seq(PaidRows),
     balance : [Payees -> [Months -> MonthBalances \cup {Nothing}]],
     providers : SUBSET Providers, runs : Seq([key : PayKeys \cup {Nothing}, success : Nat]),
     told : [Procs -> Seq([how : {"paid", "replayed", "failed"}, number : Nat])]]

\* A run names each payee once, as its page does: the handler does not look.
Payrolls == {s \in Seq(Payees) : s # <<>> /\ \A i, j \in DOMAIN s : s[i] = s[j] => i = j}
PayCalls ==
    [op : {"pay"}, users : {<<u>> : u \in Payees}, month : Months, amount : Nat, key : PayKeys \cup {Nothing}, year : PayYears]
        \cup [op : {"bulk"}, users : Payrolls, month : Months, amount : Nat, key : PayKeys \cup {Nothing}, year : PayYears]
        \cup [op : {"spend"}, provider : Providers \cup {Nothing}, amount : Nat]
        \cup [op : {"void"}, number : Nat]
        \cup [op : {"list"}, month : Months, year : PayYears]
        \cup [op : {"mark"}, mark : MarkRows]
        \cup [op : {"quit", "rejoin"}, payee : Payees]
        \cup [op : {"year"}, current : PayYears \cup {Nothing}]

\* A scene starts before the first payment, with months that add up.  In a scene "alone"
\* one caller at most does more than to record other expenses.
ASSUME PayrollSceneAssumption ==
    /\ IsFiniteSet(Payees) /\ Months \subseteq Int /\ Salary \in Nat
    /\ Nothing \notin Payees /\ Nothing \notin PayKeys /\ Nothing \notin MonthBalances
    /\ \A s \in Scenes : s.part = "payroll" =>
          /\ s.db \in PayrollTables /\ IsFiniteSet(s.db.marks)
          /\ s.db.paid = <<>> /\ s.db.runs = <<>> /\ s.db.behind = {}
          /\ \A u \in Payees, m \in Months : s.db.balance[u][m] # Nothing =>
                s.db.balance[u][m].closing = s.db.balance[u][m].opening + s.db.balance[u][m].earned
          /\ s.alone \in BOOLEAN
          /\ \A p \in DOMAIN s.calls : s.calls[p] \in Seq(PayCalls)
          /\ s.alone => \A p, q \in Procs \cap DOMAIN s.calls :
                p = q \/ \E r \in {p, q} : \A n \in DOMAIN s.calls[r] : s.calls[r][n].op = "spend"

-----------------------------------------------------------------------------
(* Computing a month                                                       *)

\* Late weighs three quarters of a day, leave and absence nothing.
PayWeight(status) == CASE status = "present" -> 4 [] status = "late" -> 3 [] OTHER -> 0
WorkingDays(u, m) == {d \in {1, 2} : <<m, d>> \in db.tenure[u]}
\* Earned: the salary by working day times the weighted days, on the days of the tenure.
Earned(u, m, year) ==
    LET days == WorkingDays(u, m)
        weighted == SumFunctionOnSet([r \in db.marks |-> PayWeight(r.status)],
                        {r \in db.marks : r.year = year /\ r.payee = u /\ r.month = m /\ r.day \in days})
    IN (Salary * weighted) \div (4 * (IF days = {} THEN 2 ELSE Cardinality(days)))
Opening(u, m) ==
    IF m - 1 \in Months /\ db.balance[u][m - 1] # Nothing THEN db.balance[u][m - 1].closing ELSE 0
PaidIn(rows, u, m) ==
    SumFunctionOnSet([n \in DOMAIN rows |-> rows[n].amount],
        {n \in DOMAIN rows : rows[n].payee = u /\ rows[n].month = m /\ ~rows[n].void})
PaidFor(u, m) == PaidIn(db.paid, u, m)

\* What a handler under way knows: whom it works on, for which month and year, what it read.
Works ==
    [users : Payrolls, month : Months, year : PayYears \cup {Nothing}, k : Nat, listed : SUBSET Payees, success : Nat,
     run : Nat, number : Nat, how : {"paid", "replayed"},
     earned : [Payees -> Int], opening : [Payees -> Int], paid : [Payees -> Int]]
Work(users, m, year) ==
    [users |-> users, month |-> m, year |-> year, k |-> 1, listed |-> {}, success |-> 0,
     run |-> 0, number |-> 0, how |-> "paid",
     earned |-> [u \in Payees |-> 0], opening |-> [u \in Payees |-> 0], paid |-> [u \in Payees |-> 0]]
Current(p) == loc[p].users[loc[p].k]
Goes(p, n, w) == ReadTo(p, n, w)

ReadMarks(p, n, us) ==
    Goes(p, n, [loc[p] EXCEPT !.earned = [u \in Payees |-> IF u \in us THEN Earned(u, loc[p].month, loc[p].year) ELSE @[u]]])
ReadOpening(p, n, us) ==
    Goes(p, n, [loc[p] EXCEPT !.opening = [u \in Payees |-> IF u \in us THEN Opening(u, loc[p].month) ELSE @[u]]])
ReadPaid(p, n, us) ==
    Goes(p, n, [loc[p] EXCEPT !.paid = [u \in Payees |-> IF u \in us THEN PaidFor(u, loc[p].month) ELSE @[u]]])
\* The upsert of the month's balance, from what was read.
Balanced(p) ==
    LET u == Current(p) w == loc[p] IN
    [db EXCEPT !.behind = @ \ {<<u, w.month>>},
               !.balance[u][w.month] =
        [opening |-> w.opening[u], earned |-> w.earned[u], closing |-> w.opening[u] + w.earned[u] - w.paid[u]]]
\* The month cannot be computed again: for what was committed before, it is left behind.
LeftBehind(p) == IF loc[p].how = "paid" THEN [db EXCEPT !.behind = @ \cup {<<Current(p), loc[p].month>>}] ELSE db

PayeeList == {u \in Payees : db.active[u]}
Reply(tables, p, how, n) == [tables EXCEPT !.told[p] = Append(@, [how |-> how, number |-> n])]
FailPay(p) == Commit(p, Reply(db, p, "failed", 0))

-----------------------------------------------------------------------------
(* Paying one salary, or many in a run                                      *)

Paying(p) == calls[p] # <<>> /\ Call(p).op \in {"pay", "bulk"}
Step(p, n) == Paying(p) /\ pc[p] = n
NumberOf(k) == {n \in DOMAIN db.paid : db.paid[n].key = k}
RunOf(k) == {n \in DOMAIN db.runs : db.runs[n].key = k}

\* The payment with this key is found: its month is computed again for the answer.
ReplayPay(p) ==
    \E n \in NumberOf(Call(p).key) :
        Goes(p, 9, [Work(<<db.paid[n].payee>>, db.paid[n].month, Nothing) EXCEPT !.how = "replayed", !.number = n])
CheckKey(p) ==
    /\ Step(p, 0)
    /\ IF Call(p).key # Nothing /\ Call(p).op = "pay" /\ NumberOf(Call(p).key) # {} THEN ReplayPay(p)
       ELSE IF Call(p).key # Nothing /\ Call(p).op = "bulk" /\ RunOf(Call(p).key) # {}
       THEN Commit(p, Reply(db, p, "replayed", 0))
       ELSE Goes(p, 1, Work(Call(p).users, Call(p).month, Call(p).year))

\* The payee list; a run takes it once, before its first payment.
ListPayees(p) ==
    /\ Step(p, 1)
    /\ IF Call(p).op = "pay" /\ ~db.active[Current(p)] THEN FailPay(p)
       ELSE Goes(p, IF Call(p).op = "pay" THEN 3 ELSE 2, [loc[p] EXCEPT !.listed = PayeeList])
\* Mutant: two runs may have one key.
OpenRunAgain(p) ==
    /\ Step(p, 2)
    /\ db' = [db EXCEPT !.runs = Append(@, [key |-> Call(p).key, success |-> 0])]
    /\ loc' = [loc EXCEPT ![p].run = Len(db.runs) + 1]
    /\ pc' = [pc EXCEPT ![p] = 3] /\ UNCHANGED <<calls, scene>>
\* The run is written under its key before anybody is paid.
OpenRun(p) ==
    /\ Step(p, 2)
    /\ IF Call(p).key # Nothing /\ RunOf(Call(p).key) # {} THEN Goes(p, 14, loc[p])
       ELSE /\ db' = [db EXCEPT !.runs = Append(@, [key |-> Call(p).key, success |-> 0])]
            /\ loc' = [loc EXCEPT ![p].run = Len(db.runs) + 1]
            /\ pc' = [pc EXCEPT ![p] = 3] /\ UNCHANGED <<calls, scene>>

\* The next item of a run, after one that was paid or one that was not; or the end of it.
NextItem(p, tables, paid) ==
    /\ db' = tables
    /\ IF loc[p].k < Len(loc[p].users)
       THEN loc' = [loc EXCEPT ![p].k = @ + 1, ![p].year = Call(p).year, ![p].success = @ + paid] /\ pc' = [pc EXCEPT ![p] = 3]
       ELSE loc' = [loc EXCEPT ![p].success = @ + paid] /\ pc' = [pc EXCEPT ![p] = 15]
    /\ UNCHANGED <<calls, scene>>

\* The month is computed before the payment, for a payee of the list ...
SkipItem(p) == Step(p, 3) /\ Call(p).op = "bulk" /\ Current(p) \notin loc[p].listed /\ NextItem(p, db, 0)
ComputeBefore(p) ==
    \/ Step(p, 3) /\ Current(p) \in loc[p].listed /\ ReadMarks(p, 4, {Current(p)})
    \/ Step(p, 4) /\ ReadOpening(p, 5, {Current(p)})
    \/ Step(p, 5) /\ ReadPaid(p, 6, {Current(p)})
    \/ Step(p, 6) /\ WriteTo(p, 7, Balanced(p))
NextVoucher(p) == Step(p, 7) /\ Goes(p, 8, [loc[p] EXCEPT !.number = Len(db.paid) + 1])

\* Both the voucher number and the key are unique.
PayTx(p) ==
    /\ Step(p, 8)
    /\ LET w == loc[p] k == IF Call(p).op = "pay" THEN Call(p).key ELSE Nothing
           taken == w.number \in DOMAIN db.paid \/ (k # Nothing /\ NumberOf(k) # {}) IN
       IF taken THEN IF Call(p).op = "bulk" THEN NextItem(p, db, 0)
                     ELSE IF k = Nothing THEN FailPay(p) ELSE Goes(p, 14, w)
       ELSE /\ db' = [db EXCEPT !.paid = Append(@, [payee |-> Current(p), month |-> w.month, amount |-> Call(p).amount,
                                                    key |-> k, run |-> w.run, void |-> FALSE, opening |-> w.opening[Current(p)]])]
            /\ pc' = [pc EXCEPT ![p] = 9] /\ UNCHANGED <<calls, loc, scene>>

\* ... and again after it: for a payee still in the list, with the attendance of the branch's
\* ACTIVE year.  Without either, what was paid stays, and is reported as failed.
FailAfter(p) ==
    IF Call(p).op = "bulk" THEN NextItem(p, LeftBehind(p), 0) ELSE Commit(p, Reply(LeftBehind(p), p, "failed", 0))
FindAgain(p) == Step(p, 9) /\ IF db.active[Current(p)] THEN Goes(p, 16, loc[p]) ELSE FailAfter(p)
FindYear(p) ==
    Step(p, 16) /\ IF db.current = Nothing THEN FailAfter(p) ELSE Goes(p, 10, [loc[p] EXCEPT !.year = db.current])
ComputeAfter(p) ==
    \/ Step(p, 10) /\ ReadMarks(p, 11, {Current(p)})
    \/ Step(p, 11) /\ ReadOpening(p, 12, {Current(p)})
    \/ Step(p, 12) /\ ReadPaid(p, 13, {Current(p)})
    \/ /\ Step(p, 13)
       /\ IF Call(p).op = "pay" THEN Commit(p, Reply(Balanced(p), p, loc[p].how, loc[p].number))
          ELSE NextItem(p, Balanced(p), 1)

\* After a unique violation: the winner is looked for, for two seconds.
Converge(p) ==
    \/ /\ Step(p, 14) /\ Call(p).op = "pay" /\ NumberOf(Call(p).key) # {} /\ ReplayPay(p)
    \/ /\ Step(p, 14) /\ Call(p).op = "bulk" /\ RunOf(Call(p).key) # {}
       /\ Commit(p, Reply(db, p, "replayed", 0))
    \/ /\ Step(p, 14) /\ FailPay(p)
       /\ IF Call(p).op = "pay" THEN NumberOf(Call(p).key) = {} ELSE RunOf(Call(p).key) = {}
CloseRun(p) ==
    /\ Step(p, 15)
    /\ Commit(p, Reply([db EXCEPT !.runs[loc[p].run].success = loc[p].success], p, "paid", 0))

-----------------------------------------------------------------------------
(* Voiding, other expenses, looking, and what the payroll reads             *)

\* Mutant: the month is not computed again.
VoidWriteOnly(p) ==
    /\ At(p, "void", 1) /\ Commit(p, [db EXCEPT !.paid[Call(p).number].void = TRUE])
VoidCheck(p) ==
    /\ At(p, "void", 0)
    /\ IF Call(p).number \in DOMAIN db.paid /\ ~db.paid[Call(p).number].void THEN Goes(p, 1, Nothing) ELSE Refuse(p)
VoidWrite(p) ==
    LET row == db.paid[Call(p).number] tables == [db EXCEPT !.paid[Call(p).number].void = TRUE] IN
    /\ At(p, "void", 1)
    /\ IF row.payee = Nothing THEN Commit(p, tables)
       ELSE /\ db' = tables /\ pc' = [pc EXCEPT ![p] = 2]
            /\ loc' = [loc EXCEPT ![p] = Work(<<row.payee>>, row.month, Nothing)]
            /\ UNCHANGED <<calls, scene>>
\* The void stands even where the month cannot be computed again.
VoidRefresh(p) ==
    \/ At(p, "void", 2) /\ IF db.active[Current(p)] THEN Goes(p, 7, loc[p]) ELSE Commit(p, LeftBehind(p))
    \/ /\ At(p, "void", 7)
       /\ IF db.current = Nothing THEN Commit(p, LeftBehind(p)) ELSE Goes(p, 3, [loc[p] EXCEPT !.year = db.current])
    \/ At(p, "void", 3) /\ ReadMarks(p, 4, {Current(p)})
    \/ At(p, "void", 4) /\ ReadOpening(p, 5, {Current(p)})
    \/ At(p, "void", 5) /\ ReadPaid(p, 6, {Current(p)})
    \/ At(p, "void", 6) /\ Commit(p, Balanced(p))

\* A utility bill, whose provider may be saved on the way, or any other expense.
SaveProvider(p) ==
    \/ /\ At(p, "spend", 0)
       /\ Goes(p, IF Call(p).provider \in db.providers \cup {Nothing} THEN 2 ELSE 1, Nothing)
    \/ /\ At(p, "spend", 1)
       /\ IF Call(p).provider \in db.providers THEN Refuse(p)
          ELSE WriteTo(p, 2, [db EXCEPT !.providers = @ \cup {Call(p).provider}])
SpendVoucher(p) == At(p, "spend", 2) /\ Goes(p, 3, Len(db.paid) + 1)
SpendTx(p) ==
    /\ At(p, "spend", 3)
    /\ IF loc[p] \in DOMAIN db.paid THEN Refuse(p)
       ELSE Commit(p, [db EXCEPT !.paid = Append(@, [payee |-> Nothing, month |-> Nothing, amount |-> Call(p).amount,
                                                     key |-> Nothing, run |-> 0, void |-> FALSE, opening |-> 0])])

\* The payroll of a month: the payees, then everything for all of them, then one balance
\* after the other is overwritten.
ListPayroll(p) ==
    \/ /\ At(p, "list", 0)
       /\ \E users \in {s \in [1..Cardinality(PayeeList) -> PayeeList] : \A i, j \in DOMAIN s : i # j => s[i] # s[j]} :
             IF users = <<>> THEN Refuse(p) ELSE Goes(p, 1, Work(users, Call(p).month, Call(p).year))
    \/ At(p, "list", 1) /\ ReadOpening(p, 2, Range(loc[p].users))
    \/ At(p, "list", 2) /\ ReadMarks(p, 3, Range(loc[p].users))
    \/ At(p, "list", 3) /\ ReadPaid(p, 4, Range(loc[p].users))
    \/ /\ At(p, "list", 4)
       /\ IF loc[p].k = Len(loc[p].users) THEN Commit(p, Balanced(p))
          ELSE /\ db' = Balanced(p) /\ loc' = [loc EXCEPT ![p].k = @ + 1] /\ UNCHANGED <<calls, pc, scene>>

MarkDay(p) ==
    /\ At(p, "mark", 0)
    /\ LET r == Call(p).mark IN
       IF <<r.month, r.day>> \in db.tenure[r.payee] /\ db.active[r.payee]
       THEN Commit(p, [db EXCEPT !.marks = {x \in @ : [x EXCEPT !.status = r.status] # r} \cup {r}]) ELSE Refuse(p)
SetEmployed(p) ==
    \/ At(p, "quit", 0) /\ Commit(p, [db EXCEPT !.active[Call(p).payee] = FALSE])
    \/ At(p, "rejoin", 0) /\ Commit(p, [db EXCEPT !.active[Call(p).payee] = TRUE])
\* The branch's year is paused, resumed or followed by another.
SetYear(p) == At(p, "year", 0) /\ Commit(p, [db EXCEPT !.current = Call(p).current])

-----------------------------------------------------------------------------
PayrollInit == HandlersInit

PayrollNext ==
    \/ \E p \in Procs :
          \/ CheckKey(p) \/ ListPayees(p) \/ OpenRun(p) \/ SkipItem(p) \/ ComputeBefore(p) \/ NextVoucher(p) \/ PayTx(p)
          \/ FindAgain(p) \/ FindYear(p) \/ ComputeAfter(p) \/ Converge(p) \/ CloseRun(p)
          \/ VoidCheck(p) \/ VoidWrite(p) \/ VoidRefresh(p) \/ SaveProvider(p) \/ SpendVoucher(p) \/ SpendTx(p)
          \/ ListPayroll(p) \/ MarkDay(p) \/ SetEmployed(p) \/ SetYear(p)
    \/ Rest

PayrollSpec == PayrollInit /\ [][PayrollNext]_handlerVars

-----------------------------------------------------------------------------
(* Properties                                                              *)

\* The tables hold rows of their types, and handlers run as handlers do.
PayrollTypeOK == HandlersTypeOK /\ db \in PayrollTables

\* A key stands for one payment, and a run sent again pays nobody twice, however the
\* two sendings and their retries interleave.
KeyPaysOnce ==
    /\ \A k \in PayKeys : Cardinality(NumberOf(k)) <= 1
    /\ \A k \in PayKeys, u \in Payees :
         Cardinality({n \in DOMAIN db.paid : db.paid[n].payee = u /\ db.paid[n].run \in RunOf(k)}) <= 1

\* Once the handlers have answered, a stored month adds up with the payments recorded
\* for it, but where a payment or a void was committed and the month could not be computed
\* again, because the payee was out of the list or the branch had no ACTIVE year; and then
\* until it is computed the next time, by a payment, a void or a look.  Said of scenes in
\* which only one caller works on a payee at a time: two at once overwrite each other's
\* balance with what they read before.
BalanceTellsPaid ==
    Quiet /\ scene.alone => \A u \in Payees, m \in Months :
        <<u, m>> \notin db.behind /\ db.balance[u][m] # Nothing =>
            db.balance[u][m].closing = db.balance[u][m].opening + db.balance[u][m].earned - PaidFor(u, m)

\* Payroll: a key pays once, and stored months add up with what was paid.
PayrollSound == Of("payroll") => PayrollTypeOK /\ KeyPaysOnce /\ BalanceTellsPaid

\* A key used for another salary is refused, as the comment on the keys says ("scope
\* mismatches 409"): what a call under a key is told names a payment of its own payee.
\* Said of callers that make one call.
MismatchRefused ==
    [][\A p \in Procs : Paying(p) /\ Call(p).op = "pay" /\ db'.told[p] # db.told[p] =>
          LET t == db'.told[p][Len(db'.told[p])] IN
          t.how = "replayed" => db.paid[t.number].payee = Call(p).users[1]]_handlerVars
=============================================================================
