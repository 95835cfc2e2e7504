------------------------------ MODULE FeeLedger ------------------------------
(***************************************************************************)
(* The student fee ledger of fee.routes.ts: the rows of "student_fees",     *)
(* "fee_extra_items", "payments" and "payment_head_allocations" of one      *)
(* family, and the admin handlers that read and write them.                 *)
(*                                                                         *)
(* A request p runs one handler.  A handler that works in ONE transaction   *)
(* under SELECT ... FOR UPDATE on every fee it touches is one action; one   *)
(* that awaits several unlocked statements is one action per statement,     *)
(* with what it has read kept in loc[p] until it is used.                   *)
(*                                                                         *)
(* The fees are numbered in (year, month) order.  All amounts are paise.    *)
(***************************************************************************)
EXTENDS Integers, Sequences, FiniteSets, Functions

CONSTANTS
    Fees,          \* fee rows, numbered by month
    Heads,         \* fee heads of a month's breakdown
    Unnumbered,    \* those without a feeHeadId: the custom amount, the fallback "Fee"
    ExtraIds,      \* extra items that can be added
    Requests,      \* concurrent admin requests
    Breakdowns,    \* head amounts a structure or an override can give
    Amounts,       \* amounts a client can pay
    ExtraAmount,   \* the price of one extra item
    MaxGen,        \* bound: times a month's row is created anew
    DupSelection,  \* TRUE: a client may select the same month twice
    Scenes,        \* who calls which handlers, over which months
    NoLoc          \* the locals of a request that is not running

ASSUME FeesAssumption == Fees \subseteq Nat /\ IsFiniteSet(Fees)
ASSUME KeysAssumption == IsFiniteSet(Heads) /\ IsFiniteSet(ExtraIds) /\ Unnumbered \subseteq Heads
ASSUME AmountsAssumption ==
    /\ Amounts \subseteq Nat \ {0}
    /\ ExtraAmount \in Nat \ {0}
    /\ Breakdowns \subseteq [Heads -> Nat]
    /\ MaxGen \in Nat
    /\ DupSelection \in BOOLEAN
\* archived: months of an archived year; repeats: a client may name one head or
\* extra in two lines; maxPayments bounds the rows, maxCarried what a month is charged.
ASSUME ScenesAssumption ==
  /\ \A s \in Scenes : s.archived \subseteq s.months
  /\ Scenes \subseteq [staff : SUBSET Requests, handlers : SUBSET STRING,
                      months : SUBSET Fees, archived : SUBSET Fees,
                      breakdowns : SUBSET Breakdowns, repeats : BOOLEAN,
                      maxPayments : Nat, maxCarried : Nat]

VARIABLES
    fee,       \* fee[f]: the student_fees row (exists = FALSE: no such row)
    extras,    \* extras[f]: ids of the month's extra items
    usedIds,   \* extra item ids ever created
    payments,  \* payment rows in order of creation, with their allocations
    carries,   \* carries[f][g]: what the fee_carry_forwards rows say came from month g to f
    scene,     \* the scene of this behaviour; it never changes
    pc,        \* pc[p]: the next statement of request p
    loc        \* loc[p]: what request p has read and not yet used

vars == <<fee, extras, usedIds, payments, carries, scene, pc, loc>>
ledger == <<fee, extras, usedIds, payments, carries>>

Statuses == {"UNPAID", "PARTIAL", "PAID", "OVERPAID"}
Keys == Heads \cup ExtraIds       \* what a head allocation can name

HeadSum(b) == SumFunctionOnSet(b, Heads)
Row(b, g) == [exists |-> TRUE, gen |-> g, heads |-> b, total |-> HeadSum(b),
              net |-> HeadSum(b), paid |-> 0, status |-> "UNPAID"]
NoRow(g) == [exists |-> FALSE, gen |-> g, heads |-> [h \in Heads |-> 0],
             total |-> 0, net |-> 0, paid |-> 0, status |-> "UNPAID"]

\* A row is found by the id a request has read: a month that was deleted and
\* created again has a new one.
Id(f) == [fee |-> f, gen |-> fee[f].gen]
Found(l) == fee[l.fee].exists /\ fee[l.fee].gen = l.gen

\* The items of the row l was read from; none are left when it is deleted.
ItemSum(l) == IF Found(l) THEN ExtraAmount * Cardinality(extras[l.fee]) ELSE 0
ExtraSum(f) == ExtraAmount * Cardinality(extras[f])
TotalDue(f) == fee[f].net + ExtraSum(f)
Remaining(f) == TotalDue(f) - fee[f].paid

\* computeFeeStatus
FeeStatus(paid, due) ==
    IF paid >= due THEN IF paid > due THEN "OVERPAID" ELSE "PAID"
    ELSE IF paid > 0 THEN "PARTIAL" ELSE "UNPAID"

\* The inline form of the payment handlers, which never answers UNPAID.
PaidStatus(paid, due) ==
    IF paid >= due THEN IF paid > due THEN "OVERPAID" ELSE "PAID"
    ELSE "PARTIAL"

NoAlloc == [k \in Keys |-> 0]
Payment(f, a, alloc) ==
    [fee |-> f, amount |-> a, alloc |-> alloc,
     live |-> TRUE, allocLive |-> TRUE, reverts |-> 0]

\* One payment row for each month of given, oldest month first.
InOrder(S) == [i \in 1..Cardinality(S) |->
                 CHOOSE f \in S : Cardinality({g \in S : g < f}) = i - 1]
MonthRows(given) ==
    LET months == InOrder(DOMAIN given)
    IN  [i \in DOMAIN months |-> Payment(months[i], given[months[i]], NoAlloc)]

\* payment.aggregate({ studentFeeId, revertedAt: null })
LiveSum(ps, f) ==
    SumFunctionOnSet([i \in DOMAIN ps |-> ps[i].amount],
                     {i \in DOMAIN ps : ps[i].fee = f /\ ps[i].live})

\* The sum of the non-reverted allocations of month f to head or extra k.
Allocated(ps, f, k) ==
    SumFunctionOnSet([i \in DOMAIN ps |-> ps[i].alloc[k]],
                     {i \in DOMAIN ps : ps[i].fee = f /\ ps[i].allocLive})

MinOf(a, b) == IF a <= b THEN a ELSE b
MaxOf(a, b) == IF a >= b THEN a ELSE b

Init ==
    /\ scene \in Scenes
    \* A month outside the scene never gets a row; no row charges nothing.
    /\ \E of \in [scene.months -> {b \in scene.breakdowns : HeadSum(b) > 0}] :
         fee = [f \in Fees |-> IF f \in scene.months THEN Row(of[f], 0) ELSE NoRow(MaxGen)]
    /\ usedIds \in SUBSET ExtraIds
    /\ \E of \in [usedIds -> scene.months] : extras = [f \in Fees |-> {e \in usedIds : of[e] = f}]
    /\ payments = <<>>
    /\ carries = [f \in Fees |-> [g \in Fees |-> 0]]
    /\ pc = [p \in Requests |-> "idle"]
    /\ loc = [p \in Requests |-> NoLoc]

Idle(p, h) == pc[p] = "idle" /\ p \in scene.staff /\ h \in scene.handlers
Goto(p, label, l) ==
    /\ pc' = [pc EXCEPT ![p] = label]
    /\ loc' = [loc EXCEPT ![p] = l]
    /\ UNCHANGED scene
Finish(p) == Goto(p, "idle", NoLoc)
StillIdle == UNCHANGED <<scene, pc, loc>>
CanRecord(n) == Len(payments) + n <= scene.maxPayments

-----------------------------------------------------------------------------
(* POST /payments: the month and its extras are read before the row lock.  *)

\* Mutant: the total due forgets the extra items.
PayReadNoExtras(p, f, a) ==
    /\ Idle(p, "pay")
    /\ fee[f].exists
    /\ Goto(p, "payTxn", [fee |-> f, gen |-> fee[f].gen, amount |-> a, extra |-> 0])
    /\ UNCHANGED ledger

PayRead(p, f, a) ==
    /\ Idle(p, "pay")
    /\ fee[f].exists
    /\ Goto(p, "payTxn", [fee |-> f, gen |-> fee[f].gen, amount |-> a, extra |-> ExtraSum(f)])
    /\ UNCHANGED ledger

PayTxn(p) ==
    LET l == loc[p]
        ps == Append(payments, Payment(l.fee, l.amount, NoAlloc))
        paid == LiveSum(ps, l.fee)
    IN  /\ pc[p] = "payTxn"
        /\ Found(l)
        /\ CanRecord(1)
        /\ payments' = ps
        /\ fee' = [fee EXCEPT ![l.fee].paid = paid,
                     ![l.fee].status = PaidStatus(paid, fee[l.fee].net + l.extra)]
        /\ Finish(p)
        /\ UNCHANGED <<extras, usedIds, carries>>

\* The locked SELECT finds no row: 404.
PayGone(p) ==
    /\ pc[p] = "payTxn"
    /\ ~Found(loc[p])
    /\ Finish(p)
    /\ UNCHANGED ledger

-----------------------------------------------------------------------------
(* POST /payments/waterfall: oldest month first, over the locked rows.      *)

\* The months the SELECT locks.
WaterfallLocked == {f \in Fees : fee[f].exists /\ fee[f].status \in {"UNPAID", "PARTIAL"}}

DueIn(f) == MaxOf(0, Remaining(f))
DueOf(S) == SumFunctionOnSet([f \in Fees |-> DueIn(f)], S)

\* Mutant: the newest month first.
ShareNewestFirst(f, a) ==
    LET newer == {g \in WaterfallLocked : g > f}
    IN  MinOf(DueIn(f), MaxOf(0, a - DueOf(newer)))

\* What month f receives out of a, after the older locked months.
Share(f, a) ==
    LET older == {g \in WaterfallLocked : g < f}
    IN  MinOf(DueIn(f), MaxOf(0, a - DueOf(older)))

\* The months that receive a payment row.
Covered(a) == {f \in WaterfallLocked : Share(f, a) > 0}

Waterfall(p, a) ==
    LET rows == MonthRows([f \in Covered(a) |-> Share(f, a)])
    IN  /\ Idle(p, "waterfall")
        /\ WaterfallLocked # {}
        \* All fees for this student are already paid: 400.
        /\ SumFunctionOnSet([f \in Fees |-> Remaining(f)], WaterfallLocked) > 0
        /\ CanRecord(Len(rows))
        /\ payments' = payments \o rows
        /\ fee' = [f \in Fees |->
                     IF f \in Covered(a)
                     THEN [fee[f] EXCEPT !.paid = @ + Share(f, a),
                             !.status = PaidStatus(fee[f].paid + Share(f, a), TotalDue(f))]
                     ELSE fee[f]]
        /\ StillIdle
        /\ UNCHANGED <<extras, usedIds, carries>>

-----------------------------------------------------------------------------
(* POST /payments/allocate: an explicit selection of whole previous months  *)
(* (prev[f] paise each) and of heads and extras of one current month c.     *)
(* The handler checks each against the rows it read under the lock.         *)

AllocSum(alloc) == SumFunctionOnSet(alloc, Keys)

Price(f, k) == IF k \in Heads THEN fee[f].heads[k]
               ELSE IF k \in extras[f] THEN ExtraAmount ELSE 0

\* Mutant: earlier allocations are not counted.
KeyDueIgnoresPrior(f, k) == Price(f, k)

\* priorByHead: earlier allocations are found by feeHeadId or feeExtraItemId, so
\* none is found for a head without an id (key "n:<name>").
KeyDue(f, k) == Price(f, k) - (IF k \in Unnumbered THEN 0 ELSE Allocated(payments, f, k))

\* Each line of the request is held against what was due before the request:
\* line[k] is the largest line that names k, alloc[k] what its lines add up to.
SelectionFits(prev, c, line, alloc) ==
    /\ \A f \in DOMAIN prev : fee[f].exists /\ prev[f] <= Remaining(f)
    /\ AllocSum(alloc) > 0 => fee[c].exists
    /\ \A k \in Keys : line[k] > 0 => line[k] <= KeyDue(c, k)

\* What lines can add up to: an extra named twice, or a head named once by its
\* id and once by its name, is two lines of one key (at most two are modelled).
Asked(line) == {line} \cup (IF scene.repeats THEN {[k \in Keys |-> line[k] + line[k]]} ELSE {})

\* The rows of one selection: the previous months, then the current one.
SelectionRows(prev, c, alloc) ==
    IF AllocSum(alloc) > 0 THEN Append(MonthRows(prev), Payment(c, AllocSum(alloc), alloc))
                           ELSE MonthRows(prev)

Credit(f, paid) == [fee[f] EXCEPT !.paid = paid, !.status = PaidStatus(paid, TotalDue(f))]

\* /payments/allocate reads every row once (feeById), so the current month's
\* new paidAmount does not see what the same request gave it as a previous one.
Allocate(p, prev, c, line, alloc) ==
    LET rows == SelectionRows(prev, c, alloc)
        cur == AllocSum(alloc)
    IN  /\ Idle(p, "allocate")
        /\ rows # <<>>
        /\ c \in DOMAIN prev => DupSelection
        /\ SelectionFits(prev, c, line, alloc)
        /\ CanRecord(Len(rows))
        /\ payments' = payments \o rows
        /\ fee' = [f \in Fees |->
                     IF f = c /\ cur > 0 THEN Credit(f, fee[f].paid + cur)
                     ELSE IF f \in DOMAIN prev THEN Credit(f, fee[f].paid + prev[f])
                     ELSE fee[f]]
        /\ StillIdle
        /\ UNCHANGED <<extras, usedIds, carries>>

\* /family-payments/allocate re-reads the rows for every item it applies
\* (executeStudentAllocInTx), so the two credits of one month add up.
FamilyAllocate(p, prev, c, line, alloc) ==
    LET rows == SelectionRows(prev, c, alloc)
        given(f) == (IF f \in DOMAIN prev THEN prev[f] ELSE 0)
                    + (IF f = c THEN AllocSum(alloc) ELSE 0)
    IN  /\ Idle(p, "familyAllocate")
        /\ rows # <<>>
        /\ SelectionFits(prev, c, line, alloc)
        /\ CanRecord(Len(rows))
        /\ payments' = payments \o rows
        /\ fee' = [f \in Fees |->
                     IF given(f) > 0 THEN Credit(f, fee[f].paid + given(f)) ELSE fee[f]]
        /\ StillIdle
        /\ UNCHANGED <<extras, usedIds, carries>>

\* POST /family-payments: a batch of months, each still owing something; the
\* amount itself is not bounded by what is owed.
FamilyPay(p, batch) ==
    LET ps == payments \o MonthRows(batch)
    IN  /\ Idle(p, "familyPay")
        /\ DOMAIN batch # {}
        /\ \A f \in DOMAIN batch : fee[f].exists /\ Remaining(f) > 0
        /\ CanRecord(Cardinality(DOMAIN batch))
        /\ payments' = ps
        /\ fee' = [f \in Fees |->
                     IF f \in DOMAIN batch
                     THEN [fee[f] EXCEPT !.paid = LiveSum(ps, f),
                             !.status = FeeStatus(LiveSum(ps, f), TotalDue(f))]
                     ELSE fee[f]]
        /\ StillIdle
        /\ UNCHANGED <<extras, usedIds, carries>>

-----------------------------------------------------------------------------
(* POST /payments/:id/revert: the guard runs before the transaction and     *)
(* again under the row lock.                                                *)

RevertRead(p, i) ==
    /\ Idle(p, "revert")
    /\ payments[i].live
    /\ Goto(p, "revertTxn", [payment |-> i])
    /\ UNCHANGED ledger

\* The rows as a revert of payment i leaves them.
Reverted(i) == [payments EXCEPT ![i].live = FALSE, ![i].allocLive = FALSE,
                                ![i].reverts = @ + 1]
RevertTo(p, ps, f, paid) ==
    /\ payments' = ps
    /\ fee' = [fee EXCEPT ![f].paid = paid,
                 ![f].status = IF paid > 0 THEN FeeStatus(paid, TotalDue(f)) ELSE "UNPAID"]
    /\ Finish(p)
    /\ UNCHANGED <<extras, usedIds, carries>>

\* Mutant: no second check under the lock.
RevertTxnUnchecked(p) ==
    LET i == loc[p].payment
    IN  /\ pc[p] = "revertTxn"
        /\ RevertTo(p, Reverted(i), payments[i].fee, LiveSum(Reverted(i), payments[i].fee))

\* Mutant: the allocations of the payment stay.
RevertTxnKeepsAllocations(p) ==
    LET i == loc[p].payment
        ps == [Reverted(i) EXCEPT ![i].allocLive = TRUE]
    IN  /\ pc[p] = "revertTxn"
        /\ payments[i].live
        /\ RevertTo(p, ps, payments[i].fee, LiveSum(ps, payments[i].fee))

RevertTxn(p) ==
    LET i == loc[p].payment
        ps == Reverted(i)
    IN  /\ pc[p] = "revertTxn"
        /\ payments[i].live
        /\ RevertTo(p, ps, payments[i].fee, LiveSum(ps, payments[i].fee))

\* The re-check inside the lock: 400 Payment already reverted.
RevertAgain(p) ==
    /\ pc[p] = "revertTxn"
    /\ ~payments[loc[p].payment].live
    /\ Finish(p)
    /\ UNCHANGED ledger

-----------------------------------------------------------------------------
(* Extra items: four awaited statements, no transaction, no lock.           *)

\* The POST handler's copy of the month is the one it read first.
AddExtraRead(p, f) ==
    /\ Idle(p, "extras")
    /\ fee[f].exists
    /\ Goto(p, "addExtra", [fee |-> f, gen |-> fee[f].gen, total |-> fee[f].total, paid |-> fee[f].paid])
    /\ UNCHANGED ledger

\* The foreign key of the new item needs the month's row.
AddExtraInsert(p, e) ==
    LET l == loc[p]
    IN  /\ pc[p] = "addExtra"
        /\ Found(l)
        /\ e \notin usedIds
        /\ extras' = [extras EXCEPT ![l.fee] = @ \cup {e}]
        /\ usedIds' = usedIds \cup {e}
        /\ Goto(p, "sumExtra", l)
        /\ UNCHANGED <<fee, payments, carries>>

AddExtraFails(p) ==
    /\ pc[p] = "addExtra"
    /\ ~Found(loc[p]) \/ usedIds = ExtraIds
    /\ Finish(p)
    /\ UNCHANGED ledger

AddExtraSum(p) ==
    LET l == loc[p]
    IN  /\ pc[p] = "sumExtra"
        /\ Goto(p, "writeStatus",
                [fee |-> l.fee, gen |-> l.gen,
                 status |-> FeeStatus(l.paid, l.total + ItemSum(l))])
        /\ UNCHANGED ledger

\* The DELETE handler removes the item, sums the rest, then reads the month.
DeleteExtra(p, f, e) ==
    /\ Idle(p, "extras")
    /\ e \in extras[f]
    /\ extras' = [extras EXCEPT ![f] = @ \ {e}]
    /\ Goto(p, "sumLeft", Id(f))
    /\ UNCHANGED <<fee, usedIds, payments, carries>>

DeleteExtraSum(p) ==
    /\ pc[p] = "sumLeft"
    /\ Goto(p, "readMonth", [fee |-> loc[p].fee, gen |-> loc[p].gen, extra |-> ItemSum(loc[p])])
    /\ UNCHANGED ledger

DeleteExtraRead(p) ==
    LET l == loc[p]
    IN  /\ pc[p] = "readMonth"
        /\ IF Found(l)
           THEN Goto(p, "writeStatus",
                     [fee |-> l.fee, gen |-> l.gen,
                      status |-> FeeStatus(fee[l.fee].paid, fee[l.fee].total + l.extra)])
           ELSE Finish(p)
        /\ UNCHANGED ledger

\* studentFee.update of the status alone; it fails when the row is gone.
WriteStatus(p) ==
    LET l == loc[p]
    IN  /\ pc[p] = "writeStatus"
        /\ fee' = IF Found(l)
                  THEN [fee EXCEPT ![l.fee].status = l.status] ELSE fee
        /\ Finish(p)
        /\ UNCHANGED <<extras, usedIds, payments, carries>>

-----------------------------------------------------------------------------
(* POST /student-fees/generate in its three modes and /recalculate.         *)

\* generate: the month is looked up, then created (unique per month).
GenerateRead(p, f) ==
    /\ Idle(p, "generate")
    /\ ~fee[f].exists
    /\ Goto(p, "create", Id(f))
    /\ UNCHANGED ledger

\* A month with nothing to charge is not created.
GenerateCreate(p, b) ==
    LET f == loc[p].fee
    IN  /\ pc[p] = "create"
        /\ fee[f].gen < MaxGen
        /\ fee' = IF ~fee[f].exists /\ HeadSum(b) > 0
                  THEN [fee EXCEPT ![f] = Row(b, @.gen + 1)] ELSE fee
        /\ Finish(p)
        /\ UNCHANGED <<extras, usedIds, payments, carries>>

\* regenerate: months read with paidAmount = 0 are deleted one by one ...
RegenerateRead(p, f) ==
    /\ Idle(p, "regenerate")
    /\ fee[f].exists
    /\ fee[f].paid = 0
    /\ Goto(p, "delete", Id(f))
    /\ UNCHANGED ledger

\* ... by the row's id, which a payment of the month forbids (ON DELETE
\* RESTRICT; a reverted payment is still a row): the request then fails.
Deletable(f) == \A i \in DOMAIN payments : payments[i].fee # f

RegenerateDelete(p) ==
    LET f == loc[p].fee
    IN  /\ pc[p] = "delete"
        /\ IF Found(loc[p]) /\ Deletable(f)
           THEN /\ fee' = [fee EXCEPT ![f] = NoRow(@.gen)]
                /\ extras' = [extras EXCEPT ![f] = {}]
                \* ON DELETE CASCADE of both keys: the rows that charge this month,
                \* and the rows by which other months were charged from it.
                /\ carries' = [g \in Fees |-> [h \in Fees |-> IF f \in {g, h} THEN 0 ELSE carries[g][h]]]
                /\ Goto(p, "create", loc[p])
           ELSE /\ UNCHANGED <<fee, extras, carries>>
                /\ Finish(p)
        /\ UNCHANGED <<usedIds, payments>>

\* update: the new amounts and a status computed from what was read.
UpdateRead(p, f, b) ==
    /\ Idle(p, "update")
    /\ fee[f].exists
    /\ HeadSum(b) > 0
    /\ HeadSum(b) # fee[f].net
    /\ Goto(p, "updateWrite",
            [fee |-> f, gen |-> fee[f].gen, heads |-> b,
             status |-> FeeStatus(fee[f].paid, HeadSum(b) + ExtraSum(f))])
    /\ UNCHANGED ledger

\* Mutant: the row is written afresh.
UpdateWriteResets(p) ==
    LET l == loc[p]
    IN  /\ pc[p] = "updateWrite"
        /\ fee' = IF Found(l) THEN [fee EXCEPT ![l.fee] = Row(l.heads, l.gen)] ELSE fee
        /\ Finish(p)
        /\ UNCHANGED <<extras, usedIds, payments, carries>>

UpdateWrite(p) ==
    LET l == loc[p]
    IN  /\ pc[p] = "updateWrite"
        /\ fee' = IF Found(l)
                  THEN [fee EXCEPT ![l.fee].heads = l.heads,
                          ![l.fee].total = HeadSum(l.heads),
                          ![l.fee].net = HeadSum(l.heads),
                          ![l.fee].status = l.status]
                  ELSE fee
        /\ Finish(p)
        /\ UNCHANGED <<extras, usedIds, payments, carries>>

\* recalculate: the amounts alone; the status is left as it was.
RecalculateRead(p, f, b) ==
    /\ Idle(p, "recalculate")
    /\ fee[f].exists
    /\ HeadSum(b) > 0
    /\ HeadSum(b) # fee[f].total
    /\ Goto(p, "recalcWrite", [fee |-> f, gen |-> fee[f].gen, heads |-> b])
    /\ UNCHANGED ledger

RecalculateWrite(p) ==
    LET l == loc[p]
    IN  /\ pc[p] = "recalcWrite"
        /\ fee' = IF Found(l)
                  THEN [fee EXCEPT ![l.fee].heads = l.heads,
                          ![l.fee].total = HeadSum(l.heads),
                          ![l.fee].net = HeadSum(l.heads)]
                  ELSE fee
        /\ Finish(p)
        /\ UNCHANGED <<extras, usedIds, payments, carries>>

-----------------------------------------------------------------------------
(* POST /fees/carry-forward: what an archived month still owes is added to  *)
(* a month of the current year.  Both rows are read before the transaction. *)

CarryRead(p, from, to) ==
    /\ Idle(p, "carry")
    /\ from \in scene.archived /\ to \in scene.months \ scene.archived
    /\ fee[from].exists /\ fee[to].exists
    /\ fee[from].net > fee[from].paid
    /\ Goto(p, "carryTxn", [fee |-> to, gen |-> fee[to].gen, from |-> Id(from),
                            net |-> fee[to].net, amount |-> fee[from].net - fee[from].paid])
    /\ UNCHANGED ledger

\* The foreign keys of the new row need both months.
Linked(l) == Found(l) /\ Found(l.from)
Carried(f) == SumFunction(carries[f])

\* The row is added, and netAmount becomes net.
CarryTo(p, net) ==
    LET l == loc[p]
    IN  /\ pc[p] = "carryTxn" /\ Linked(l)
        /\ Carried(l.fee) + l.amount <= scene.maxCarried
        /\ carries' = [carries EXCEPT ![l.fee][l.from.fee] = @ + l.amount]
        /\ fee' = [fee EXCEPT ![l.fee].net = net]
        /\ Finish(p)
        /\ UNCHANGED <<extras, usedIds, payments>>

\* Mutant: the row is written from what was read.
CarryTxnFromRead(p) == CarryTo(p, loc[p].net + loc[p].amount)

\* netAmount is incremented; the source and the target's status stay.
CarryTxn(p) == CarryTo(p, fee[loc[p].fee].net + loc[p].amount)

\* A month is gone: the foreign key refuses the row, the request fails.
CarryFails(p) ==
    /\ pc[p] = "carryTxn" /\ ~Linked(loc[p])
    /\ Finish(p)
    /\ UNCHANGED ledger

-----------------------------------------------------------------------------
(* Selections and batches a client can send: at most two months.            *)

Selections(S) == UNION {[T -> Amounts] : T \in {T \in SUBSET S : Cardinality(T) <= 2}}
\* At most one head and one extra are selected, with any amount.
HeadSelections == {NoAlloc} \cup
    {[NoAlloc EXCEPT ![k] = a] : k \in Keys, a \in Amounts}

PaymentNext(p) ==
    \/ \E f \in Fees, a \in Amounts : PayRead(p, f, a)
    \/ PayTxn(p) \/ PayGone(p)
    \/ \E a \in Amounts : Waterfall(p, a)
    \/ \E prev \in Selections(Fees), c \in Fees, line \in HeadSelections : \E alloc \in Asked(line) :
         Allocate(p, prev, c, line, alloc) \/ FamilyAllocate(p, prev, c, line, alloc)
    \/ \E batch \in Selections(Fees) : FamilyPay(p, batch)
    \/ \E i \in DOMAIN payments : RevertRead(p, i)
    \/ RevertTxn(p) \/ RevertAgain(p)

FeeNext(p) ==
    \/ \E f \in Fees : AddExtraRead(p, f)
    \/ \E e \in ExtraIds : AddExtraInsert(p, e)
    \/ AddExtraFails(p) \/ AddExtraSum(p)
    \/ \E f \in Fees, e \in ExtraIds : DeleteExtra(p, f, e)
    \/ DeleteExtraSum(p) \/ DeleteExtraRead(p) \/ WriteStatus(p)
    \/ \E f \in Fees : GenerateRead(p, f) \/ RegenerateRead(p, f)
    \/ \E b \in scene.breakdowns : GenerateCreate(p, b)
    \/ RegenerateDelete(p)
    \/ \E f \in Fees, b \in scene.breakdowns : UpdateRead(p, f, b) \/ RecalculateRead(p, f, b)
    \/ UpdateWrite(p) \/ RecalculateWrite(p)
    \/ \E from, to \in Fees : CarryRead(p, from, to)
    \/ CarryTxn(p) \/ CarryFails(p)

Next == \E p \in Requests : PaymentNext(p) \/ FeeNext(p)

Spec == Init /\ [][Next]_vars

-----------------------------------------------------------------------------
(* Properties.                                                             *)

RowType == [exists : BOOLEAN, gen : Nat, heads : [Heads -> Nat], total : Nat,
            net : Nat, paid : Nat, status : Statuses]
PaymentType == [fee : Fees, amount : Nat, alloc : [Keys -> Nat], live : BOOLEAN,
                allocLive : BOOLEAN, reverts : Nat]

\* The rows keep their types: no handler drives paidAmount or a head below 0.
TypeOK ==
    /\ fee \in [Fees -> RowType]
    /\ extras \in [Fees -> SUBSET ExtraIds]
    /\ usedIds \subseteq ExtraIds
    /\ payments \in Seq(PaymentType)
    /\ carries \in [Fees -> [Fees -> Nat]]
    /\ DOMAIN pc = Requests /\ DOMAIN loc = Requests

\* Every month's paidAmount is the sum of its payments that were not reverted,
\* however payments, reverts and fee edits interleave: the handlers that add to
\* the old paidAmount and those that re-aggregate it agree.  A regeneration never
\* deletes a month that received a payment between its look-up and its delete.
PaidMatchesPayments ==
    /\ \A f \in Fees : fee[f].paid = LiveSum(payments, f)
    /\ \A i \in DOMAIN payments : fee[payments[i].fee].exists

\* Two requests that revert the same payment reverse it once (one audit row).
RevertedAtMostOnce == \A i \in DOMAIN payments : payments[i].reverts <= 1

\* What is held against the heads and extras of a month is money the month still
\* has: a revert releases the allocations of the payment it voids.
AllocatedWithinPaid ==
    \A f \in Fees :
        SumFunctionOnSet([k \in Keys |-> Allocated(payments, f, k)], Keys) <= fee[f].paid

OverAllocates(f, k) ==
    /\ Allocated(payments', f, k) > Allocated(payments, f, k)
    /\ Allocated(payments', f, k) > IF k \in Heads THEN fee[f].heads[k] ELSE ExtraAmount

\* An allocation never takes an extra, or a head that has an id, beyond its price on
\* the month, counting every allocation to it that was not reverted, when every
\* request names it in one line.
HeadsNeverOverAllocated ==
    [][~scene.repeats => \A f \in Fees, k \in Keys \ Unnumbered : ~OverAllocates(f, k)]_vars

\* What the comment on the current month of /payments/allocate says of every head
\* and extra: validated against its price minus what was allocated to it before.
AllocatedWithinPrice == [][\A f \in Fees, k \in Keys : ~OverAllocates(f, k)]_vars

\* A waterfall payment settles months oldest first: a month receives money only
\* when every older unpaid month owes nothing afterwards.
WaterfallOldestFirst ==
    [][\A p \in Requests, a \in Amounts : Waterfall(p, a) =>
         \A f \in WaterfallLocked : fee'[f].paid > fee[f].paid =>
            \A g \in WaterfallLocked : g < f => fee'[g].paid >= TotalDue(g)]_vars

\* With no request running, the status of a month says what it owes.  It holds
\* when requests run one at a time and amounts change through "update" only.
StatusTellsDue ==
    (\E p \in Requests : scene.staff = {p}) /\ (\A p \in Requests : pc[p] = "idle")
        /\ {"recalculate", "carry"} \cap scene.handlers = {} =>
        \A f \in Fees : fee[f].exists => fee[f].status = FeeStatus(fee[f].paid, TotalDue(f))

\* The arrears carried into a month stay charged: its netAmount is the price of
\* its heads and every carry that names it.
CarriedStaysCharged ==
    \A f \in Fees : fee[f].exists => fee[f].net = fee[f].total + Carried(f)

\* The archived months still have the rows they began with.
SourcesKept == \A g \in scene.archived \cap scene.months : fee[g].exists /\ fee[g].gen = 0

\* As long as nobody reprices months, concurrent carries, payments, extras and
\* regenerations take no carried amount away, and none is charged that no row
\* explains unless the month it came from was regenerated.
CarriesAddUp ==
    {"update", "recalculate"} \cap scene.handlers = {} =>
        /\ \A f \in Fees : fee[f].exists => fee[f].net >= fee[f].total + Carried(f)
        /\ SourcesKept => CarriedStaysCharged

\* The ledger as a whole: it is well typed, a payment is reverted once, and carried
\* arrears add up.
LedgerSound == TypeOK /\ RevertedAtMostOnce /\ CarriesAddUp

\* What a payment is allocated to: the oldest month first, no head beyond its price.
AllocatedInOrder == WaterfallOldestFirst /\ HeadsNeverOverAllocated
=============================================================================
