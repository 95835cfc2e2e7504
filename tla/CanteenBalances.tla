---------------------------- MODULE CanteenBalances ----------------------------
(***************************************************************************)
(* The canteen's debts: what is owed to a supplier and by a supplier, next  *)
(* to the ledger of purchases and payments, and the running balance of a    *)
(* credit account, next to its credit sales and payments.                   *)
(*                                                                         *)
(* Payments and restocks change the balances in place, under the row's      *)
(* lock.  The two supplier views recompute them from the ledger with no     *)
(* lock and write the result back when it differs.                          *)
(***************************************************************************)
EXTENDS Integers, FiniteSets

CONSTANTS
    Suppliers,  \* rows of canteen_suppliers
    Persons,    \* people who may buy on credit
    Requests,   \* concurrent requests
    Amounts,    \* amounts of a purchase, a payment or a sale
    Scenes,     \* who calls which handlers, and how often (maxCalls, a bound)
    NoCall      \* the locals of a request that is not running

ASSUME AmountsAssumption == Amounts \subseteq Nat \ {0}
ASSUME RequestsAssumption == IsFiniteSet(Requests)
ASSUME ScenesAssumption ==
    Scenes \subseteq [staff : SUBSET Requests, handlers : SUBSET STRING, maxCalls : Nat]

VARIABLES
    supplier,   \* supplier[s]: the two balances and isActive
    bought,     \* bought[s]: the sum of the purchases from s
    wePaid,     \* wePaid[s]: the sum of the payments to s
    theyPaid,   \* theyPaid[s]: the sum of the payments from s
    account,    \* account[x]: the credit account of x
    ordered,    \* ordered[x]: the sum of the credit sales to x
    repaid,     \* repaid[x]: the sum of the payments of x
    scene,      \* the scene of this behaviour; it never changes
    calls, pc, loc

ledger == <<bought, wePaid, theyPaid>>
credit == <<account, ordered, repaid>>
vars == <<supplier, ledger, credit, scene, calls, pc, loc>>

MaxOf(m, n) == IF m >= n THEN m ELSE n

Init ==
    /\ supplier = [s \in Suppliers |-> [owed |-> 0, owesUs |-> 0, active |-> TRUE]]
    /\ bought = [s \in Suppliers |-> 0]
    /\ wePaid = [s \in Suppliers |-> 0]
    /\ theyPaid = [s \in Suppliers |-> 0]
    /\ account = [x \in Persons |-> [exists |-> FALSE, balance |-> 0]]
    /\ ordered = [x \in Persons |-> 0]
    /\ repaid = [x \in Persons |-> 0]
    /\ scene \in Scenes
    /\ calls = 0
    /\ pc = [p \in Requests |-> "idle"]
    /\ loc = [p \in Requests |-> NoCall]

Goto(p, label, l) ==
    /\ pc' = [pc EXCEPT ![p] = label]
    /\ loc' = [loc EXCEPT ![p] = l]
    /\ UNCHANGED scene
Finish(p) == Goto(p, "idle", NoCall)
Begin(p, h) ==
    /\ pc[p] = "idle" /\ p \in scene.staff /\ h \in scene.handlers
    /\ calls < scene.maxCalls /\ calls' = calls + 1

-----------------------------------------------------------------------------
(* Suppliers.                                                              *)

\* Mutant: what is paid beyond the debt is not booked the other way.
SettledNoOverflow(debt, claim, amount) ==
    [debt |-> MaxOf(0, debt - amount), claim |-> claim]

\* Mutant: no floor at zero.
SettledBelowZero(debt, claim, amount) == [debt |-> debt - amount, claim |-> claim]

\* A payment of a debt: down to zero, the rest becomes a claim.
Settled(debt, claim, amount) ==
    [debt |-> MaxOf(0, debt - amount), claim |-> claim + MaxOf(0, amount - debt)]

\* logSupplierPayment, in one transaction under the row's lock.
WePaySupplier(p, s, a) ==
    LET new == Settled(supplier[s].owed, supplier[s].owesUs, a)
    IN  /\ Begin(p, "supplierPayment")
        /\ supplier' = [supplier EXCEPT ![s].owed = new.debt, ![s].owesUs = new.claim]
        /\ wePaid' = [wePaid EXCEPT ![s] = @ + a]
        /\ UNCHANGED <<bought, theyPaid, credit, scene, pc, loc>>

SupplierPaysUs(p, s, a) ==
    LET new == Settled(supplier[s].owesUs, supplier[s].owed, a)
    IN  /\ Begin(p, "supplierPayment")
        /\ supplier' = [supplier EXCEPT ![s].owesUs = new.debt, ![s].owed = new.claim]
        /\ theyPaid' = [theyPaid EXCEPT ![s] = @ + a]
        /\ UNCHANGED <<bought, wePaid, credit, scene, pc, loc>>

\* createRestockPurchase: the supplier is checked before the transaction, which
\* increments the debt and, when it is paid at once, decrements it again.
RestockRead(p, s, a, paidNow) ==
    /\ Begin(p, "restock")
    /\ supplier[s].active
    /\ Goto(p, "restock", [supplier |-> s, cost |-> a, paidNow |-> paidNow])
    /\ UNCHANGED <<supplier, ledger, credit>>

RestockTxn(p) ==
    LET l == loc[p]
        paid == IF l.paidNow THEN l.cost ELSE 0
    IN  /\ pc[p] = "restock"
        /\ supplier' = [supplier EXCEPT ![l.supplier].owed = @ + l.cost - paid]
        /\ bought' = [bought EXCEPT ![l.supplier] = @ + l.cost]
        /\ wePaid' = [wePaid EXCEPT ![l.supplier] = @ + paid]
        /\ Finish(p)
        /\ UNCHANGED <<theyPaid, credit, calls>>

\* updateSupplier, and createSupplier for a name an inactive supplier has.
SetActive(p, s, b) ==
    /\ Begin(p, "supplier")
    /\ supplier' = [supplier EXCEPT ![s].active = b]
    /\ UNCHANGED <<ledger, credit, scene, pc, loc>>

\* computeSupplierBalancesFromLedger
FromLedger(b, paid) ==
    LET net == b - paid.we + paid.they
    IN  [owed |-> MaxOf(0, net), owesUs |-> MaxOf(0, -net)]

\* listSuppliers, getSupplierDetail: the row, then the sum of the purchases and
\* the payments in either order (Promise.all).
SyncRead(p, s) ==
    /\ Begin(p, "sync")
    /\ Goto(p, "sync", [supplier |-> s, owed |-> supplier[s].owed, owesUs |-> supplier[s].owesUs,
                        purchases |-> {}, payments |-> {}])
    /\ UNCHANGED <<supplier, ledger, credit>>

SyncPurchases(p) ==
    /\ pc[p] = "sync" /\ loc[p].purchases = {}
    /\ Goto(p, "sync", [loc[p] EXCEPT !.purchases = {bought[loc[p].supplier]}])
    /\ UNCHANGED <<supplier, ledger, credit, calls>>

SyncPayments(p) ==
    /\ pc[p] = "sync" /\ loc[p].payments = {}
    /\ Goto(p, "sync", [loc[p] EXCEPT !.payments =
            {[we |-> wePaid[loc[p].supplier], they |-> theyPaid[loc[p].supplier]]}])
    /\ UNCHANGED <<supplier, ledger, credit, calls>>

\* Mutant: two balances that come to the same difference are left as they are.
SyncWriteDifference(p) ==
    LET l == loc[p]
    IN  /\ pc[p] = "sync"
        /\ \E b \in l.purchases, paid \in l.payments :
             LET new == FromLedger(b, paid)
             IN  supplier' = IF new.owed - new.owesUs = l.owed - l.owesUs THEN supplier
                             ELSE [supplier EXCEPT ![l.supplier].owed = new.owed,
                                                   ![l.supplier].owesUs = new.owesUs]
        /\ Finish(p)
        /\ UNCHANGED <<ledger, credit, calls>>

\* The stored balances are replaced when they differ from the computed ones.
SyncWrite(p) ==
    LET l == loc[p]
    IN  /\ pc[p] = "sync"
        /\ \E b \in l.purchases, paid \in l.payments :
             LET new == FromLedger(b, paid)
             IN  supplier' = IF new = [owed |-> l.owed, owesUs |-> l.owesUs] THEN supplier
                             ELSE [supplier EXCEPT ![l.supplier].owed = new.owed,
                                                   ![l.supplier].owesUs = new.owesUs]
        /\ Finish(p)
        /\ UNCHANGED <<ledger, credit, calls>>

-----------------------------------------------------------------------------
(* Credit accounts.                                                        *)

\* createAccount (amount 0) and resolveCreditAccountId: the account of the
\* person is looked up ...
AccountFind(p, h, x, a) ==
    /\ Begin(p, h)
    /\ Goto(p, "credit", [person |-> x, amount |-> a, found |-> account[x].exists,
                          read |-> account[x].balance])
    /\ UNCHANGED <<supplier, ledger, credit>>

\* ... incremented in place if it was found ...
Credit(p) ==
    LET l == loc[p]
    IN  /\ pc[p] = "credit"
        /\ l.found
        /\ account' = [account EXCEPT ![l.person].balance = @ + l.amount]
        /\ ordered' = [ordered EXCEPT ![l.person] = @ + l.amount]
        /\ Finish(p)
        /\ UNCHANGED <<supplier, ledger, repaid, calls>>

\* ... and created if not, unless another request has just done so: the unique
\* index fails the whole sale.
CreditNew(p) ==
    LET l == loc[p]
    IN  /\ pc[p] = "credit"
        /\ ~l.found
        /\ IF account[l.person].exists
           THEN UNCHANGED <<account, ordered>>
           ELSE /\ account' = [account EXCEPT ![l.person] = [exists |-> TRUE, balance |-> l.amount]]
                /\ ordered' = [ordered EXCEPT ![l.person] = @ + l.amount]
        /\ Finish(p)
        /\ UNCHANGED <<supplier, ledger, repaid, calls>>

\* recordAccountPayment, under the row's lock.
AccountPay(p, x, a) ==
    /\ Begin(p, "accountPayment")
    /\ account[x].exists
    /\ account' = [account EXCEPT ![x].balance = MaxOf(0, @ - a)]
    /\ repaid' = [repaid EXCEPT ![x] = @ + a]
    /\ UNCHANGED <<supplier, ledger, ordered, scene, pc, loc>>

-----------------------------------------------------------------------------

Next ==
    \E p \in Requests :
        \/ \E s \in Suppliers, a \in Amounts :
             \/ WePaySupplier(p, s, a) \/ SupplierPaysUs(p, s, a)
             \/ \E b \in BOOLEAN : RestockRead(p, s, a, b)
        \/ \E s \in Suppliers, b \in BOOLEAN : SetActive(p, s, b)
        \/ RestockTxn(p)
        \/ \E s \in Suppliers : SyncRead(p, s)
        \/ SyncPurchases(p) \/ SyncPayments(p) \/ SyncWrite(p)
        \/ \E x \in Persons : AccountFind(p, "createAccount", x, 0)
        \/ \E x \in Persons, a \in Amounts : AccountFind(p, "sale", x, a) \/ AccountPay(p, x, a)
        \/ Credit(p) \/ CreditNew(p)

Spec == Init /\ [][Next]_vars

-----------------------------------------------------------------------------
(* Properties.                                                             *)

\* No balance goes below zero.
TypeOK ==
    /\ supplier \in [Suppliers -> [owed : Nat, owesUs : Nat, active : BOOLEAN]]
    /\ bought \in [Suppliers -> Nat] /\ wePaid \in [Suppliers -> Nat]
    /\ theyPaid \in [Suppliers -> Nat]
    /\ account \in [Persons -> [exists : BOOLEAN, balance : Nat]]
    /\ ordered \in [Persons -> Nat] /\ repaid \in [Persons -> Nat]

\* The balances of a supplier, one against the other, are what the purchases and
\* the payments in both directions come to.
StoredIsLedger ==
    \A s \in Suppliers :
        supplier[s].owed - supplier[s].owesUs = bought[s] - wePaid[s] + theyPaid[s]

\* ... unless a view of the suppliers, which writes what it computed from rows
\* it read earlier, runs beside another request.
BalancesAgree ==
    "sync" \notin scene.handlers \/ Cardinality(scene.staff) = 1 => StoredIsLedger

\* Looking at a supplier when nothing else runs leaves the netted balances of
\* its ledger: what is owed in one direction only.
Settles ==
    \A p \in Requests : SyncWrite(p) /\ scene.staff = {p} =>
        LET s == loc[p].supplier
            new == FromLedger(bought[s], [we |-> wePaid[s], they |-> theyPaid[s]])
        IN  supplier'[s].owed = new.owed /\ supplier'[s].owesUs = new.owesUs
ListedIsSettled == [][Settles]_vars

\* No credit sale is lost from the balance of an account, and none is counted
\* twice: a person owes at least what was not repaid, at most what was ordered.
AccountBetween ==
    \A x \in Persons :
        /\ account[x].balance >= ordered[x] - repaid[x]
        /\ account[x].balance <= ordered[x]
=============================================================================
