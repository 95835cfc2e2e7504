------------------------------ MODULE Stationery ------------------------------
(***************************************************************************)
(* The stationery store: stock in bundles and loose units next to the log   *)
(* of stock movements, what is assigned to students' fees, and the supplier *)
(* balances next to the ledger of purchases and payments.                   *)
(*                                                                         *)
(* An assignment, an adjustment and a payment lock the row they change and  *)
(* are one step.  A restock reads its supplier before it locks anything and *)
(* writes the balance last: it is three steps.  Its product rows are locked *)
(* and written in the last one (no step of another request lies between).   *)
(***************************************************************************)
EXTENDS Integers, SequencesExt

CONSTANTS
    Products,   \* rows of stationary_products of the branch
    Upb,        \* Upb[x]: units in a bundle of x, 1 if it has none
    Suppliers,  \* rows of stationary_suppliers
    Requests,   \* concurrent requests
    Amounts,    \* amounts of a payment; the unit cost of a restock is 1
    Deltas,     \* bundles and units an adjustment may add
    Opening,    \* the stock a product starts with, in units
    Scenes,     \* who calls which handlers, and with what
    NoCall      \* the locals of a request that is not running

StoreAssumption ==
    /\ Upb \in [Products -> Nat \ {0}]
    /\ Amounts \subseteq Nat \ {0} /\ Deltas \subseteq Int \X Int
    /\ Opening \in Nat
\* carts: the lists of lines an assignment or a restock may have; maxCalls: bound.
ScenesAssumption ==
    \A s \in Scenes : /\ s.staff \subseteq Requests /\ s.maxCalls \in Nat
                      /\ s.carts \subseteq Seq([product : Products, quantity : Nat \ {0}])

VARIABLES
    stock,      \* stock[x]: stockBundles and stockUnits
    moved,      \* moved[x]: the sum of the stock movements, in units
    charged,    \* charged[x]: units of x on record items, each with its extra item
    supplier,   \* supplier[s]: balanceOwedToSupplier and balanceSupplierOwesUs
    bought,     \* bought[s]: the sum of the restock purchases
    paid,       \* paid[s]: the sum of our payments less the sum of theirs
    scene,      \* the scene of this behaviour; it never changes
    calls, pc, loc

store == <<stock, moved, charged>>
debts == <<supplier, bought, paid>>
vars == <<store, debts, scene, calls, pc, loc>>

MaxOf(m, n) == IF m >= n THEN m ELSE n
ProductsOf(lines) == {lines[i].product : i \in DOMAIN lines}
UnitsOf(lines, x) == FoldLeft(LAMBDA n, l : n + IF l.product = x THEN l.quantity ELSE 0, 0, lines)
CostOf(lines) == FoldLeft(LAMBDA n, l : n + l.quantity, 0, lines)
OnHand(x, row) == row.bundles * Upb[x] + row.units

\* The remainder of JavaScript has the sign of its left operand.
Remainder(n, d) == IF n >= 0 THEN n % d ELSE -((-n) % d)
Packed(x, n) == [bundles |-> n \div Upb[x], units |-> Remainder(n, Upb[x])]

Init ==
    /\ stock = [x \in Products |-> Packed(x, Opening)]
    /\ moved = [x \in Products |-> 0]
    /\ charged = [x \in Products |-> 0]
    /\ supplier = [s \in Suppliers |-> [owed |-> 0, owesUs |-> 0]]
    /\ bought = [s \in Suppliers |-> 0]
    /\ paid = [s \in Suppliers |-> 0]
    /\ scene \in Scenes
    /\ calls = 0
    /\ pc = [p \in Requests |-> "idle"]
    /\ loc = [p \in Requests |-> NoCall]

Goto(p, label, l) ==
    /\ pc' = [pc EXCEPT ![p] = label]
    /\ loc' = [loc EXCEPT ![p] = l]
    /\ UNCHANGED scene
Begin(p, h) ==
    /\ pc[p] = "idle" /\ p \in scene.staff /\ h \in scene.handlers
    /\ calls < scene.maxCalls /\ calls' = calls + 1

-----------------------------------------------------------------------------
(* Assignment to a student.                                                *)

\* The ids are joined into one parameter of IN (...): with two products the
\* query finds no row.
Found(lines) == LET ids == ProductsOf(lines) IN IF \E x \in ids : ids = {x} THEN ids ELSE {}

\* Every line is compared with the stock before any of them is taken.
Enough(lines) ==
    \A i \in DOMAIN lines :
        lines[i].quantity <= OnHand(lines[i].product, stock[lines[i].product])

\* Line after line, each from what the one before left.
Sold(rows, lines) ==
    FoldLeft(LAMBDA r, l : [r EXCEPT ![l.product] =
                 Packed(l.product, OnHand(l.product, @) - l.quantity)], rows, lines)

Assign(p, lines) ==
    /\ Begin(p, "assign")
    /\ Found(lines) = ProductsOf(lines)
    /\ Enough(lines)
    /\ stock' = Sold(stock, lines)
    /\ moved' = [x \in Products |-> moved[x] - UnitsOf(lines, x)]
    /\ charged' = [x \in Products |-> charged[x] + UnitsOf(lines, x)]
    /\ UNCHANGED <<debts, scene, pc, loc>>

\* POST /stationary/inventory/adjust
Adjust(p, x, d) ==
    LET new == [bundles |-> stock[x].bundles + d[1], units |-> stock[x].units + d[2]]
    IN  /\ Begin(p, "adjust")
        /\ d # <<0, 0>>
        /\ new.bundles >= 0 /\ new.units >= 0
        /\ stock' = [stock EXCEPT ![x] = new]
        /\ moved' = [moved EXCEPT ![x] = @ + d[1] * Upb[x] + d[2]]
        /\ UNCHANGED <<charged, debts, scene, pc, loc>>

-----------------------------------------------------------------------------
(* Suppliers.                                                              *)

\* The purchase row refers to its supplier: until the restock commits, no other
\* transaction can lock the supplier FOR UPDATE.
Referenced(s) == \E q \in Requests : pc[q] = "restocking" /\ loc[q].supplier = s

\* Mutant: what is paid beyond the debt is not booked the other way.
SettledNoOverflow(debt, claim, amount) ==
    [debt |-> MaxOf(0, debt - amount), claim |-> claim]

\* The UPDATE with GREATEST: down to zero, the rest becomes a claim.
Settled(debt, claim, amount) ==
    [debt |-> MaxOf(0, debt - amount), claim |-> claim + MaxOf(0, amount - debt)]

\* POST /stationary/suppliers/:id/payments
WePaySupplier(p, s, a) ==
    LET new == Settled(supplier[s].owed, supplier[s].owesUs, a)
    IN  /\ Begin(p, "pay") /\ ~Referenced(s)
        /\ supplier' = [supplier EXCEPT ![s] = [owed |-> new.debt, owesUs |-> new.claim]]
        /\ paid' = [paid EXCEPT ![s] = @ + a]
        /\ UNCHANGED <<store, bought, scene, pc, loc>>

SupplierPaysUs(p, s, a) ==
    LET new == Settled(supplier[s].owesUs, supplier[s].owed, a)
    IN  /\ Begin(p, "pay") /\ ~Referenced(s)
        /\ supplier' = [supplier EXCEPT ![s] = [owed |-> new.claim, owesUs |-> new.debt]]
        /\ paid' = [paid EXCEPT ![s] = @ - a]
        /\ UNCHANGED <<store, bought, scene, pc, loc>>

\* POST /stationary/restock-purchases: the supplier is read ...
RestockRead(p, s, lines) ==
    /\ Begin(p, "restock")
    /\ Goto(p, "restock", [supplier |-> s, lines |-> lines, owed |-> supplier[s].owed])
    /\ UNCHANGED <<store, debts>>

\* ... the purchase is inserted ...
RestockInsert(p) ==
    /\ pc[p] = "restock"
    /\ Goto(p, "restocking", loc[p])
    /\ UNCHANGED <<store, debts, calls>>

\* Mutant: the units of a whole bundle are also added loose.
AddedTwice(rows, lines) ==
    FoldLeft(LAMBDA r, l : [r EXCEPT ![l.product] =
                 [bundles |-> @.bundles + l.quantity \div Upb[l.product],
                  units |-> @.units + l.quantity]], rows, lines)

\* A product without bundles gets loose units.
Added(rows, lines) ==
    FoldLeft(LAMBDA r, l : [r EXCEPT ![l.product] =
                 IF Upb[l.product] > 1
                 THEN [bundles |-> @.bundles + l.quantity \div Upb[l.product],
                       units |-> @.units + (l.quantity % Upb[l.product])]
                 ELSE [@ EXCEPT !.units = @ + l.quantity]], rows, lines)

\* ... the stock is counted up, row by row, and what was owed when the supplier
\* was read is written with the cost added.
RestockCommit(p) ==
    LET l == loc[p]
    IN  /\ pc[p] = "restocking"
        /\ stock' = Added(stock, l.lines)
        /\ moved' = [x \in Products |-> moved[x] + UnitsOf(l.lines, x)]
        /\ supplier' = [supplier EXCEPT ![l.supplier].owed = l.owed + CostOf(l.lines)]
        /\ bought' = [bought EXCEPT ![l.supplier] = @ + CostOf(l.lines)]
        /\ Goto(p, "idle", NoCall)
        /\ UNCHANGED <<charged, paid, calls>>

\* The process or the connection is lost: the transaction is rolled back.
Interrupt(p) ==
    /\ pc[p] # "idle"
    /\ Goto(p, "idle", NoCall)
    /\ UNCHANGED <<store, debts, calls>>

-----------------------------------------------------------------------------

Next ==
    \E p \in Requests :
        \/ \E lines \in scene.carts :
             \/ Assign(p, lines)
             \/ \E s \in Suppliers : RestockRead(p, s, lines)
        \/ \E x \in Products, d \in Deltas : Adjust(p, x, d)
        \/ \E s \in Suppliers, a \in Amounts : WePaySupplier(p, s, a) \/ SupplierPaysUs(p, s, a)
        \/ RestockInsert(p) \/ RestockCommit(p) \/ Interrupt(p)

Spec == Init /\ [][Next]_vars

-----------------------------------------------------------------------------
(* Properties.                                                             *)

TypeOK ==
    /\ stock \in [Products -> [bundles : Int, units : Int]]
    /\ moved \in [Products -> Int] /\ charged \in [Products -> Nat]
    /\ supplier \in [Suppliers -> [owed : Nat, owesUs : Nat]]
    /\ bought \in [Suppliers -> Nat] /\ paid \in [Suppliers -> Int]

\* The stock is the opening stock and what the movements add up to; and no product
\* is sold below zero, in bundles or in units, when a client lists each product once
\* (two lines of one product are each checked against all of it).
StockIsMovements ==
    /\ \A x \in Products : OnHand(x, stock[x]) = Opening + moved[x]
    /\ (\A c \in scene.carts : \A i, j \in DOMAIN c : c[i].product = c[j].product => i = j) =>
         \A x \in Products : stock[x].bundles >= 0 /\ stock[x].units >= 0

\* The balances of a supplier, one against the other, are what the purchases and
\* the payments in both directions come to, when requests run one at a time (a
\* restock writes a balance that it read without a lock).
BalanceIsLedger ==
    Cardinality(scene.staff) = 1 =>
        \A s \in Suppliers : supplier[s].owed - supplier[s].owesUs = bought[s] - paid[s]
=============================================================================
