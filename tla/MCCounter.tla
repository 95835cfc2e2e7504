------------------------------- MODULE MCCounter -------------------------------
(* Small instances of the stationery store and of the split of a canteen     *)
(* sale, beside the parts of MCChat and of the office (MCSchool).            *)
EXTENDS MCChat

CONSTANTS
    Counters, Carts,    \* scenes of the store; the carts that are split
    R1, R2, R3

VARIABLES
    supplier, bought, stock, moved, charged, paid,  \* Stationery
    request, pool, records, stage                   \* SaleSplit

Tellers == {R1, R2, R3}
\* The requests are interchangeable: the scenes name all of them, each pair or each alone.
Symmetric == Permutations(Tellers)

-----------------------------------------------------------------------------
(* Stationery: pens in bundles of three, and books.                        *)

Shelf == {"pen", "book"}
Line(x, n) == [product |-> x, quantity |-> n]
Counter(s) == [part |-> "store", staff |-> s, handlers |-> {"assign", "adjust", "restock"}, maxCalls |-> 3,
               carts |-> {<<Line(x, n)>> : x \in Shelf, n \in {1, 2, 4}}
                           \cup {<<Line("pen", n), Line("book", 2)>> : n \in {1, 4}}]
Alone(p) == [part |-> "store", staff |-> {p}, handlers |-> {"pay", "restock"}, maxCalls |-> 5,
             carts |-> {<<Line("pen", 1)>>, <<Line("pen", 2)>>}]
AllCounters == {Counter(s) : s \in {t \in SUBSET Tellers : Cardinality(t) = 2}} \cup {Alone(p) : p \in Tellers}
Store == INSTANCE Stationery WITH
            Products <- Shelf, Upb <- [x \in Shelf |-> IF x = "pen" THEN 3 ELSE 1], Opening <- 4,
            Suppliers <- {N1}, Requests <- Tellers, Amounts <- {1, 2}, NoCall <- Nothing,
            Deltas <- {<<0, 1>>, <<1, -1>>, <<-1, 0>>, <<-1, 2>>, <<0, -2>>}, Scenes <- Counters
ASSUME Store!StoreAssumption
ASSUME Store!ScenesAssumption

-----------------------------------------------------------------------------
(* SaleSplit: at most three lines of two products at 2 and 5.              *)

Cart == {Line(x, n) : x \in Shelf, n \in 1..2}
ShortCarts == {<<a>> : a \in Cart} \cup {<<a, b>> : a, b \in Cart}
                \cup {<<a, b, a>> : a, b \in {Line(x, 1) : x \in Shelf}}
ShortShares == {<<>>} \cup {<<m>> : m \in 1..8} \cup {<<m, n>> : m, n \in 1..6}
                 \cup {<<m, n, 1>> : m, n \in 1..4}
Split == INSTANCE SaleSplit WITH
            Products <- Shelf, Price <- [x \in Shelf |-> IF x = "pen" THEN 2 ELSE 5],
            Carts <- Carts, Amounts <- 0..12, Shares <- ShortShares, Tolerance <- 1
ASSUME Split!SplitAssumption

-----------------------------------------------------------------------------

storeVars == <<supplier, bought, stock, moved, charged, paid>>
splitVars == <<request, pool, records, stage>>
counterVars == <<storeVars, splitVars>>
NoStore ==
    /\ supplier = Nothing /\ bought = Nothing /\ stock = Nothing
    /\ moved = Nothing /\ charged = Nothing /\ paid = Nothing
NoSplit == request = Nothing /\ pool = Nothing /\ records = Nothing /\ stage = Nothing
NoCounter == NoStore /\ NoSplit
CounterInit ==
    /\ db = Nothing /\ NoChat /\ NoNews /\ NoQuestion
    /\ \/ area = "store" /\ Store!Init /\ NoSplit
       \/ area = "split" /\ Split!Init /\ NoStore /\ NoCalls
CounterNext ==
    /\ UNCHANGED <<area, db, chatVars, newsVars, mayVars>>
    /\ \/ area = "store" /\ Store!Next /\ UNCHANGED splitVars
       \/ area = "split" /\ Split!Next /\ UNCHANGED <<calls, pc, loc, scene, storeVars>>

\* Stationery: what is on the shelves is the opening stock and the movements, and what is
\* owed to a supplier is the purchases and the payments.
StoreSound == area = "store" => Store!TypeOK /\ Store!StockIsMovements /\ Store!BalanceIsLedger
\* SaleSplit: every unit of a sale ends on one record, the money matches the units, and
\* each amount buys whole units in the order of the lines.
SplitAddsUp == area = "split" => Split!TypeOK /\ Split!SplitAddsUp /\ Split!GreedyInOrder
=============================================================================
