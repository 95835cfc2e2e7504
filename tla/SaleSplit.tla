------------------------------- MODULE SaleSplit -------------------------------
(***************************************************************************)
(* How one canteen sale is divided into a cash record and credit records:   *)
(* whole units, in the order of the lines, as far as each amount reaches.   *)
(*                                                                         *)
(* Amounts are paise.  The request is chosen by Init; the rest is one       *)
(* transaction, taken one sale record at a time.  Stock and account         *)
(* balances are in CanteenStock and CanteenBalances.                        *)
(***************************************************************************)
EXTENDS Integers, SequencesExt

CONSTANTS
    Products,
    Price,      \* Price[x]: paise for a unit of x
    Carts,      \* the lists of lines a request may have
    Amounts,    \* cash and credit amounts
    Shares,     \* the lists of credit allocations a request may have
    Tolerance   \* paise by which entered amounts may miss the total (2)

\* What an instance has to fulfil.
SplitAssumption ==
    /\ Price \in [Products -> Nat]
    /\ Carts \subseteq Seq([product : Products, quantity : Nat \ {0}])
    /\ Amounts \subseteq Nat /\ Shares \subseteq Seq(Nat \ {0}) /\ Tolerance \in Nat

VARIABLES
    request,    \* its lines, its cash, its credit and the credit's allocations
    pool,       \* the lines not yet on a record
    records,    \* the canteen_sales rows
    stage       \* "asked", "credit" (cash recorded), "sold" or "refused"

vars == <<request, pool, records, stage>>

Near(a, b) == a - b \in -Tolerance..Tolerance
TotalOf(lines) == FoldLeft(LAMBDA n, l : n + l.quantity * Price[l.product], 0, lines)
SumSeq(s) == FoldLeft(LAMBDA m, n : m + n, 0, s)
UnitsOf(lines, x) == FoldLeft(LAMBDA n, l : n + IF l.product = x THEN l.quantity ELSE 0, 0, lines)

Init ==
    /\ request \in [lines : Carts, cash : Amounts, credit : Amounts, shares : Shares]
    /\ pool = request.lines
    /\ records = <<>>
    /\ stage = "asked"

\* Mutant: a line is taken whole or not at all.
AffordableWhole(line, budget) ==
    IF budget >= line.quantity * Price[line.product] THEN line.quantity ELSE 0

\* How many units of a line a budget buys.
Affordable(line, budget) ==
    IF Price[line.product] = 0 THEN line.quantity
    ELSE LET most == budget \div Price[line.product]
         IN  IF most < line.quantity THEN most ELSE line.quantity

Some(line, n) == IF n = 0 THEN <<>> ELSE <<[line EXCEPT !.quantity = n]>>

\* splitPricedItemsByAmount
Taking(lines, amount) ==
    FoldLeft(LAMBDA s, line :
                LET n == Affordable(line, s.budget)
                IN  [budget |-> s.budget - n * Price[line.product],
                     taken |-> s.taken \o Some(line, n),
                     remainder |-> s.remainder \o Some(line, line.quantity - n)],
             [budget |-> amount, taken |-> <<>>, remainder |-> <<>>], lines)

\* createSaleRecord
Record(type, lines, amount) == [type |-> type, lines |-> lines, total |-> amount]

\* createSaleWithPaymentSplit, the checks.
Accepted ==
    /\ request.cash + request.credit > 0
    /\ request.credit > 0 /\ request.shares # <<>> => Near(SumSeq(request.shares), request.credit)
    /\ Near(TotalOf(request.lines), request.cash + request.credit)

Refuse ==
    /\ stage = "asked" /\ ~Accepted
    /\ stage' = "refused"
    /\ UNCHANGED <<request, pool, records>>

\* The cash part; there is no record when neither money nor units fall to it.
SellForCash ==
    LET split == Taking(request.lines, request.cash)
        any == request.cash > 0 \/ split.taken # <<>>
    IN  /\ stage = "asked" /\ Accepted
        /\ records' = IF any THEN <<Record("CASH", split.taken, request.cash)>> ELSE <<>>
        /\ pool' = split.remainder
        /\ stage' = IF request.credit > 0 \/ split.remainder # <<>> THEN "credit" ELSE "sold"
        /\ UNCHANGED request

CreditRecords == SelectSeq(records, LAMBDA r : r.type = "CREDIT")

\* Mutant: the last allocation too takes no more than it pays for.
SellToShareStrictly ==
    LET i == Len(CreditRecords) + 1
        split == Taking(pool, request.shares[i])
    IN  /\ stage = "credit" /\ request.credit > 0 /\ request.shares # <<>>
        /\ records' = Append(records, Record("CREDIT", split.taken, request.shares[i]))
        /\ pool' = split.remainder
        /\ stage' = IF i = Len(request.shares) THEN "sold" ELSE "credit"
        /\ UNCHANGED request

\* One allocation: the last one takes all that is left.
SellToShare ==
    LET i == Len(CreditRecords) + 1
        last == i = Len(request.shares)
        split == Taking(pool, request.shares[i])
    IN  /\ stage = "credit" /\ request.credit > 0 /\ request.shares # <<>>
        /\ records' = Append(records,
               Record("CREDIT", IF last THEN pool ELSE split.taken, request.shares[i]))
        /\ pool' = IF last THEN <<>> ELSE split.remainder
        /\ stage' = IF last THEN "sold" ELSE "credit"
        /\ UNCHANGED request

\* No allocations: one credit record, also when only units are left for it.
SellOnAccount ==
    /\ stage = "credit" /\ ~(request.credit > 0 /\ request.shares # <<>>)
    /\ records' = Append(records, Record("CREDIT", pool, request.credit))
    /\ pool' = <<>>
    /\ stage' = "sold"
    /\ UNCHANGED request

Next == Refuse \/ SellForCash \/ SellToShare \/ SellOnAccount

Spec == Init /\ [][Next]_vars

-----------------------------------------------------------------------------
(* Properties.                                                             *)

TypeOK ==
    /\ pool \in Seq([product : Products, quantity : Nat \ {0}])
    /\ records \in Seq([type : {"CASH", "CREDIT"}, total : Nat,
                        lines : Seq([product : Products, quantity : Nat \ {0}])])
    /\ stage \in {"asked", "credit", "sold", "refused"}
    /\ stage \in {"asked", "refused"} => records = <<>>

\* A record that others follow holds no more than its amount pays for, and a
\* unit that follows did not fit: it costs more than what the amount had left.
GreedyInOrder ==
    \A i \in DOMAIN records : \A j \in DOMAIN records :
        i < j =>
            LET rest == records[i].total - TotalOf(records[i].lines)
            IN  /\ rest >= 0
                /\ \A k \in DOMAIN records[j].lines :
                     rest < Price[records[j].lines[k].product]

\* Every unit asked for ends on exactly one record, and the money on the records
\* misses the value of the units by no more than the two comparisons allow.
SplitAddsUp ==
    stage = "sold" =>
        /\ \A x \in Products :
             UnitsOf(request.lines, x)
               = SumSeq([i \in DOMAIN records |-> UnitsOf(records[i].lines, x)])
        /\ SumSeq([i \in DOMAIN records |-> records[i].total]) - TotalOf(request.lines)
             \in -(2 * Tolerance)..(2 * Tolerance)
=============================================================================
