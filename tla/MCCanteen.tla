------------------------------- MODULE MCCanteen -------------------------------
(* Small instances of the canteen: a behaviour runs either the stock of two  *)
(* products, boxed and not (CanteenStock), or the debts of one supplier and  *)
(* one customer (CanteenBalances); the variables of the other part keep the  *)
(* values they start with.                                                   *)
EXTENDS CanteenBalances, CanteenStock

CONSTANTS a, b, r1, r2, r3

-----------------------------------------------------------------------------
(* The debts.                                                              *)

Trade == [staff |-> {r1, r2}, maxCalls |-> 4,
          handlers |-> {"supplierPayment", "restock", "supplier", "sale", "createAccount",
                        "accountPayment"}]
Viewed == [Trade EXCEPT !.handlers = {"supplierPayment", "restock", "sync"}]
Idle == [Trade EXCEPT !.staff = {}]
AllTrades == {Idle, Trade, [Viewed EXCEPT !.maxCalls = 3], [Viewed EXCEPT !.staff = {r1}, !.maxCalls = 5]}

-----------------------------------------------------------------------------
(* The stock.                                                              *)

Item(r, n) == [product |-> r, qty |-> n]
Row(boxes, units, upb, active) == [boxes |-> boxes, units |-> units, upb |-> upb, active |-> active]
KeepAll == Row(Keep, Keep, Keep, Keep)
Deactivate == [KeepAll EXCEPT !.active = FALSE]

\* One request sells or restocks, one sells, one sells or deactivates; the carts
\* name two products in both orders, one of them twice.
Sales ==
    [handlers |-> [p \in Tills |-> IF p = r1 THEN {"sale", "restock"}
                                     ELSE IF p = r2 THEN {"sale"} ELSE {"sale", "edit"}],
     carts |-> {<<Item(a, 1), Item(b, 1)>>, <<Item(b, 1), Item(a, 1), Item(a, 1)>>},
     openings |-> {Row(1, 1, 2, TRUE), Row(2, 0, 0, TRUE)},
     edits |-> {Deactivate}, maxCalls |-> 3]

\* One request at a time sets every field of a product, alone and with another
\* one, between sales and restocks.  A re-created product keeps its box size or
\* gets a larger one.
Edits ==
    [handlers |-> [p \in Tills |-> IF p = r1 THEN {"sale", "restock", "edit", "reactivate"} ELSE {}],
     carts |-> {<<Item(a, 1)>>, <<Item(a, 3)>>, <<Item(a, 1), Item(a, 2)>>},
     openings |-> {Row(1, 1, 2, x) : x \in BOOLEAN},
     edits |-> {KeepAll, Deactivate, Row(2, Keep, Keep, Keep), Row(Keep, 3, Keep, Keep),
                Row(Keep, 3, 0, Keep), Row(Keep, Keep, 3, Keep), Row(Keep, Keep, 0, Keep)},
     maxCalls |-> 4]

BothShelves == {Sales, Edits}

\* Two requests restock one product.
Restocks ==
    {[Sales EXCEPT !.handlers = [p \in Tills |-> IF p \in {r1, r2} THEN {"restock"} ELSE {}],
                   !.carts = {<<Item(a, 1)>>, <<Item(a, 3)>>}]}

-----------------------------------------------------------------------------

NoShelf == [handlers |-> [p \in Tills |-> {}], carts |-> {}, edits |-> {}, maxCalls |-> 0,
            openings |-> {Row(1, 1, 2, TRUE)}]
AllShelves == BothShelves \cup {NoShelf}

CanteenInit == Init /\ StockInit /\ (scene = Idle \/ shelf = NoShelf)
CanteenNext == \/ Next /\ UNCHANGED stockVars
               \/ StockNext /\ UNCHANGED vars
CanteenSpec == /\ CanteenInit /\ [][CanteenNext]_<<vars, stockVars>>
               /\ \A p \in Tills : SF_stockVars(Serve(p))
=============================================================================
