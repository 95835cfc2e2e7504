----------------------------- MODULE CanteenStock -----------------------------
(***************************************************************************)
(* The stock of the canteen's products: sales, restock purchases and edits  *)
(* of a product, as canteen.service.ts runs them against PostgreSQL.        *)
(*                                                                         *)
(* A sale and a restock are transactions of several statements.  The lines   *)
(* they insert first refer to the products, so the foreign key check locks   *)
(* each product row (keyShare) before the stock is touched; a sale then      *)
(* takes the row FOR UPDATE, a restock reads it unlocked and writes back     *)
(* what it computed.  What a transaction writes is seen when it commits.     *)
(***************************************************************************)
EXTENDS Integers, Sequences, Functions, PgLocks

CONSTANTS
    Products,   \* rows of canteen_products
    Tills,      \* concurrent requests
    Keep,       \* a field that PATCH /products/:id is not given
    Shelves,    \* scenes: who calls which handlers, and with what
    NoCart      \* the locals of a request that is not running

\* unitsPerBox = 0 stands for null.
RowType == [boxes : Nat, units : Nat, upb : Nat, active : BOOLEAN]

\* unitsPerBoxOf
Upb(n) == IF n > 0 THEN n ELSE 1

\* What an edit sets, or Keep.
Edit == [boxes : Nat \cup {Keep}, units : Nat \cup {Keep}, upb : Nat \cup {Keep}, active : BOOLEAN \cup {Keep}]
Carts == Seq([product : Products, qty : Nat \ {0}])

ASSUME KeepAssumption == Keep \notin Nat /\ Keep \notin BOOLEAN

\* handlers[p]: what request p may call; carts: line items a client sends;
\* openings: rows a product can start from, normalised as every handler leaves them;
\* edits: what a product edit can set; maxCalls: bound, calls made.
ASSUME ShelvesAssumption ==
    \A s \in Shelves :
        /\ s \in [handlers : [Tills -> SUBSET STRING], carts : SUBSET Carts,
                  openings : SUBSET RowType, edits : SUBSET Edit, maxCalls : Nat]
        /\ \A row \in s.openings : row.units < Upb(row.upb)

VARIABLES
    product,    \* product[r]: the committed row
    locks,      \* the row locks held by open transactions
    opening,    \* history: the units a product started with
    delivered,  \* delivered[r]: units on committed purchase lines
    sold,       \* sold[r]: units on committed sale lines
    shelf,      \* the scene of this behaviour; it never changes
    begun,      \* number of calls made
    at,         \* at[p]: the next statement of request p
    local       \* local[p]: what request p has read or written, uncommitted

stockVars == <<product, locks, opening, delivered, sold, shelf, begun, at, local>>
records == <<opening, delivered, sold>>

\* totalStockUnits, normalizeStock, applyStockDelta
Total(row) == row.boxes * Upb(row.upb) + row.units
Boxed(total, upb) == [boxes |-> total \div Upb(upb), units |-> total % Upb(upb)]
WithStock(row, s) == [boxes |-> s.boxes, units |-> s.units, upb |-> row.upb, active |-> row.active]

Quantity(cart, r) ==
    SumFunctionOnSet([i \in DOMAIN cart |-> cart[i].qty], {i \in DOMAIN cart : cart[i].product = r})

StockInit ==
    /\ shelf \in Shelves
    /\ product \in [Products -> shelf.openings]
    /\ locks = {}
    /\ opening = [r \in Products |-> Total(product[r])]
    /\ delivered = [r \in Products |-> 0]
    /\ sold = [r \in Products |-> 0]
    /\ begun = 0
    /\ at = [p \in Tills |-> "idle"]
    /\ local = [p \in Tills |-> NoCart]

Move(p, label, l) ==
    /\ at' = [at EXCEPT ![p] = label]
    /\ local' = [local EXCEPT ![p] = l]
    /\ UNCHANGED shelf

Open(p, h) == at[p] = "idle" /\ h \in shelf.handlers[p] /\ begun < shelf.maxCalls /\ begun' = begun + 1

\* A transaction over a cart: its lines, the next one and its writes.
Txn(cart) == [lines |-> cart, next |-> 1, writes |-> <<>>, row |-> NoCart]
Line(p) == local[p].lines[local[p].next]
Lines(p) == local[p].next \in DOMAIN local[p].lines

\* aggregateSaleItemQuantities: a sale deducts product by product, in the order in which the
\* lines name them first.  The lines of products it has not deducted yet, and the first.
Undeducted(l) == {i \in DOMAIN l.lines : l.lines[i].product \notin DOMAIN l.writes}
FirstOf(S) == CHOOSE i \in S : \A j \in S : i <= j
Product(p) == local[p].lines[FirstOf(Undeducted(local[p]))].product
Left(p) == Undeducted(local[p]) # {}

Advance(l) == [l EXCEPT !.next = @ + 1]
Write(l, r, row) ==
    [l EXCEPT !.writes = [x \in DOMAIN @ \cup {r} |-> IF x = r THEN row ELSE @[x]]]

Rollback(p) ==
    /\ locks' = Release(locks, p)
    /\ Move(p, "idle", NoCart)
    /\ UNCHANGED <<product, records, begun>>

CommitWrites(p) ==
    /\ product' = [r \in Products |->
                    IF r \in DOMAIN local[p].writes THEN local[p].writes[r] ELSE product[r]]
    /\ locks' = Release(locks, p)
    /\ Move(p, "idle", NoCart)
    /\ UNCHANGED <<opening, begun>>

-----------------------------------------------------------------------------
(* createSale, createSaleWithPaymentSplit                                   *)

\* The products are read and each line checked before the transaction.
SaleRead(p, cart) ==
    /\ Open(p, "sale")
    /\ \A i \in DOMAIN cart :
         LET row == product[cart[i].product] IN row.active /\ Total(row) >= cart[i].qty
    /\ Move(p, "saleLines", Txn(cart))
    /\ UNCHANGED <<product, locks, records>>

\* Mutant: the lines are inserted without the foreign key's lock.
InsertLineUnlocked(p, here, next) ==
    /\ at[p] = here
    /\ IF Lines(p) THEN Move(p, here, Advance(local[p]))
       ELSE Move(p, next, [local[p] EXCEPT !.next = 1])
    /\ UNCHANGED <<product, locks, records, begun>>

\* The sale and its lines: the foreign key locks each product named.
InsertLine(p, here, next) ==
    /\ at[p] = here
    /\ IF Lines(p)
       THEN /\ Free(locks, Line(p).product, p, "keyShare")
            /\ locks' = Take(locks, Line(p).product, p, "keyShare")
            /\ Move(p, here, Advance(local[p]))
       ELSE /\ Move(p, next, [local[p] EXCEPT !.next = 1])
            /\ UNCHANGED locks
    /\ UNCHANGED <<product, records, begun>>

Deduct(row, qty) == WithStock(row, Boxed(Total(row) - qty, row.upb))

\* applySaleStockDeltas, one product: SELECT ... FOR UPDATE, then the
\* conditional UPDATE of the row as it is under the lock.
SaleDeduct(p) ==
    LET r == Product(p)
        row == product[r]
        qty == Quantity(local[p].lines, r)
    IN  /\ at[p] = "saleStock"
        /\ Left(p)
        /\ Free(locks, r, p, "update")
        /\ row.active /\ Total(row) >= qty
        /\ locks' = Take(locks, r, p, "update")
        /\ Move(p, "saleStock", Write(local[p], r, Deduct(row, qty)))
        /\ UNCHANGED <<product, records, begun>>

\* Mutant: the failed transaction is left open.
SaleRefusedOpen(p) ==
    LET r == Product(p)
    IN  /\ at[p] = "saleStock"
        /\ Left(p)
        /\ Free(locks, r, p, "update")
        /\ ~product[r].active \/ Total(product[r]) < Quantity(local[p].lines, r)
        /\ Move(p, "idle", NoCart)
        /\ UNCHANGED <<product, locks, records, begun>>

\* 400 Insufficient stock, or a product that is no longer active.
SaleRefused(p) ==
    LET r == Product(p)
    IN  /\ at[p] = "saleStock"
        /\ Left(p)
        /\ Free(locks, r, p, "update")
        /\ ~product[r].active \/ Total(product[r]) < Quantity(local[p].lines, r)
        /\ Rollback(p)

SaleCommit(p) ==
    /\ at[p] = "saleStock"
    /\ ~Left(p)
    /\ CommitWrites(p)
    /\ sold' = [r \in Products |-> sold[r] + Quantity(local[p].lines, r)]
    /\ UNCHANGED delivered

-----------------------------------------------------------------------------
(* createRestockPurchase                                                    *)

\* Two lines for one product are refused (the products found are fewer).
DeliveryRead(p, cart) ==
    /\ Open(p, "restock")
    /\ \A i, j \in DOMAIN cart : cart[i].product = cart[j].product => i = j
    /\ Move(p, "restockLines", Txn(cart))
    /\ UNCHANGED <<product, locks, records>>

\* findFirst takes no lock ...
RestockRowRead(p) ==
    /\ at[p] = "restockStock"
    /\ Lines(p)
    /\ Move(p, "restockWrite", [local[p] EXCEPT !.row = product[Line(p).product]])
    /\ UNCHANGED <<product, locks, records, begun>>

\* ... and the update writes the two numbers computed from it; the other
\* columns are those of the row as it is.
RestockRowWrite(p) ==
    LET r == Line(p).product
        read == local[p].row
        stock == Boxed(Total(read) + Line(p).qty, read.upb)
    IN  /\ at[p] = "restockWrite"
        /\ Free(locks, r, p, "noKeyUpdate")
        /\ locks' = Take(locks, r, p, "noKeyUpdate")
        /\ Move(p, "restockStock",
                Advance(Write(local[p], r, WithStock(product[r], stock))))
        /\ UNCHANGED <<product, records, begun>>

RestockCommit(p) ==
    /\ at[p] = "restockStock"
    /\ ~Lines(p)
    /\ CommitWrites(p)
    /\ delivered' = [r \in Products |-> delivered[r] + Quantity(local[p].lines, r)]
    /\ UNCHANGED sold

-----------------------------------------------------------------------------
(* updateProduct, deactivateProduct, and createProduct for a name that an   *)
(* inactive product already has.                                            *)

Given(new, old) == IF new = Keep THEN old ELSE new
\* data.unitsPerBox ?? product.unitsPerBox: null counts as not given.
GivenUpb(new, old) == IF new \in {Keep, 0} THEN old ELSE new

\* Mutant: the numbers are stored as they were sent.
StockPatchRaw(row, e) == [boxes |-> e.boxes, units |-> e.units]

\* The two stock columns the handler sets, or Keep.  A new box size counts the
\* boxes on hand as boxes of that size.
StockPatch(row, e) ==
    IF e.boxes # Keep \/ e.units # Keep
    THEN Boxed(Given(e.boxes, row.boxes) * Upb(GivenUpb(e.upb, row.upb)) + Given(e.units, row.units),
               GivenUpb(e.upb, row.upb))
    ELSE IF e.upb # Keep /\ e.upb # row.upb
         THEN Boxed(row.boxes * Upb(e.upb) + row.units, e.upb)
         ELSE [boxes |-> Keep, units |-> Keep]

EditRead(p, r, e) ==
    /\ Open(p, "edit")
    /\ Move(p, "editWrite", [product |-> r, edit |-> e, stock |-> StockPatch(product[r], e)])
    /\ UNCHANGED <<product, locks, records>>

\* createProduct sets a new box size and leaves the stock columns alone.
ReactivateRead(p, r, upb) ==
    /\ Open(p, "reactivate")
    /\ ~product[r].active
    /\ Move(p, "editWrite",
            [product |-> r, stock |-> [boxes |-> Keep, units |-> Keep],
             edit |-> [boxes |-> Keep, units |-> Keep, active |-> TRUE,
                       upb |-> IF upb = 0 THEN Keep ELSE upb]])
    /\ UNCHANGED <<product, locks, records>>

\* The columns that are given are set, the others stay as the row has them now.
Edited(l, row) ==
    [boxes |-> Given(l.stock.boxes, row.boxes), units |-> Given(l.stock.units, row.units),
     upb |-> Given(l.edit.upb, row.upb), active |-> Given(l.edit.active, row.active)]

EditWrite(p) ==
    LET l == local[p]
    IN  /\ at[p] = "editWrite"
        /\ Free(locks, l.product, p, "noKeyUpdate")
        /\ product' = [product EXCEPT ![l.product] = Edited(l, @)]
        /\ Move(p, "idle", NoCart)
        /\ UNCHANGED <<locks, records, begun>>

-----------------------------------------------------------------------------

\* What request p is waiting for.
Waits ==
    [p \in Tills |->
        IF at[p] \in {"saleLines", "restockLines"} /\ Lines(p)
        THEN Blockers(locks, Line(p).product, p, "keyShare")
        ELSE IF at[p] = "saleStock" /\ Left(p)
        THEN Blockers(locks, Product(p), p, "update")
        ELSE IF at[p] = "restockWrite" THEN Blockers(locks, Line(p).product, p, "noKeyUpdate")
        ELSE IF at[p] = "editWrite" THEN Blockers(locks, local[p].product, p, "noKeyUpdate")
        ELSE {}]

\* PostgreSQL rolls a transaction of a cycle back; the caller gets an error.
DeadlockVictim(p) == InCycle(Waits, p) /\ Rollback(p)

\* The process or the connection is lost, or Prisma's transaction time is up.
Interrupt(p) == at[p] # "idle" /\ Rollback(p)

Serve(p) ==
    \/ InsertLine(p, "saleLines", "saleStock")
    \/ SaleDeduct(p) \/ SaleRefused(p) \/ SaleCommit(p)
    \/ InsertLine(p, "restockLines", "restockStock")
    \/ RestockRowRead(p) \/ RestockRowWrite(p) \/ RestockCommit(p)
    \/ EditWrite(p)
    \/ DeadlockVictim(p)

StockNext ==
    \E p \in Tills :
        \/ \E cart \in shelf.carts : SaleRead(p, cart) \/ DeliveryRead(p, cart)
        \/ \E r \in Products, e \in shelf.edits : EditRead(p, r, e) \/ ReactivateRead(p, r, e.upb)
        \/ Serve(p) \/ Interrupt(p)

StockSpec == StockInit /\ [][StockNext]_stockVars

\* The event loop resumes a request whose statement has returned; a statement
\* that waits for a row is served in turn, so it does not wait for ever.
FairStockSpec == StockSpec /\ \A p \in Tills : SF_stockVars(Serve(p))

-----------------------------------------------------------------------------
(* Properties.                                                             *)

\* The rows keep their types: stock never goes below zero, whatever sales, restocks and
\* edits run at the same time.
ProductsTyped ==
    /\ product \in [Products -> RowType]
    /\ DOMAIN at = Tills /\ DOMAIN local = Tills

\* The stock on hand is the opening stock, plus what the purchase lines say was
\* bought, minus what the sale lines say was sold, to the unit.
StockMatchesRecords ==
    \A r \in Products : Total(product[r]) = opening[r] + delivered[r] - sold[r]

\* ... as long as no edit sets the stock and one request at a time restocks:
\* concurrent sales, deadlocks, rollbacks and a restock lose and invent nothing.
StockStands == \A e \in shelf.edits : e.boxes = Keep /\ e.units = Keep /\ e.upb = Keep
OneRestocker ==
    \A p, q \in Tills : "restock" \in shelf.handlers[p] \cap shelf.handlers[q] => p = q
StockAccountedFor == StockStands /\ OneRestocker => StockMatchesRecords

\* Every request ends: two transactions that wait for each other are broken up.
RequestEnds == \A p \in Tills : at[p] # "idle" ~> at[p] = "idle"

\* A boxed product's loose units stay below a full box, however it is edited:
\* "loose units (0 .. unitsPerBox-1 when boxed)" (schema.prisma:2856).
LooseUnitsFit ==
    \A r \in Products : product[r].upb > 0 => product[r].units < product[r].upb

\* ... as long as box sizes are edited by one request at a time, and a product that is
\* created anew does not get a smaller box than any before.
OneHand == \A p, q \in Tills : shelf.handlers[p] # {} /\ shelf.handlers[q] # {} => p = q
SizesStand == \A e \in shelf.edits : e.upb = Keep
NewSizes == {e.upb : e \in shelf.edits} \ {Keep, 0}
Sizes == NewSizes \cup {row.upb : row \in shelf.openings}
SizesGrow ==
    (\E p \in Tills : "reactivate" \in shelf.handlers[p]) => \A new \in NewSizes, size \in Sizes : size <= new

\* A product's row: stock is never negative, and loose units stay below a full box.
RowsSound == ProductsTyped /\ ((OneHand \/ SizesStand) /\ SizesGrow => LooseUnitsFit)
=============================================================================
