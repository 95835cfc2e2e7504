----------------------------- MODULE CanteenProofs -----------------------------
(***************************************************************************)
(* Proofs about the canteen: its debts (CanteenBalances), for any           *)
(* suppliers, persons, amounts, scenes and finite set of requests, and its  *)
(* stock (CanteenStock), for any products, requests, carts and edits.       *)
(***************************************************************************)
EXTENDS CanteenBalances, CanteenStock, SumTheorems

-----------------------------------------------------------------------------
(* The debts.  The balances agree with the ledger because every transaction *)
(* changes both by the same difference.  A view, which writes what it       *)
(* computed from rows it read earlier, needs more: when it runs alone, what *)
(* it has read is still what is stored (ViewFresh).                         *)

RestockType == [supplier : Suppliers, cost : Nat, paidNow : BOOLEAN]
SyncType == [supplier : Suppliers, owed : Nat, owesUs : Nat, purchases : SUBSET Nat,
             payments : SUBSET [we : Nat, they : Nat]]
CreditType == [person : Persons, amount : Nat, found : BOOLEAN, read : Nat]

Shape ==
    /\ pc \in [Requests -> {"idle", "restock", "sync", "credit"}]
    /\ DOMAIN loc = Requests
    /\ \A p \in Requests : /\ pc[p] = "restock" => loc[p] \in RestockType
                           /\ pc[p] = "sync" => loc[p] \in SyncType
                           /\ pc[p] = "credit" => loc[p] \in CreditType

\* Only requests of the scene run, and views only where the scene has them.
OnScene ==
    /\ scene \in Scenes
    /\ \A p \in Requests : /\ pc[p] # "idle" => p \in scene.staff
                           /\ pc[p] = "sync" => "sync" \in scene.handlers

\* What a view that runs alone has read is still stored.
StillStored(l) ==
    /\ l.owed = supplier[l.supplier].owed /\ l.owesUs = supplier[l.supplier].owesUs
    /\ l.purchases \subseteq {bought[l.supplier]}
    /\ l.payments \subseteq {[we |-> wePaid[l.supplier], they |-> theyPaid[l.supplier]]}
ViewFresh == \A p \in Requests : scene.staff = {p} /\ pc[p] = "sync" => StillStored(loc[p])

\* BalancesAgree without Cardinality.
Agreed == "sync" \notin scene.handlers \/ (\E p \in Requests : scene.staff = {p}) => StoredIsLedger

\* A person without an account owes nothing, and an account is never removed.
Accounts ==
    /\ \A x \in Persons : ~account[x].exists => account[x].balance = 0 /\ ordered[x] = 0
    /\ \A p \in Requests : pc[p] = "credit" /\ loc[p].found => account[loc[p].person].exists

DebtInv == TypeOK /\ Shape /\ OnScene /\ ViewFresh /\ Agreed /\ Accounts /\ AccountBetween

-----------------------------------------------------------------------------
(* Arithmetic.                                                             *)

\* A payment takes its amount off the difference of debt and claim.
LEMMA SettledDifference ==
    ASSUME NEW debt \in Nat, NEW claim \in Nat, NEW amount \in Nat
    PROVE  /\ Settled(debt, claim, amount) \in [debt : Nat, claim : Nat]
           /\ Settled(debt, claim, amount).debt - Settled(debt, claim, amount).claim
                = debt - claim - amount
BY DEF Settled, MaxOf

\* The computed balances differ by what the ledger comes to.
LEMMA FromLedgerDifference ==
    ASSUME NEW b \in Nat, NEW paid \in [we : Nat, they : Nat]
    PROVE  /\ FromLedger(b, paid) \in [owed : Nat, owesUs : Nat]
           /\ FromLedger(b, paid).owed - FromLedger(b, paid).owesUs = b - paid.we + paid.they
BY DEF FromLedger, MaxOf

LEMMA AmountsAreNat == \A a \in Amounts : a \in Nat
BY AmountsAssumption

SupplierType == [owed : Nat, owesUs : Nat, active : BOOLEAN]

\* Rewriting the balances of a supplier with numbers keeps the type of the rows.
LEMMA RowsTyped ==
    ASSUME NEW rows \in [Suppliers -> SupplierType], NEW s \in Suppliers, NEW m \in Nat, NEW n \in Nat
    PROVE  /\ [rows EXCEPT ![s].owed = m] \in [Suppliers -> SupplierType]
           /\ [rows EXCEPT ![s].owed = m, ![s].owesUs = n] \in [Suppliers -> SupplierType]
           /\ [rows EXCEPT ![s].owesUs = n, ![s].owed = m] \in [Suppliers -> SupplierType]
BY DEF SupplierType

-----------------------------------------------------------------------------
(* Every step keeps the invariant.                                         *)

LEMMA DebtsStart == Init => DebtInv
<1> SUFFICES ASSUME Init PROVE DebtInv
  OBVIOUS
<1>1. TypeOK
  BY DEF Init, TypeOK
<1>2. Shape /\ OnScene /\ ViewFresh
  BY DEF Init, Shape, OnScene, ViewFresh
<1>3. Agreed
  BY DEF Init, Agreed, StoredIsLedger
<1>4. Accounts /\ AccountBetween
  BY DEF Init, Accounts, AccountBetween
<1> QED
  BY <1>1, <1>2, <1>3, <1>4 DEF DebtInv

\* A payment in either direction: one transaction, no locals.
LEMMA PaymentStep ==
    ASSUME DebtInv, NEW p \in Requests, NEW s \in Suppliers, NEW a \in Amounts,
           WePaySupplier(p, s, a) \/ SupplierPaysUs(p, s, a)
    PROVE  DebtInv'
<1>a. a \in Nat
  BY AmountsAreNat
<1>b. supplier[s].owed \in Nat /\ supplier[s].owesUs \in Nat
  BY DEF DebtInv, TypeOK
<1>c. /\ Settled(supplier[s].owed, supplier[s].owesUs, a) \in [debt : Nat, claim : Nat]
      /\ Settled(supplier[s].owesUs, supplier[s].owed, a) \in [debt : Nat, claim : Nat]
      /\ Settled(supplier[s].owed, supplier[s].owesUs, a).debt
           - Settled(supplier[s].owed, supplier[s].owesUs, a).claim
           = supplier[s].owed - supplier[s].owesUs - a
      /\ Settled(supplier[s].owesUs, supplier[s].owed, a).debt
           - Settled(supplier[s].owesUs, supplier[s].owed, a).claim
           = supplier[s].owesUs - supplier[s].owed - a
  BY <1>a, <1>b, SettledDifference
<1>1. TypeOK'
  <2>1. CASE WePaySupplier(p, s, a)
    <3>1. supplier' \in [Suppliers -> SupplierType]
      BY <1>c, <2>1, RowsTyped DEF DebtInv, TypeOK, WePaySupplier, SupplierType
    <3>2. wePaid' \in [Suppliers -> Nat]
      BY <1>a, <2>1 DEF DebtInv, TypeOK, WePaySupplier
    <3> QED
      BY <2>1, <3>1, <3>2 DEF DebtInv, TypeOK, WePaySupplier, credit, SupplierType
  <2>2. CASE SupplierPaysUs(p, s, a)
    <3>1. supplier' \in [Suppliers -> SupplierType]
      BY <1>c, <2>2, RowsTyped DEF DebtInv, TypeOK, SupplierPaysUs, SupplierType
    <3>2. theyPaid' \in [Suppliers -> Nat]
      BY <1>a, <2>2 DEF DebtInv, TypeOK, SupplierPaysUs
    <3> QED
      BY <2>2, <3>1, <3>2 DEF DebtInv, TypeOK, SupplierPaysUs, credit, SupplierType
  <2> QED
    BY <2>1, <2>2
<1>2. Shape' /\ OnScene'
  BY DEF DebtInv, Shape, OnScene, WePaySupplier, SupplierPaysUs
<1>3. ViewFresh'
  BY DEF DebtInv, Shape, OnScene, ViewFresh, WePaySupplier, SupplierPaysUs, Begin
<1>4. Agreed'
  <2>1. CASE WePaySupplier(p, s, a)
    BY <1>a, <1>b, <1>c, <2>1 DEF DebtInv, TypeOK, Agreed, StoredIsLedger, WePaySupplier
  <2>2. CASE SupplierPaysUs(p, s, a)
    BY <1>a, <1>b, <1>c, <2>2 DEF DebtInv, TypeOK, Agreed, StoredIsLedger, SupplierPaysUs
  <2> QED
    BY <2>1, <2>2
<1>5. Accounts' /\ AccountBetween'
  BY DEF DebtInv, Accounts, AccountBetween, WePaySupplier, SupplierPaysUs, credit
<1> QED
  BY <1>1, <1>2, <1>3, <1>4, <1>5 DEF DebtInv

LEMMA RestockFoundStep ==
    ASSUME DebtInv, NEW p \in Requests, NEW s \in Suppliers, NEW a \in Amounts, NEW b \in BOOLEAN,
           RestockRead(p, s, a, b)
    PROVE  DebtInv'
<1>a. a \in Nat
  BY AmountsAreNat
<1>1. TypeOK'
  BY DEF DebtInv, TypeOK, RestockRead, ledger, credit
<1>2. Shape' /\ OnScene'
  BY <1>a DEF DebtInv, Shape, OnScene, RestockRead, Begin, Goto, RestockType
<1>3. ViewFresh'
  BY DEF DebtInv, Shape, ViewFresh, StillStored, RestockRead, Goto, ledger
<1>4. Agreed'
  BY DEF DebtInv, Agreed, StoredIsLedger, RestockRead, Goto, ledger
<1>5. Accounts' /\ AccountBetween'
  BY DEF DebtInv, Shape, Accounts, AccountBetween, RestockRead, Goto, credit
<1> QED
  BY <1>1, <1>2, <1>3, <1>4, <1>5 DEF DebtInv

LEMMA RestockTxnStep ==
    ASSUME DebtInv, NEW p \in Requests, RestockTxn(p)
    PROVE  DebtInv'
<1>a. pc[p] = "restock" /\ loc[p] \in RestockType
  BY DEF DebtInv, Shape, RestockTxn
<1>c. loc[p].supplier \in Suppliers /\ loc[p].cost \in Nat /\ loc[p].paidNow \in BOOLEAN
  BY <1>a DEF RestockType
<1>b. PICK paid \in Nat :
      /\ paid <= loc[p].cost
      /\ supplier' = [supplier EXCEPT ![loc[p].supplier].owed = @ + loc[p].cost - paid]
      /\ bought' = [bought EXCEPT ![loc[p].supplier] = @ + loc[p].cost]
      /\ wePaid' = [wePaid EXCEPT ![loc[p].supplier] = @ + paid]
  <2>1. CASE loc[p].paidNow
    <3> USE <1>c
    <3> WITNESS loc[p].cost \in Nat
    <3> QED
      BY <2>1 DEF RestockTxn
  <2>2. CASE ~loc[p].paidNow
    <3> WITNESS 0 \in Nat
    <3> QED
      BY <1>c, <2>2 DEF RestockTxn
  <2> QED
    BY <1>c, <2>1, <2>2
<1>1. TypeOK'
  <2>1. /\ supplier[loc[p].supplier].owed \in Nat
        /\ supplier[loc[p].supplier].owed + loc[p].cost - paid \in Nat
    BY <1>b, <1>c DEF DebtInv, TypeOK
  <2>2. supplier' \in [Suppliers -> SupplierType]
    BY <1>b, <1>c, <2>1, RowsTyped DEF DebtInv, TypeOK, SupplierType
  <2>3. bought' \in [Suppliers -> Nat] /\ wePaid' \in [Suppliers -> Nat]
    BY <1>b, <1>c DEF DebtInv, TypeOK
  <2> QED
    BY <2>2, <2>3 DEF DebtInv, TypeOK, RestockTxn, credit, SupplierType
<1>2. Shape' /\ OnScene'
  BY DEF DebtInv, Shape, OnScene, RestockTxn, Finish, Goto
<1>3. ViewFresh'
  BY <1>a DEF DebtInv, Shape, OnScene, ViewFresh, RestockTxn, Finish, Goto
<1>4. Agreed'
  <2> SUFFICES ASSUME StoredIsLedger, NEW s \in Suppliers
               PROVE  (supplier[s].owed - supplier[s].owesUs = bought[s] - wePaid[s] + theyPaid[s])'
    BY DEF DebtInv, Agreed, StoredIsLedger, RestockTxn, Finish, Goto
  <2>1. /\ supplier[s].owed \in Nat /\ supplier[s].owesUs \in Nat /\ bought[s] \in Nat
        /\ wePaid[s] \in Nat /\ theyPaid[s] \in Nat
        /\ supplier[s].owed - supplier[s].owesUs = bought[s] - wePaid[s] + theyPaid[s]
    BY DEF DebtInv, TypeOK, StoredIsLedger
  <2>a. theyPaid'[s] = theyPaid[s]
    BY DEF RestockTxn
  <2>2. CASE s = loc[p].supplier
    <3>1. /\ supplier'[s].owed = supplier[s].owed + loc[p].cost - paid
          /\ supplier'[s].owesUs = supplier[s].owesUs
          /\ bought'[s] = bought[s] + loc[p].cost /\ wePaid'[s] = wePaid[s] + paid
      BY <1>b, <1>c, <2>1, <2>2 DEF DebtInv, TypeOK
    <3> QED
      BY <1>c, <2>1, <2>a, <3>1
  <2>3. CASE s # loc[p].supplier
    <3>1. supplier'[s] = supplier[s] /\ bought'[s] = bought[s] /\ wePaid'[s] = wePaid[s]
      BY <1>b, <1>c, <2>3 DEF DebtInv, TypeOK
    <3> QED
      BY <2>1, <2>a, <3>1
  <2> QED
    BY <2>2, <2>3
<1>5. Accounts' /\ AccountBetween'
  BY DEF DebtInv, Shape, Accounts, AccountBetween, RestockTxn, Finish, Goto, credit
<1> QED
  BY <1>1, <1>2, <1>3, <1>4, <1>5 DEF DebtInv

LEMMA SetActiveStep ==
    ASSUME DebtInv, NEW p \in Requests, NEW s \in Suppliers, NEW b \in BOOLEAN, SetActive(p, s, b)
    PROVE  DebtInv'
<1>1. TypeOK'
  BY DEF DebtInv, TypeOK, SetActive, ledger, credit
<1>2. Shape' /\ OnScene'
  BY DEF DebtInv, Shape, OnScene, SetActive
<1>3. ViewFresh'
  BY DEF DebtInv, Shape, OnScene, ViewFresh, SetActive, Begin
<1>4. Agreed'
  BY DEF DebtInv, TypeOK, Agreed, StoredIsLedger, SetActive, ledger
<1>5. Accounts' /\ AccountBetween'
  BY DEF DebtInv, Accounts, AccountBetween, SetActive, credit
<1> QED
  BY <1>1, <1>2, <1>3, <1>4, <1>5 DEF DebtInv

\* The reads of a view.
LEMMA SyncReadsStep ==
    ASSUME DebtInv, NEW p \in Requests,
           (\E s \in Suppliers : SyncRead(p, s)) \/ SyncPurchases(p) \/ SyncPayments(p)
    PROVE  DebtInv'
<1>a. UNCHANGED <<supplier, ledger, credit, scene>>
  BY DEF SyncRead, SyncPurchases, SyncPayments, Goto
<1>b. pc' = [pc EXCEPT ![p] = "sync"] /\ p \in scene.staff /\ "sync" \in scene.handlers
  BY DEF DebtInv, Shape, OnScene, SyncRead, SyncPurchases, SyncPayments, Goto, Begin
<1>c. PICK l : loc' = [loc EXCEPT ![p] = l] /\ l \in SyncType
                 /\ (scene.staff = {p} => StillStored(l))
  <2>1. ASSUME NEW s \in Suppliers, SyncRead(p, s)
        PROVE  \E l : loc' = [loc EXCEPT ![p] = l] /\ l \in SyncType
                        /\ (scene.staff = {p} => StillStored(l))
    <3> DEFINE l == [supplier |-> s, owed |-> supplier[s].owed, owesUs |-> supplier[s].owesUs,
                     purchases |-> {}, payments |-> {}]
    <3>1. loc' = [loc EXCEPT ![p] = l]
      BY <2>1 DEF SyncRead, Goto
    <3>2. l \in SyncType
      BY DEF DebtInv, TypeOK, SyncType
    <3>3. StillStored(l)
      BY DEF StillStored
    <3> QED
      BY <3>1, <3>2, <3>3
  <2>2. CASE SyncPurchases(p)
    <3> DEFINE l == [loc[p] EXCEPT !.purchases = {bought[loc[p].supplier]}]
    <3>1. loc[p] \in SyncType /\ loc' = [loc EXCEPT ![p] = l]
      BY <2>2 DEF DebtInv, Shape, SyncPurchases, Goto
    <3>2. bought[loc[p].supplier] \in Nat
      BY <3>1 DEF DebtInv, TypeOK, SyncType
    <3>3. l \in SyncType
      BY <3>1, <3>2 DEF SyncType
    <3>4. scene.staff = {p} => StillStored(loc[p])
      BY <2>2 DEF DebtInv, ViewFresh, SyncPurchases
    <3>5. scene.staff = {p} => StillStored(l)
      BY <3>1, <3>4 DEF StillStored, SyncType
    <3> QED
      BY <3>1, <3>3, <3>5
  <2>3. CASE SyncPayments(p)
    <3> DEFINE l == [loc[p] EXCEPT !.payments =
            {[we |-> wePaid[loc[p].supplier], they |-> theyPaid[loc[p].supplier]]}]
    <3>1. loc[p] \in SyncType /\ loc' = [loc EXCEPT ![p] = l]
      BY <2>3 DEF DebtInv, Shape, SyncPayments, Goto
    <3>2. wePaid[loc[p].supplier] \in Nat /\ theyPaid[loc[p].supplier] \in Nat
      BY <3>1 DEF DebtInv, TypeOK, SyncType
    <3>3. l \in SyncType
      BY <3>1, <3>2 DEF SyncType
    <3>4. scene.staff = {p} => StillStored(loc[p])
      BY <2>3 DEF DebtInv, ViewFresh, SyncPayments
    <3>5. scene.staff = {p} => StillStored(l)
      BY <3>1, <3>4 DEF StillStored, SyncType
    <3> QED
      BY <3>1, <3>3, <3>5
  <2> QED
    BY <2>1, <2>2, <2>3
<1>1. TypeOK'
  BY <1>a DEF DebtInv, TypeOK, ledger, credit
<1>2. Shape' /\ OnScene'
  BY <1>a, <1>b, <1>c DEF DebtInv, Shape, OnScene
<1>3. ViewFresh'
  BY <1>a, <1>b, <1>c DEF DebtInv, Shape, ViewFresh, StillStored, ledger
<1>4. Agreed'
  BY <1>a DEF DebtInv, Agreed, StoredIsLedger, ledger
<1>5. Accounts' /\ AccountBetween'
  BY <1>a, <1>b, <1>c DEF DebtInv, Shape, Accounts, AccountBetween, credit
<1> QED
  BY <1>1, <1>2, <1>3, <1>4, <1>5 DEF DebtInv

\* What a view writes: the computed balances, unless the row it read had them.
LEMMA SyncWritten ==
    ASSUME DebtInv, NEW p \in Requests, SyncWrite(p)
    PROVE  \E b \in loc[p].purchases, paid \in loc[p].payments :
             /\ b \in Nat /\ paid \in [we : Nat, they : Nat]
             /\ loc[p] \in SyncType
             /\ \/ /\ FromLedger(b, paid) = [owed |-> loc[p].owed, owesUs |-> loc[p].owesUs]
                   /\ supplier' = supplier
                \/ supplier' = [supplier EXCEPT
                       ![loc[p].supplier].owed = FromLedger(b, paid).owed,
                       ![loc[p].supplier].owesUs = FromLedger(b, paid).owesUs]
<1>1. loc[p] \in SyncType
  BY DEF DebtInv, Shape, SyncWrite
<1> QED
  BY <1>1 DEF SyncWrite, SyncType

LEMMA SyncWriteStep ==
    ASSUME DebtInv, NEW p \in Requests, SyncWrite(p)
    PROVE  DebtInv'
<1>a. PICK b \in loc[p].purchases, paid \in loc[p].payments :
             /\ b \in Nat /\ paid \in [we : Nat, they : Nat]
             /\ loc[p] \in SyncType
             /\ \/ /\ FromLedger(b, paid) = [owed |-> loc[p].owed, owesUs |-> loc[p].owesUs]
                   /\ supplier' = supplier
                \/ supplier' = [supplier EXCEPT
                       ![loc[p].supplier].owed = FromLedger(b, paid).owed,
                       ![loc[p].supplier].owesUs = FromLedger(b, paid).owesUs]
  BY SyncWritten
<1>b. /\ FromLedger(b, paid) \in [owed : Nat, owesUs : Nat]
      /\ FromLedger(b, paid).owed - FromLedger(b, paid).owesUs = b - paid.we + paid.they
  BY <1>a, FromLedgerDifference
<1>c. loc[p].supplier \in Suppliers
  BY <1>a DEF SyncType
<1>1. TypeOK'
  BY <1>a, <1>b, <1>c DEF DebtInv, TypeOK, SyncWrite, ledger, credit
<1>2. Shape' /\ OnScene'
  BY DEF DebtInv, Shape, OnScene, SyncWrite, Finish, Goto
<1>3. ViewFresh'
  BY DEF DebtInv, Shape, OnScene, ViewFresh, SyncWrite, Finish, Goto
<1>4. Agreed'
  <2> SUFFICES ASSUME \E q \in Requests : scene.staff = {q}
               PROVE  StoredIsLedger'
    BY DEF DebtInv, Shape, OnScene, Agreed, SyncWrite, Finish, Goto
  <2>1. scene.staff = {p} /\ pc[p] = "sync"
    BY DEF DebtInv, OnScene, SyncWrite
  <2>2. StillStored(loc[p]) /\ StoredIsLedger
    BY <2>1 DEF DebtInv, ViewFresh, Agreed
  <2>3. b - paid.we + paid.they = bought[loc[p].supplier] - wePaid[loc[p].supplier]
                                    + theyPaid[loc[p].supplier]
    BY <1>a, <2>2 DEF StillStored
  <2> QED
    BY <1>a, <1>b, <1>c, <2>2, <2>3 DEF DebtInv, TypeOK, StoredIsLedger, SyncWrite, ledger
<1>5. Accounts' /\ AccountBetween'
  BY DEF DebtInv, Shape, Accounts, AccountBetween, SyncWrite, Finish, Goto, credit
<1> QED
  BY <1>1, <1>2, <1>3, <1>4, <1>5 DEF DebtInv

LEMMA AccountFindStep ==
    ASSUME DebtInv, NEW p \in Requests, NEW h, NEW x \in Persons, NEW a \in Nat,
           AccountFind(p, h, x, a)
    PROVE  DebtInv'
<1>a. account[x].exists \in BOOLEAN /\ account[x].balance \in Nat
  BY DEF DebtInv, TypeOK
<1>1. TypeOK'
  BY DEF DebtInv, TypeOK, AccountFind, ledger, credit
<1>2. Shape' /\ OnScene'
  BY <1>a DEF DebtInv, Shape, OnScene, AccountFind, Begin, Goto, CreditType
<1>3. ViewFresh'
  BY DEF DebtInv, Shape, ViewFresh, StillStored, AccountFind, Goto, ledger
<1>4. Agreed'
  BY DEF DebtInv, Agreed, StoredIsLedger, AccountFind, Goto, ledger
<1>5. Accounts' /\ AccountBetween'
  BY DEF DebtInv, Shape, Accounts, AccountBetween, AccountFind, Goto, credit
<1> QED
  BY <1>1, <1>2, <1>3, <1>4, <1>5 DEF DebtInv

\* The second half of a credit sale: the account grows by what was sold.
LEMMA CreditStep ==
    ASSUME DebtInv, NEW p \in Requests, Credit(p) \/ CreditNew(p)
    PROVE  DebtInv'
<1>a. pc[p] = "credit" /\ loc[p] \in CreditType
  BY DEF DebtInv, Shape, Credit, CreditNew
<1>b. loc[p].person \in Persons /\ loc[p].amount \in Nat
  BY <1>a DEF CreditType
<1>1. TypeOK'
  <2>1. CASE Credit(p)
    BY <1>b, <2>1 DEF DebtInv, TypeOK, Credit, ledger
  <2>2. CASE CreditNew(p)
    <3>1. [exists |-> TRUE, balance |-> loc[p].amount] \in [exists : BOOLEAN, balance : Nat]
      BY <1>b
    <3>2. account' \in [Persons -> [exists : BOOLEAN, balance : Nat]]
      BY <1>b, <2>2, <3>1 DEF DebtInv, TypeOK, CreditNew
    <3>3. ordered' \in [Persons -> Nat]
      BY <1>b, <2>2 DEF DebtInv, TypeOK, CreditNew
    <3> QED
      BY <2>2, <3>2, <3>3 DEF DebtInv, TypeOK, CreditNew, ledger
  <2> QED
    BY <2>1, <2>2
<1>2. Shape' /\ OnScene'
  BY DEF DebtInv, Shape, OnScene, Credit, CreditNew, Finish, Goto
<1>3. ViewFresh'
  BY <1>a DEF DebtInv, Shape, OnScene, ViewFresh, StillStored, Credit, CreditNew, Finish, Goto, ledger
<1>4. Agreed'
  BY DEF DebtInv, Agreed, StoredIsLedger, Credit, CreditNew, Finish, Goto, ledger
<1>5. Accounts'
  <2>1. CASE Credit(p)
    BY <1>a, <1>b, <2>1 DEF DebtInv, TypeOK, Shape, Accounts, Credit, Finish, Goto
  <2>2. CASE CreditNew(p)
    <3>1. \A x \in Persons : account[x].exists => account'[x].exists
      BY <1>b, <2>2 DEF DebtInv, TypeOK, CreditNew
    <3>2. \A x \in Persons :
             ~account'[x].exists => account'[x].balance = 0 /\ ordered'[x] = 0
      BY <1>b, <2>2 DEF DebtInv, TypeOK, Accounts, CreditNew
    <3>3. \A q \in Requests : pc'[q] = "credit" => pc[q] = "credit" /\ loc'[q] = loc[q]
                                                  /\ loc[q].person \in Persons
      BY <2>2 DEF DebtInv, Shape, CreditNew, Finish, Goto, CreditType
    <3> QED
      BY <3>1, <3>2, <3>3 DEF DebtInv, Accounts
  <2> QED
    BY <2>1, <2>2
<1>6. AccountBetween'
  BY <1>b DEF DebtInv, TypeOK, Accounts, AccountBetween, Credit, CreditNew
<1> QED
  BY <1>1, <1>2, <1>3, <1>4, <1>5, <1>6 DEF DebtInv

LEMMA AccountPayStep ==
    ASSUME DebtInv, NEW p \in Requests, NEW x \in Persons, NEW a \in Amounts, AccountPay(p, x, a)
    PROVE  DebtInv'
<1>a. a \in Nat /\ account[x].balance \in Nat /\ MaxOf(0, account[x].balance - a) \in Nat
  BY AmountsAreNat DEF DebtInv, TypeOK, MaxOf
<1>1. TypeOK'
  BY <1>a DEF DebtInv, TypeOK, AccountPay, ledger
<1>2. Shape' /\ OnScene'
  BY DEF DebtInv, Shape, OnScene, AccountPay
<1>3. ViewFresh'
  BY DEF DebtInv, ViewFresh, StillStored, AccountPay, ledger
<1>4. Agreed'
  BY DEF DebtInv, Agreed, StoredIsLedger, AccountPay, ledger
<1>5. Accounts'
  BY <1>a DEF DebtInv, TypeOK, Accounts, AccountPay
<1>6. AccountBetween'
  BY <1>a DEF DebtInv, TypeOK, AccountBetween, AccountPay, MaxOf
<1> QED
  BY <1>1, <1>2, <1>3, <1>4, <1>5, <1>6 DEF DebtInv

LEMMA DebtsStep == DebtInv /\ [Next]_vars => DebtInv'
<1> SUFFICES ASSUME DebtInv, [Next]_vars PROVE DebtInv'
  OBVIOUS
<1>1. CASE UNCHANGED vars
  BY <1>1 DEF DebtInv, TypeOK, Shape, OnScene, ViewFresh, StillStored, Agreed, StoredIsLedger,
              Accounts, AccountBetween, vars, ledger, credit
<1>2. ASSUME NEW p \in Requests, NEW s \in Suppliers, NEW a \in Amounts,
             \/ WePaySupplier(p, s, a) \/ SupplierPaysUs(p, s, a)
             \/ \E b \in BOOLEAN : RestockRead(p, s, a, b)
      PROVE  DebtInv'
  BY <1>2, PaymentStep, RestockFoundStep
<1>3. ASSUME NEW p \in Requests, NEW s \in Suppliers,
             \E b \in BOOLEAN : SetActive(p, s, b)
      PROVE  DebtInv'
  BY <1>3, SetActiveStep
<1>4. ASSUME NEW p \in Requests,
             \/ RestockTxn(p) \/ SyncPurchases(p) \/ SyncPayments(p) \/ SyncWrite(p)
             \/ Credit(p) \/ CreditNew(p)
             \/ \E s \in Suppliers : SyncRead(p, s)
      PROVE  DebtInv'
  BY <1>4, RestockTxnStep, SyncReadsStep, SyncWriteStep, CreditStep
<1>5. ASSUME NEW p \in Requests, NEW x \in Persons,
             \/ AccountFind(p, "createAccount", x, 0)
             \/ \E a \in Amounts : AccountFind(p, "sale", x, a) \/ AccountPay(p, x, a)
      PROVE  DebtInv'
  <2>1. CASE AccountFind(p, "createAccount", x, 0)
    BY <2>1, AccountFindStep
  <2>2. ASSUME NEW a \in Amounts, AccountFind(p, "sale", x, a)
        PROVE  DebtInv'
    BY <2>2, AccountFindStep, AmountsAreNat
  <2> QED
    BY <1>5, <2>1, <2>2, AccountPayStep
<1> QED
  BY <1>1, <1>2, <1>3, <1>4, <1>5 DEF Next

-----------------------------------------------------------------------------
(* Theorems.                                                               *)

LEMMA DebtsInvariant == Spec => []DebtInv
<1>1. Init => DebtInv
  BY DebtsStart
<1>2. DebtInv /\ [Next]_vars => DebtInv'
  BY DebtsStep
<1> QED
  BY <1>1, <1>2, PTL DEF Spec

\* No balance of a supplier or of a credit account goes below zero, whatever
\* payments, restocks, sales and views interleave.
THEOREM NoBalanceBelowZero == Spec => []TypeOK
<1>1. DebtInv => TypeOK
  BY DEF DebtInv
<1> QED
  BY <1>1, DebtsInvariant, PTL

\* The stored balances of every supplier are what its purchases and payments
\* come to, unless a view runs beside another request.
THEOREM BalancesFollowLedger == Spec => []BalancesAgree
<1>1. DebtInv => BalancesAgree
  <2> SUFFICES ASSUME DebtInv, Cardinality(scene.staff) = 1
               PROVE  \E p \in Requests : scene.staff = {p}
    BY DEF DebtInv, Agreed, BalancesAgree
  <2>1. scene.staff \subseteq Requests
    BY ScenesAssumption DEF DebtInv, OnScene
  <2>2. IsFiniteSet(scene.staff)
    BY <2>1, RequestsAssumption, FS_Subset
  <2> QED
    BY <2>1, <2>2, FS_Singleton
<1> QED
  BY <1>1, DebtsInvariant, PTL

\* No credit sale is lost from an account and none is counted twice, although
\* an account is looked up before it is charged or created.
THEOREM AccountsCharged == Spec => []AccountBetween
<1>1. DebtInv => AccountBetween
  BY DEF DebtInv
<1> QED
  BY <1>1, DebtsInvariant, PTL

\* A view that nothing disturbs leaves the netted balances of the ledger.
THEOREM ViewsSettle == Spec => ListedIsSettled
<1>1. DebtInv /\ [Next]_vars => [Settles]_vars
  <2> SUFFICES ASSUME DebtInv, NEW p \in Requests, SyncWrite(p), scene.staff = {p}
               PROVE  LET s == loc[p].supplier
                          new == FromLedger(bought[s], [we |-> wePaid[s], they |-> theyPaid[s]])
                      IN  supplier'[s].owed = new.owed /\ supplier'[s].owesUs = new.owesUs
    BY DEF Settles
  <2>1. StillStored(loc[p])
    BY DEF DebtInv, ViewFresh, SyncWrite
  <2>2. PICK b \in loc[p].purchases, paid \in loc[p].payments :
             /\ b \in Nat /\ paid \in [we : Nat, they : Nat]
             /\ loc[p] \in SyncType
             /\ \/ /\ FromLedger(b, paid) = [owed |-> loc[p].owed, owesUs |-> loc[p].owesUs]
                   /\ supplier' = supplier
                \/ supplier' = [supplier EXCEPT
                       ![loc[p].supplier].owed = FromLedger(b, paid).owed,
                       ![loc[p].supplier].owesUs = FromLedger(b, paid).owesUs]
    BY SyncWritten
  <2>3. FromLedger(b, paid) = FromLedger(bought[loc[p].supplier],
            [we |-> wePaid[loc[p].supplier], they |-> theyPaid[loc[p].supplier]])
    BY <2>1, <2>2 DEF StillStored
  <2>4. supplier'[loc[p].supplier].owed = FromLedger(b, paid).owed
        /\ supplier'[loc[p].supplier].owesUs = FromLedger(b, paid).owesUs
    BY <2>1, <2>2 DEF DebtInv, TypeOK, StillStored, SyncType
  <2> QED
    BY <2>3, <2>4
<1>2. Spec => [][Settles]_vars
  BY <1>1, DebtsInvariant, PTL DEF Spec
<1> QED
  BY <1>2 DEF ListedIsSettled

-----------------------------------------------------------------------------
(* The stock.  The inductive invariant says what the row locks are for:     *)
(* what a transaction has computed of a product is still about the row as   *)
(* it is, because whoever could change the row would have to wait.          *)

Labels == {"idle", "saleLines", "saleStock", "restockLines", "restockStock", "restockWrite", "editWrite"}
Selling == {"saleLines", "saleStock"}
Restocking == {"restockLines", "restockStock", "restockWrite"}
Stocking == {"saleStock", "restockStock", "restockWrite"}
InTxn == Selling \cup Restocking

\* Uncommitted rows, by product.
Writes == UNION {[S -> RowType] : S \in SUBSET Products}
TxnType == [lines : Carts, next : Nat \ {0}, writes : Writes, row : RowType \cup {NoCart}]
\* The two stock columns of an edit, or Keep for both.
Patch == [boxes : Nat, units : Nat] \cup {[boxes |-> Keep, units |-> Keep]}

Named(cart) == {cart[i].product : i \in DOMAIN cart}
Distinct(cart) == \A i, j \in DOMAIN cart : cart[i].product = cart[j].product => i = j

\* What a request's locals are at a label.
LocalFits(label, l) ==
    /\ label \in InTxn => l \in TxnType
    /\ label \in {"saleLines", "restockLines"} => DOMAIN l.writes = {}
    /\ label = "saleStock" => DOMAIN l.writes \subseteq Named(l.lines)
    /\ label \in Restocking => Distinct(l.lines)
    /\ label \in {"restockStock", "restockWrite"} =>
          DOMAIN l.writes = {l.lines[i].product : i \in DOMAIN l.lines \cap 1..(l.next - 1)}
    /\ label = "restockWrite" => l.next \in DOMAIN l.lines /\ l.row \in RowType
    /\ label = "editWrite" => l \in [product : Products, edit : Edit, stock : Patch]

\* Who runs may, in this scene; and where edits leave stock or box sizes alone, so does this one.
InScene(p, label, l) ==
    /\ label # "idle" => shelf.handlers[p] # {}
    /\ label \in Restocking => "restock" \in shelf.handlers[p]
    /\ label = "editWrite" /\ StockStands =>
          l.stock = [boxes |-> Keep, units |-> Keep] /\ l.edit.upb = Keep
    /\ label = "editWrite" /\ SizesStand => l.edit.upb = Keep

\* The locks a transaction holds: its lines' through the foreign key, its writes'.
Lock(p, r, mode) == [row |-> r, by |-> p, mode |-> mode]
Locked(lks, p, label, l) ==
    /\ label \in {"saleLines", "restockLines"} =>
          \A i \in DOMAIN l.lines : i < l.next => Lock(p, l.lines[i].product, "keyShare") \in lks
    /\ label \in Stocking => \A i \in DOMAIN l.lines : Lock(p, l.lines[i].product, "keyShare") \in lks
    /\ label = "saleStock" => \A r \in DOMAIN l.writes : Lock(p, r, "update") \in lks
    /\ label \in {"restockStock", "restockWrite"} =>
          \A r \in DOMAIN l.writes : Lock(p, r, "noKeyUpdate") \in lks

\* No two transactions hold locks that conflict.
LocksFit ==
    /\ locks \subseteq [row : Products, by : Tills, mode : {"keyShare", "noKeyUpdate", "update"}]
    /\ \A k, m \in locks : k.row = m.row /\ k.by # m.by => ~Conflict(k.mode, m.mode)

-----------------------------------------------------------------------------
(* What is written is about the row as it is.                              *)

Frozen == StockStands /\ OneRestocker
SizesKept == (OneHand \/ SizesStand) /\ SizesGrow

\* A row whose loose units fit in its box, and in a box that it could get.
Snug(row) ==
    /\ row.upb > 0 => row.units < row.upb
    /\ row.upb \in Sizes \cup {0}
    /\ \E size \in Sizes \cup {0} : row.units < Upb(size)

SaleFits(prod, l) ==
    \A r \in DOMAIN l.writes :
        /\ l.writes[r].upb = prod[r].upb /\ l.writes[r].units < Upb(prod[r].upb)
        /\ Total(l.writes[r]) = Total(prod[r]) - Quantity(l.lines, r)

RestockFits(prod, label, l) ==
    /\ \A r \in DOMAIN l.writes :
        /\ l.writes[r].upb = prod[r].upb
        /\ Frozen => Total(l.writes[r]) = Total(prod[r]) + Quantity(l.lines, r)
        /\ SizesKept => l.writes[r].units < Upb(prod[r].upb)
    /\ label = "restockWrite" =>
        LET row == prod[l.lines[l.next].product]
        IN  /\ Frozen => Total(l.row) = Total(row)
            /\ Frozen \/ SizesKept => l.row.upb = row.upb

EditFits(prod, l) ==
    /\ SizesKept => Snug(Edited(l, prod[l.product]))
    /\ SizesStand => l.stock.units = Keep \/ l.stock.units < Upb(prod[l.product].upb)

Fresh(prod, label, l) ==
    /\ label = "saleStock" => SaleFits(prod, l)
    /\ label \in Restocking => RestockFits(prod, label, l)
    /\ label = "editWrite" => EditFits(prod, l)

RequestFits(prod, lks, p, label, l) ==
    LocalFits(label, l) /\ InScene(p, label, l) /\ Locked(lks, p, label, l) /\ Fresh(prod, label, l)

-----------------------------------------------------------------------------

RowsFit ==
    /\ shelf \in Shelves
    /\ product \in [Products -> RowType]
    /\ opening \in [Products -> Nat] /\ delivered \in [Products -> Nat] /\ sold \in [Products -> Nat]
    /\ at \in [Tills -> Labels] /\ DOMAIN local = Tills
    /\ Frozen => StockMatchesRecords
    /\ SizesKept => \A r \in Products : Snug(product[r])

StockInv == RowsFit /\ LocksFit /\ \A p \in Tills : RequestFits(product, locks, p, at[p], local[p])
-----------------------------------------------------------------------------
(* Units, boxes and quantities.                                            *)

\* Packing t units into boxes of n loses none, and leaves less than a box loose.
LEMMA Packed ==
    ASSUME NEW t \in Nat, NEW n \in Nat
    PROVE  /\ Boxed(t, n) \in [boxes : Nat, units : Nat]
           /\ Boxed(t, n).units < Upb(n)
           /\ Boxed(t, n).boxes * Upb(n) + Boxed(t, n).units = t
<1> DEFINE d == Upb(n)
<1>1. d \in Nat \ {0}
  BY DEF Upb
<1> HIDE DEF d
<1>2. t \div d \in Nat /\ t % d \in 0..(d - 1) /\ (t \div d) * d + (t % d) = t
  BY <1>1
<1>3. Boxed(t, n) = [boxes |-> t \div d, units |-> t % d]
  BY DEF Boxed, d
<1> QED
  BY <1>1, <1>2, <1>3 DEF d

LEMMA Stocked ==
    ASSUME NEW row \in RowType, NEW t \in Nat, NEW n \in Nat
    PROVE  LET new == WithStock(row, Boxed(t, n))
           IN  /\ new \in RowType /\ new.upb = row.upb /\ new.units < Upb(n)
               /\ n = row.upb => Total(new) = t
<1> DEFINE b == Boxed(t, n)
           new == WithStock(row, b)
<1>1. b \in [boxes : Nat, units : Nat] /\ b.units < Upb(n) /\ b.boxes * Upb(n) + b.units = t
  BY Packed
<1>2. new = [boxes |-> b.boxes, units |-> b.units, upb |-> row.upb, active |-> row.active]
  BY DEF WithStock
<1> HIDE DEF b, new
<1>3. new \in RowType /\ new.upb = row.upb /\ new.boxes = b.boxes /\ new.units = b.units
  BY <1>1, <1>2 DEF RowType
<1>4. new \in RowType /\ new.upb = row.upb /\ new.units < Upb(n) /\ (n = row.upb => Total(new) = t)
  BY <1>1, <1>3 DEF Total
<1> QED
  BY <1>4 DEF new, b

LEMMA TotalNat ==
    ASSUME NEW row \in RowType PROVE Total(row) \in Nat
BY DEF Total, RowType, Upb

LEMMA CartLines ==
    ASSUME NEW cart \in Carts
    PROVE  /\ Len(cart) \in Nat /\ DOMAIN cart = 1..Len(cart)
           /\ \A i \in DOMAIN cart : cart[i].product \in Products /\ cart[i].qty \in Nat \ {0}
<1> DEFINE line == [product : Products, qty : Nat \ {0}]
<1>1. cart \in Seq(line)
  BY DEF Carts
<1>2. \A x \in line : x.product \in Products /\ x.qty \in Nat \ {0}
  OBVIOUS
<1> HIDE DEF line
<1> QED
  BY <1>1, <1>2

\* The lines for one product.
LinesOf(cart, r) == {i \in DOMAIN cart : cart[i].product = r}

LEMMA QuantityFacts ==
    ASSUME NEW cart \in Carts, NEW r
    PROVE  /\ Quantity(cart, r) \in Nat
           /\ r \notin Named(cart) => Quantity(cart, r) = 0
           /\ \A i \in DOMAIN cart : Distinct(cart) /\ cart[i].product = r => Quantity(cart, r) = cart[i].qty
<1> DEFINE qtys == [i \in DOMAIN cart |-> cart[i].qty]
           S == LinesOf(cart, r)
<1>1. Quantity(cart, r) = SumFunctionOnSet(qtys, S)
  BY DEF Quantity, LinesOf
<1>2. DOMAIN cart = 1..Len(cart) /\ Len(cart) \in Nat /\ \A i \in DOMAIN cart : cart[i].qty \in Nat
  BY CartLines
<1>3. IsFiniteSet(S) /\ S \subseteq DOMAIN cart
  <2>1. S \subseteq DOMAIN cart
    BY DEF LinesOf
  <2>2. IsFiniteSet(1..Len(cart))
    BY <1>2, FS_Interval
  <2> QED
    BY <1>2, <2>1, <2>2, FS_Subset
<1>4. \A i \in S : qtys[i] \in Nat /\ qtys[i] = cart[i].qty
  BY <1>2, <1>3
<1> HIDE DEF qtys
<1>5. Quantity(cart, r) \in Nat
  BY <1>1, <1>3, <1>4, SumNat
<1>6. ASSUME r \notin Named(cart) PROVE Quantity(cart, r) = 0
  <2>1. S = {}
    BY <1>6 DEF LinesOf, Named
  <2> QED
    BY <1>1, <2>1, SumEmpty
<1>7. ASSUME NEW i \in DOMAIN cart, Distinct(cart), cart[i].product = r
      PROVE  Quantity(cart, r) = cart[i].qty
  <2>1. i \in S /\ S \ {i} = {}
    BY <1>7 DEF LinesOf, Distinct
  <2>2. SumFunctionOnSet(qtys, S) = qtys[i] + SumFunctionOnSet(qtys, S \ {i})
    BY <1>3, <1>4, <2>1, SumPick
  <2> QED
    BY <1>1, <1>4, <2>1, <2>2, SumEmpty, <1>5
<1> QED
  BY <1>5, <1>6, <1>7

\* A set of lines has a first one.
LEMMA FirstIsIn ==
    ASSUME NEW S \in SUBSET Nat, S # {} PROVE FirstOf(S) \in S
<1> DEFINE Good == {n \in Nat : (\E i \in S : i <= n) => \E i \in S : \A j \in S : i <= j}
<1>1. 0 \in Good
  OBVIOUS
<1>2. ASSUME NEW n \in Nat, n \in Good PROVE n + 1 \in Good
  <2>1. CASE \E i \in S : i <= n
    BY <1>2, <2>1
  <2>2. CASE ~ \E i \in S : i <= n
    BY <2>2
  <2> QED
    BY <2>1, <2>2
<1> HIDE DEF Good
<1>3. \A n \in Nat : n \in Good
  BY <1>1, <1>2, NumberInduction
<1>4. PICK n \in S : TRUE
  OBVIOUS
<1>5. n \in Good /\ n <= n
  BY <1>3, <1>4
<1>6. \E i \in S : \A j \in S : i <= j
  BY <1>5 DEF Good
<1> QED
  BY <1>6 DEF FirstOf

-----------------------------------------------------------------------------
(* Locks.                                                                  *)

Modes == {"keyShare", "noKeyUpdate", "update"}
LockType == [row : Products, by : Tills, mode : Modes]

LEMMA TakeFits ==
    ASSUME LocksFit, NEW p \in Tills, NEW r \in Products, NEW mode \in Modes,
           Free(locks, r, p, mode), locks' = Take(locks, r, p, mode)
    PROVE  LocksFit' /\ locks \subseteq locks' /\ Lock(p, r, mode) \in locks'
<1>1. locks' = locks \cup {Lock(p, r, mode)}
  BY DEF Take, Lock
<1>2. Lock(p, r, mode) \in LockType
  BY DEF Lock, LockType
<1>3. \A k \in locks : k.row = r /\ k.by # p => ~Conflict(k.mode, mode)
  BY DEF Free, Blockers
<1>4. \A k \in locks : Conflict(mode, k.mode) <=> Conflict(k.mode, mode)
  BY DEF Conflict
<1> QED
  BY <1>1, <1>2, <1>3, <1>4 DEF LocksFit, LockType, Modes, Lock

LEMMA ReleaseFits ==
    ASSUME LocksFit, NEW p, locks' = Release(locks, p)
    PROVE  LocksFit' /\ \A k \in locks : k.by # p => k \in locks'
BY DEF LocksFit, Release

\* Where p may have a row, another's lock on it does not conflict.
LEMMA FreeOfOthers ==
    ASSUME NEW p, NEW q, p # q, NEW r, NEW mode, NEW other,
           Free(locks, r, p, mode), Lock(q, r, other) \in locks
    PROVE  ~Conflict(other, mode)
BY DEF Free, Blockers, Lock

-----------------------------------------------------------------------------
(* Steps that leave the products alone.                                    *)

LEMMA SameScene ==
    ASSUME shelf' = shelf
    PROVE  /\ StockStands' <=> StockStands
           /\ SizesStand' <=> SizesStand
           /\ Frozen' <=> Frozen
           /\ SizesKept' <=> SizesKept
           /\ Sizes' = Sizes
BY DEF StockStands, OneRestocker, OneHand, SizesStand, SizesGrow, Sizes, NewSizes, Frozen, SizesKept

\* What is said of the next state in terms of the scene of this one is the invariant.
LEMMA NextFits ==
    ASSUME shelf' = shelf, LocksFit',
           product' \in [Products -> RowType],
           opening' \in [Products -> Nat], delivered' \in [Products -> Nat], sold' \in [Products -> Nat],
           at' \in [Tills -> Labels], DOMAIN local' = Tills, shelf' \in Shelves,
           Frozen => StockMatchesRecords',
           SizesKept => \A r \in Products : Snug(product'[r]),
           \A q \in Tills : RequestFits(product', locks', q, at'[q], local'[q])
    PROVE  StockInv'
<1>1. RowsFit'
  BY SameScene DEF RowsFit, Snug
<1>2. ASSUME NEW q \in Tills PROVE RequestFits(product, locks, q, at[q], local[q])'
  <2>1. RequestFits(product', locks', q, at'[q], local'[q])
    OBVIOUS
  <2>2. LocalFits(at[q], local[q])'
    BY <2>1 DEF RequestFits, LocalFits
  <2>3. InScene(q, at[q], local[q])'
    BY <2>1, SameScene DEF RequestFits, InScene
  <2>4. Locked(locks, q, at[q], local[q])'
    BY <2>1 DEF RequestFits, Locked
  <2>5. (at[q] = "saleStock" => SaleFits(product, local[q]))'
    BY <2>1 DEF RequestFits, Fresh, SaleFits
  <2>6. (at[q] \in Restocking => RestockFits(product, at[q], local[q]))'
    BY <2>1, SameScene DEF RequestFits, Fresh, RestockFits
  <2>7. (at[q] = "editWrite" => EditFits(product, local[q]))'
    BY <2>1, SameScene DEF RequestFits, Fresh, EditFits, Snug
  <2> QED
    BY <2>2, <2>3, <2>4, <2>5, <2>6, <2>7 DEF RequestFits, Fresh
<1> QED
  BY <1>1, <1>2 DEF StockInv

LEMMA LockedStays ==
    ASSUME NEW lks, NEW more, NEW q, NEW label, NEW l, Locked(lks, q, label, l),
           \A k \in lks : k.by = q => k \in more
    PROVE  Locked(more, q, label, l)
BY DEF Locked, Lock

\* The request of p moves, and nothing changes that another one relies on.
LEMMA Moved ==
    ASSUME StockInv, NEW p \in Tills, NEW label \in Labels, NEW l, Move(p, label, l)
    PROVE  /\ shelf' = shelf /\ at' \in [Tills -> Labels] /\ DOMAIN local' = Tills
           /\ at'[p] = label /\ local'[p] = l
           /\ \A q \in Tills \ {p} : at'[q] = at[q] /\ local'[q] = local[q]
BY DEF StockInv, RowsFit, Move

LEMMA MoveStep ==
    ASSUME StockInv, NEW p \in Tills, NEW label \in Labels, NEW l, Move(p, label, l),
           UNCHANGED <<product, records>>, LocksFit',
           \A k \in locks : k.by # p => k \in locks',
           RequestFits(product, locks', p, label, l)
    PROVE  StockInv'
<1>1. /\ shelf' = shelf /\ at' \in [Tills -> Labels] /\ DOMAIN local' = Tills
      /\ at'[p] = label /\ local'[p] = l
      /\ \A q \in Tills \ {p} : at'[q] = at[q] /\ local'[q] = local[q]
  BY Moved
<1>2. product' = product /\ opening' = opening /\ delivered' = delivered /\ sold' = sold
  BY DEF records
<1>3. ASSUME NEW q \in Tills \ {p}
      PROVE  RequestFits(product', locks', q, at'[q], local'[q])
  <2>1. RequestFits(product, locks, q, at[q], local[q])
    BY DEF StockInv
  <2>2. Locked(locks', q, at[q], local[q])
    BY <2>1, LockedStays DEF RequestFits
  <2> QED
    BY <1>1, <1>2, <2>1, <2>2 DEF RequestFits
<1>4. RequestFits(product', locks', p, at'[p], local'[p])
  BY <1>1, <1>2
<1>5. Frozen => StockMatchesRecords'
  BY <1>2 DEF StockInv, RowsFit, StockMatchesRecords
<1>6. SizesKept => \A r \in Products : Snug(product'[r])
  BY <1>2 DEF StockInv, RowsFit
<1> QED
  BY <1>1, <1>2, <1>3, <1>4, <1>5, <1>6, NextFits DEF StockInv, RowsFit

\* Nothing is asked of a request that is not running.
LEMMA IdleFits ==
    ASSUME NEW prod, NEW lks, NEW p, NEW l PROVE RequestFits(prod, lks, p, "idle", l)
BY DEF RequestFits, LocalFits, InScene, Locked, Fresh, InTxn, Selling, Restocking, Stocking

LEMMA RollbackStep ==
    ASSUME StockInv, NEW p \in Tills, Rollback(p) PROVE StockInv'
<1>1. Move(p, "idle", NoCart) /\ UNCHANGED <<product, records>> /\ locks' = Release(locks, p)
  BY DEF Rollback
<1>2. LocksFit' /\ \A k \in locks : k.by # p => k \in locks'
  BY <1>1, ReleaseFits DEF StockInv
<1>3. "idle" \in Labels
  BY DEF Labels
<1> QED
  BY <1>1, <1>2, <1>3, IdleFits, MoveStep

-----------------------------------------------------------------------------
(* What a transaction carries.                                             *)

LEMMA SceneFacts ==
    ASSUME StockInv
    PROVE  /\ shelf \in Shelves /\ shelf.carts \subseteq Carts /\ shelf.edits \subseteq Edit
           /\ shelf.openings \subseteq RowType
           /\ \A p \in Tills : shelf.handlers[p] \in SUBSET STRING
<1>1. shelf \in Shelves
  BY DEF StockInv, RowsFit
<1>2. shelf \in [handlers : [Tills -> SUBSET STRING], carts : SUBSET Carts,
                 openings : SUBSET RowType, edits : SUBSET Edit, maxCalls : Nat]
  BY <1>1, ShelvesAssumption
<1> QED
  BY <1>1, <1>2

LEMMA WriteFacts ==
    ASSUME NEW l \in TxnType, NEW r \in Products, NEW row \in RowType, NEW m, m = Write(l, r, row)
    PROVE  /\ m \in TxnType /\ m.lines = l.lines /\ m.next = l.next /\ m.row = l.row
           /\ DOMAIN m.writes = DOMAIN l.writes \cup {r} /\ m.writes[r] = row
           /\ \A x \in DOMAIN l.writes \ {r} : m.writes[x] = l.writes[x]
<1> DEFINE w == l.writes
           v == [x \in DOMAIN w \cup {r} |-> IF x = r THEN row ELSE w[x]]
<1>2. m = [l EXCEPT !.writes = v]
  BY DEF Write
<1>3. w \in Writes
  BY DEF TxnType
<1>4. PICK S \in SUBSET Products : w \in [S -> RowType]
  BY <1>3 DEF Writes
<1>5. v \in [S \cup {r} -> RowType] /\ S \cup {r} \in SUBSET Products
  BY <1>4
<1>6. v \in Writes
  BY <1>5 DEF Writes
<1> HIDE DEF v
<1>7. m \in TxnType /\ m.lines = l.lines /\ m.next = l.next /\ m.row = l.row /\ m.writes = v
  BY <1>2, <1>6 DEF TxnType
<1> QED
  BY <1>7 DEF v

LEMMA WritesAre ==
    ASSUME NEW l \in TxnType
    PROVE  DOMAIN l.writes \subseteq Products /\ \A r \in DOMAIN l.writes : l.writes[r] \in RowType
<1>1. l.writes \in Writes
  BY DEF TxnType
<1>2. PICK S \in SUBSET Products : l.writes \in [S -> RowType]
  BY <1>1 DEF Writes
<1> QED
  BY <1>2

LEMMA TxnFacts ==
    ASSUME NEW cart \in Carts
    PROVE  /\ Txn(cart) \in TxnType
           /\ Txn(cart).lines = cart /\ Txn(cart).next = 1 /\ DOMAIN Txn(cart).writes = {}
<1>1. <<>> \in [{} -> RowType] /\ DOMAIN <<>> = {}
  OBVIOUS
<1>2. <<>> \in Writes
  BY <1>1 DEF Writes
<1> QED
  BY <1>1, <1>2 DEF Txn, TxnType

\* A request in a transaction, with its locals and the lines in them.
LEMMA InTxnFacts ==
    ASSUME StockInv, NEW p \in Tills, at[p] \in InTxn
    PROVE  /\ local[p] \in TxnType /\ local[p].lines \in Carts /\ local[p].next \in Nat \ {0}
           /\ Len(local[p].lines) \in Nat /\ DOMAIN local[p].lines = 1..Len(local[p].lines)
           /\ \A i \in DOMAIN local[p].lines :
                local[p].lines[i].product \in Products /\ local[p].lines[i].qty \in Nat \ {0}
           /\ shelf.handlers[p] # {}
           /\ RequestFits(product, locks, p, at[p], local[p])
<1>1. RequestFits(product, locks, p, at[p], local[p])
  BY DEF StockInv
<1>2. local[p] \in TxnType /\ shelf.handlers[p] # {}
  BY <1>1 DEF RequestFits, LocalFits, InScene, InTxn, Selling, Restocking
<1>3. local[p].lines \in Carts /\ local[p].next \in Nat \ {0}
  BY <1>2 DEF TxnType
<1> QED
  BY <1>1, <1>2, <1>3, CartLines

-----------------------------------------------------------------------------
(* The steps of a sale and of a restock before they commit.                *)

LEMMA BeginStep ==
    ASSUME StockInv, NEW p \in Tills, NEW cart \in shelf.carts, SaleRead(p, cart) \/ DeliveryRead(p, cart)
    PROVE  StockInv'
<1>1. cart \in Carts
  BY SceneFacts
<1>2. /\ Txn(cart) \in TxnType
      /\ Txn(cart).lines = cart /\ Txn(cart).next = 1 /\ DOMAIN Txn(cart).writes = {}
  BY <1>1, TxnFacts
<1>3. DOMAIN cart \subseteq Nat \ {0} /\ DOMAIN cart \cap 1..0 = {}
  BY <1>1, CartLines
<1>4. UNCHANGED <<product, records>> /\ locks' = locks
  BY DEF SaleRead, DeliveryRead
<1>5. LocksFit' /\ \A k \in locks : k.by # p => k \in locks'
  BY <1>4 DEF StockInv, LocksFit
<1>6. CASE SaleRead(p, cart)
  <2>1. Move(p, "saleLines", Txn(cart)) /\ "sale" \in shelf.handlers[p]
    BY <1>6 DEF SaleRead, Open
  <2>2. RequestFits(product, locks', p, "saleLines", Txn(cart))
    BY <1>2, <1>3, <2>1
       DEF RequestFits, LocalFits, InScene, Locked, Fresh, InTxn, Selling, Restocking, Stocking
  <2> QED
    BY <1>4, <1>5, <2>1, <2>2, MoveStep DEF Labels
<1>7. CASE DeliveryRead(p, cart)
  <2>1. Move(p, "restockLines", Txn(cart)) /\ "restock" \in shelf.handlers[p] /\ Distinct(cart)
    BY <1>7 DEF DeliveryRead, Open, Distinct
  <2>2. RequestFits(product, locks', p, "restockLines", Txn(cart))
    BY <1>2, <1>3, <2>1
       DEF RequestFits, LocalFits, InScene, Locked, Fresh, RestockFits, InTxn, Selling, Restocking, Stocking
  <2> QED
    BY <1>4, <1>5, <2>1, <2>2, MoveStep DEF Labels
<1> QED
  BY <1>6, <1>7

LEMMA InsertStep ==
    ASSUME StockInv, NEW p \in Tills, NEW here, NEW next, InsertLine(p, here, next),
           <<here, next>> \in {<<"saleLines", "saleStock">>, <<"restockLines", "restockStock">>}
    PROVE  StockInv'
<1> DEFINE l == local[p]
<1>1. at[p] = here /\ here \in {"saleLines", "restockLines"} /\ at[p] \in InTxn
  BY DEF InsertLine, InTxn, Selling, Restocking
<1>2. /\ l \in TxnType /\ l.lines \in Carts /\ l.next \in Nat \ {0}
      /\ Len(l.lines) \in Nat /\ DOMAIN l.lines = 1..Len(l.lines)
      /\ \A i \in DOMAIN l.lines : l.lines[i].product \in Products /\ l.lines[i].qty \in Nat \ {0}
      /\ shelf.handlers[p] # {}
      /\ RequestFits(product, locks, p, at[p], l)
  BY <1>1, InTxnFacts
<1>3. UNCHANGED <<product, records>>
  BY DEF InsertLine
<1>4. /\ DOMAIN l.writes = {}
      /\ here = "restockLines" => Distinct(l.lines) /\ "restock" \in shelf.handlers[p]
      /\ \A i \in DOMAIN l.lines : i < l.next => Lock(p, l.lines[i].product, "keyShare") \in locks
  BY <1>1, <1>2 DEF RequestFits, LocalFits, InScene, Locked, Restocking
<1>5. CASE Lines(p)
  <2> DEFINE m == Advance(l)
             r == l.lines[l.next].product
  <2>1. /\ Free(locks, r, p, "keyShare") /\ locks' = Take(locks, r, p, "keyShare")
        /\ Move(p, here, m)
    BY <1>1, <1>5 DEF InsertLine, Line
  <2>2. r \in Products
    BY <1>2, <1>5 DEF Lines
  <2>3. LocksFit' /\ locks \subseteq locks' /\ Lock(p, r, "keyShare") \in locks'
    BY <2>1, <2>2, TakeFits DEF StockInv, Modes
  <2>4. m \in TxnType /\ m.lines = l.lines /\ m.next = l.next + 1 /\ m.writes = l.writes
    BY <1>2 DEF Advance, TxnType
  <2> HIDE DEF l, m, r
  <2>5. \A i \in DOMAIN m.lines : i < m.next => Lock(p, m.lines[i].product, "keyShare") \in locks'
    <3> SUFFICES ASSUME NEW i \in DOMAIN l.lines, i < l.next + 1
                 PROVE  Lock(p, l.lines[i].product, "keyShare") \in locks'
      BY <2>4
    <3>1. CASE i < l.next
      BY <1>4, <2>3, <3>1
    <3>2. CASE i = l.next
      BY <2>3, <3>2 DEF r
    <3> QED
      BY <1>2, <3>1, <3>2
  <2>6. RequestFits(product, locks', p, here, m)
    BY <1>1, <1>2, <1>4, <2>4, <2>5
       DEF RequestFits, LocalFits, InScene, Locked, Fresh, RestockFits, InTxn, Selling, Restocking, Stocking
  <2>7. here \in Labels
    BY <1>1 DEF Labels
  <2> QED
    BY <1>3, <2>1, <2>3, <2>6, <2>7, MoveStep
<1>6. CASE ~Lines(p)
  <2> DEFINE m == [l EXCEPT !.next = 1]
  <2>1. Move(p, next, m) /\ locks' = locks
    BY <1>6 DEF InsertLine
  <2>2. LocksFit' /\ \A k \in locks : k.by # p => k \in locks'
    BY <2>1 DEF StockInv, LocksFit
  <2>3. m \in TxnType /\ m.lines = l.lines /\ m.next = 1 /\ m.writes = l.writes
    BY <1>2 DEF TxnType
  <2>4. l.next \notin DOMAIN l.lines
    BY <1>6 DEF Lines
  <2> HIDE DEF l, m
  <2>5. \A i \in DOMAIN m.lines : Lock(p, m.lines[i].product, "keyShare") \in locks'
    BY <1>2, <1>4, <2>1, <2>3, <2>4
  <2>6. DOMAIN m.lines \cap 1..(m.next - 1) = {}
    BY <2>3
  <2>7. RequestFits(product, locks', p, next, m)
    BY <1>1, <1>2, <1>4, <2>3, <2>5, <2>6
       DEF RequestFits, LocalFits, InScene, Locked, Fresh, SaleFits, RestockFits,
           InTxn, Selling, Restocking, Stocking
  <2>8. next \in Labels
    BY DEF Labels
  <2> QED
    BY <1>3, <2>1, <2>2, <2>7, <2>8, MoveStep
<1> QED
  BY <1>5, <1>6

\* A product is deducted once, by what all its lines come to.
LEMMA DeductStep ==
    ASSUME StockInv, NEW p \in Tills, SaleDeduct(p) PROVE StockInv'
<1> DEFINE l == local[p]
           r == Product(p)
           qty == Quantity(l.lines, r)
           row == Deduct(product[r], qty)
           m == Write(l, r, row)
<1>1. /\ at[p] = "saleStock" /\ Left(p) /\ Free(locks, r, p, "update")
      /\ Total(product[r]) >= qty /\ locks' = Take(locks, r, p, "update")
      /\ Move(p, "saleStock", m) /\ UNCHANGED <<product, records>>
  BY DEF SaleDeduct
<1>2. /\ l \in TxnType /\ l.lines \in Carts /\ l.next \in Nat \ {0}
      /\ Len(l.lines) \in Nat /\ DOMAIN l.lines = 1..Len(l.lines)
      /\ \A i \in DOMAIN l.lines : l.lines[i].product \in Products /\ l.lines[i].qty \in Nat \ {0}
      /\ shelf.handlers[p] # {}
      /\ RequestFits(product, locks, p, at[p], l)
  BY <1>1, InTxnFacts DEF InTxn, Selling
<1>3. r \in Named(l.lines) /\ r \notin DOMAIN l.writes
  <2>1. Undeducted(l) # {} /\ Undeducted(l) \subseteq DOMAIN l.lines
    BY <1>1 DEF Left, Undeducted
  <2>2. FirstOf(Undeducted(l)) \in Undeducted(l)
    BY <1>2, <2>1, FirstIsIn
  <2> QED
    BY <2>1, <2>2 DEF Product, Undeducted, Named
<1>4. r \in Products
  BY <1>2, <1>3 DEF Named
<1>5. product[r] \in RowType /\ Total(product[r]) \in Nat /\ qty \in Nat
  BY <1>2, <1>4, TotalNat, QuantityFacts DEF StockInv, RowsFit
<1>6. LocksFit' /\ locks \subseteq locks' /\ Lock(p, r, "update") \in locks'
  BY <1>1, <1>4, TakeFits DEF StockInv, Modes
<1>7. /\ row \in RowType /\ row.upb = product[r].upb /\ row.units < Upb(product[r].upb)
      /\ Total(row) = Total(product[r]) - qty
  <2> DEFINE t == Total(product[r]) - qty
  <2>1. t \in Nat /\ product[r].upb \in Nat
    BY <1>1, <1>5 DEF RowType
  <2>2. row = WithStock(product[r], Boxed(t, product[r].upb))
    BY DEF Deduct
  <2> HIDE DEF r, qty, row, t
  <2>3. row \in RowType /\ row.upb = product[r].upb /\ row.units < Upb(product[r].upb) /\ Total(row) = t
    BY <1>5, <2>1, <2>2, Stocked
  <2> QED
    BY <2>3 DEF t
<1>8. /\ m \in TxnType /\ m.lines = l.lines /\ m.next = l.next
      /\ DOMAIN m.writes = DOMAIN l.writes \cup {r} /\ m.writes[r] = row
      /\ \A x \in DOMAIN l.writes \ {r} : m.writes[x] = l.writes[x]
  BY <1>2, <1>4, <1>7, WriteFacts
<1>9. /\ DOMAIN l.writes \subseteq Named(l.lines)
      /\ \A i \in DOMAIN l.lines : Lock(p, l.lines[i].product, "keyShare") \in locks
      /\ \A x \in DOMAIN l.writes : Lock(p, x, "update") \in locks
      /\ SaleFits(product, l)
  BY <1>1, <1>2 DEF RequestFits, LocalFits, Locked, Fresh, Stocking
<1> HIDE DEF l, r, qty, row, m
<1>10. SaleFits(product, m)
  <2> SUFFICES ASSUME NEW x \in DOMAIN m.writes
               PROVE  /\ m.writes[x].upb = product[x].upb /\ m.writes[x].units < Upb(product[x].upb)
                      /\ Total(m.writes[x]) = Total(product[x]) - Quantity(m.lines, x)
    BY DEF SaleFits
  <2>1. CASE x = r
    BY <1>7, <1>8, <2>1 DEF qty
  <2>2. CASE x # r
    BY <1>8, <1>9, <2>2 DEF SaleFits
  <2> QED
    BY <2>1, <2>2
<1>11. RequestFits(product, locks', p, "saleStock", m)
  <2>1. LocalFits("saleStock", m)
    BY <1>3, <1>8, <1>9 DEF LocalFits, Restocking
  <2>2. InScene(p, "saleStock", m)
    BY <1>2 DEF InScene, Restocking
  <2>3. Locked(locks', p, "saleStock", m)
    BY <1>6, <1>8, <1>9 DEF Locked
  <2> QED
    BY <1>10, <2>1, <2>2, <2>3 DEF RequestFits, Fresh, Restocking
<1> QED
  BY <1>1, <1>6, <1>11, MoveStep DEF Labels

\* A request that restocks, at a line: what it holds and what it has written.
LEMMA RestockFacts ==
    ASSUME StockInv, NEW p \in Tills, at[p] \in {"restockStock", "restockWrite"}
    PROVE  /\ Distinct(local[p].lines) /\ "restock" \in shelf.handlers[p]
           /\ DOMAIN local[p].writes =
                {local[p].lines[i].product : i \in DOMAIN local[p].lines \cap 1..(local[p].next - 1)}
           /\ \A i \in DOMAIN local[p].lines : Lock(p, local[p].lines[i].product, "keyShare") \in locks
           /\ \A r \in DOMAIN local[p].writes : Lock(p, r, "noKeyUpdate") \in locks
           /\ RestockFits(product, at[p], local[p])
<1>1. RequestFits(product, locks, p, at[p], local[p])
  BY DEF StockInv
<1> QED
  BY <1>1 DEF RequestFits, LocalFits, InScene, Locked, Fresh, Restocking, Stocking

LEMMA RestockReadStep ==
    ASSUME StockInv, NEW p \in Tills, RestockRowRead(p) PROVE StockInv'
<1> DEFINE l == local[p]
           r == l.lines[l.next].product
           m == [l EXCEPT !.row = product[r]]
<1>1. /\ at[p] = "restockStock" /\ l.next \in DOMAIN l.lines
      /\ Move(p, "restockWrite", m) /\ UNCHANGED <<product, records>> /\ locks' = locks
  BY DEF RestockRowRead, Lines, Line
<1>2. /\ l \in TxnType /\ l.lines \in Carts /\ l.next \in Nat \ {0}
      /\ \A i \in DOMAIN l.lines : l.lines[i].product \in Products
      /\ shelf.handlers[p] # {}
  BY <1>1, InTxnFacts DEF InTxn, Restocking
<1>3. /\ Distinct(l.lines) /\ "restock" \in shelf.handlers[p]
      /\ DOMAIN l.writes = {l.lines[i].product : i \in DOMAIN l.lines \cap 1..(l.next - 1)}
      /\ \A i \in DOMAIN l.lines : Lock(p, l.lines[i].product, "keyShare") \in locks
      /\ \A x \in DOMAIN l.writes : Lock(p, x, "noKeyUpdate") \in locks
      /\ RestockFits(product, at[p], l)
  BY <1>1, RestockFacts
<1>4. product[r] \in RowType
  BY <1>1, <1>2 DEF StockInv, RowsFit
<1>5. /\ m \in TxnType /\ m.lines = l.lines /\ m.next = l.next /\ m.writes = l.writes
      /\ m.row = product[r]
  BY <1>2, <1>4 DEF TxnType
<1>6. LocksFit' /\ \A k \in locks : k.by # p => k \in locks'
  BY <1>1 DEF StockInv, LocksFit
<1> HIDE DEF l, m
<1>7. RestockFits(product, "restockWrite", m)
  BY <1>3, <1>5 DEF RestockFits
<1>8. RequestFits(product, locks', p, "restockWrite", m)
  <2>1. LocalFits("restockWrite", m)
    BY <1>1, <1>3, <1>4, <1>5 DEF LocalFits, Restocking
  <2>2. InScene(p, "restockWrite", m)
    BY <1>2, <1>3 DEF InScene
  <2>3. Locked(locks', p, "restockWrite", m)
    BY <1>1, <1>3, <1>5 DEF Locked
  <2> QED
    BY <1>7, <2>1, <2>2, <2>3 DEF RequestFits, Fresh
<1> QED
  BY <1>1, <1>6, <1>8, MoveStep DEF Labels

\* The row is written from what was read, which one restock at a time finds unchanged.
LEMMA RestockWriteStep ==
    ASSUME StockInv, NEW p \in Tills, RestockRowWrite(p) PROVE StockInv'
<1> DEFINE l == local[p]
           line == l.lines[l.next]
           r == line.product
           row == WithStock(product[r], Boxed(Total(l.row) + line.qty, l.row.upb))
           w == Write(l, r, row)
           m == Advance(w)
<1>1. /\ at[p] = "restockWrite" /\ Free(locks, r, p, "noKeyUpdate")
      /\ locks' = Take(locks, r, p, "noKeyUpdate")
      /\ Move(p, "restockStock", m) /\ UNCHANGED <<product, records>>
  BY DEF RestockRowWrite, Line
<1>2. /\ l \in TxnType /\ l.lines \in Carts /\ l.next \in Nat \ {0}
      /\ Len(l.lines) \in Nat /\ DOMAIN l.lines = 1..Len(l.lines)
      /\ \A i \in DOMAIN l.lines : l.lines[i].product \in Products /\ l.lines[i].qty \in Nat \ {0}
      /\ shelf.handlers[p] # {}
      /\ RequestFits(product, locks, p, at[p], l)
  BY <1>1, InTxnFacts DEF InTxn, Restocking
<1>3. /\ Distinct(l.lines) /\ "restock" \in shelf.handlers[p]
      /\ DOMAIN l.writes = {l.lines[i].product : i \in DOMAIN l.lines \cap 1..(l.next - 1)}
      /\ \A i \in DOMAIN l.lines : Lock(p, l.lines[i].product, "keyShare") \in locks
      /\ \A x \in DOMAIN l.writes : Lock(p, x, "noKeyUpdate") \in locks
      /\ RestockFits(product, at[p], l)
  BY <1>1, RestockFacts
<1>4. l.next \in DOMAIN l.lines /\ l.row \in RowType
  BY <1>1, <1>2 DEF RequestFits, LocalFits
<1>5. r \in Products /\ line.qty \in Nat /\ product[r] \in RowType /\ Total(l.row) \in Nat
      /\ l.row.upb \in Nat /\ Quantity(l.lines, r) = line.qty
  <2>1. r \in Products /\ line.qty \in Nat
    BY <1>2, <1>4
  <2>2. product[r] \in RowType /\ l.row.upb \in Nat
    BY <1>4, <2>1 DEF StockInv, RowsFit, RowType
  <2> QED
    BY <1>2, <1>3, <1>4, <2>1, <2>2, TotalNat, QuantityFacts
<1>6. LocksFit' /\ locks \subseteq locks' /\ Lock(p, r, "noKeyUpdate") \in locks'
  BY <1>1, <1>5, TakeFits DEF StockInv, Modes
<1>7. /\ row \in RowType /\ row.upb = product[r].upb /\ row.units < Upb(l.row.upb)
      /\ l.row.upb = product[r].upb => Total(row) = Total(l.row) + line.qty
  <2> DEFINE t == Total(l.row) + line.qty
  <2>1. t \in Nat
    BY <1>5
  <2>2. row = WithStock(product[r], Boxed(t, l.row.upb))
    OBVIOUS
  <2> HIDE DEF l, line, r, row, t
  <2>3. /\ row \in RowType /\ row.upb = product[r].upb /\ row.units < Upb(l.row.upb)
        /\ l.row.upb = product[r].upb => Total(row) = t
    BY <1>5, <2>1, <2>2, Stocked
  <2> QED
    BY <2>3 DEF t
<1>8. /\ w \in TxnType /\ w.lines = l.lines /\ w.next = l.next
      /\ DOMAIN w.writes = DOMAIN l.writes \cup {r} /\ w.writes[r] = row
      /\ \A x \in DOMAIN l.writes \ {r} : w.writes[x] = l.writes[x]
  <2>1. w = Write(l, r, row)
    OBVIOUS
  <2> HIDE DEF l, line, r, row, w
  <2> QED
    BY <1>2, <1>5, <1>7, <2>1, WriteFacts
<1>9. m \in TxnType /\ m.lines = w.lines /\ m.next = l.next + 1 /\ m.writes = w.writes
  <2> HIDE DEF w, l
  <2> QED
    BY <1>2, <1>8 DEF Advance, TxnType
<1>10. /\ Frozen => Total(l.row) = Total(product[r])
       /\ Frozen \/ SizesKept => l.row.upb = product[r].upb
  BY <1>1, <1>3 DEF RestockFits
<1> HIDE DEF l, line, row, w, m
<1>11. r = l.lines[l.next].product
  BY DEF line
<1>12. r \notin DOMAIN l.writes
  BY <1>2, <1>3, <1>4, <1>11 DEF Distinct
<1> HIDE DEF r
<1>13. DOMAIN m.writes = {m.lines[i].product : i \in DOMAIN m.lines \cap 1..(m.next - 1)}
  BY <1>2, <1>3, <1>4, <1>8, <1>9, <1>11
<1>14. RestockFits(product, "restockStock", m)
  <2> SUFFICES ASSUME NEW x \in DOMAIN m.writes
               PROVE  /\ m.writes[x].upb = product[x].upb
                      /\ Frozen => Total(m.writes[x]) = Total(product[x]) + Quantity(m.lines, x)
                      /\ SizesKept => m.writes[x].units < Upb(product[x].upb)
    BY DEF RestockFits
  <2>1. CASE x = r
    BY <1>5, <1>7, <1>8, <1>9, <1>10, <2>1
  <2>2. CASE x # r
    BY <1>3, <1>8, <1>9, <2>2 DEF RestockFits
  <2> QED
    BY <2>1, <2>2
<1>15. RequestFits(product, locks', p, "restockStock", m)
  <2>1. LocalFits("restockStock", m)
    BY <1>3, <1>8, <1>9, <1>13 DEF LocalFits
  <2>2. InScene(p, "restockStock", m)
    BY <1>2, <1>3 DEF InScene
  <2>3. Locked(locks', p, "restockStock", m)
    BY <1>3, <1>6, <1>8, <1>9 DEF Locked
  <2> QED
    BY <1>14, <2>1, <2>2, <2>3 DEF RequestFits, Fresh
<1> QED
  BY <1>1, <1>6, <1>15, MoveStep DEF Labels

-----------------------------------------------------------------------------
(* Steps that change products.                                             *)

\* Where edits leave the stock alone they leave the box sizes alone.
LEMMA FrozenSizes ==
    Frozen => SizesStand
BY DEF Frozen, StockStands, SizesStand

\* The request of p ends and changes products that nobody else has locked to write, nor
\* read to restock: what the others have computed is still about the rows as they are.
LEMMA ChangeStep ==
    ASSUME StockInv, NEW p \in Tills, at[p] # "idle", Move(p, "idle", NoCart), NEW D \in SUBSET Products,
           product' \in [Products -> RowType], \A r \in Products \ D : product'[r] = product[r],
           LocksFit', \A k \in locks : k.by # p => k \in locks',
           opening' = opening, delivered' \in [Products -> Nat], sold' \in [Products -> Nat],
           Frozen => StockMatchesRecords',
           SizesKept => \A r \in Products : Snug(product'[r]),
           SizesStand => \A r \in Products : product'[r].upb = product[r].upb,
           \A q \in Tills \ {p}, r \in D :
               Lock(q, r, "update") \notin locks /\ Lock(q, r, "noKeyUpdate") \notin locks,
           Frozen => \A q \in Tills \ {p}, r \in D :
               at[q] = "restockWrite" /\ Lock(q, r, "keyShare") \in locks => Total(product'[r]) = Total(product[r])
    PROVE  StockInv'
<1>1. /\ shelf' = shelf /\ at' \in [Tills -> Labels] /\ DOMAIN local' = Tills
      /\ at'[p] = "idle"
      /\ \A q \in Tills \ {p} : at'[q] = at[q] /\ local'[q] = local[q]
  BY Moved DEF Labels
<1>2. RequestFits(product', locks', p, at'[p], local'[p])
  BY <1>1, IdleFits
<1>3. ASSUME NEW q \in Tills \ {p}
      PROVE  RequestFits(product', locks', q, at'[q], local'[q])
  <2> DEFINE l == local[q]
  <2>1. RequestFits(product, locks, q, at[q], l)
    BY DEF StockInv
  <2>2. Locked(locks', q, at[q], l)
    BY <2>1, LockedStays DEF RequestFits
  <2>3. at[q] # "idle" => ~OneHand
    <3>1. shelf.handlers[p] # {}
      BY DEF StockInv, RequestFits, InScene
    <3>2. at[q] # "idle" => shelf.handlers[q] # {}
      BY <2>1 DEF RequestFits, InScene
    <3> QED
      BY <3>1, <3>2 DEF OneHand
  <2>4. at[q] # "idle" /\ (SizesKept \/ Frozen) => SizesStand
    BY <2>3, FrozenSizes DEF SizesKept
  <2>5. ASSUME at[q] = "saleStock" PROVE SaleFits(product', l)
    <3>1. l \in TxnType
      BY <2>1, <2>5 DEF RequestFits, LocalFits, InTxn, Selling
    <3>2. \A r \in DOMAIN l.writes : r \in Products \ D
      BY <2>1, <2>5, <3>1, WritesAre DEF RequestFits, Locked, Stocking
    <3> HIDE DEF l
    <3> QED
      BY <2>1, <2>5, <3>2 DEF RequestFits, Fresh, SaleFits
  <2>6. ASSUME at[q] \in Restocking PROVE RestockFits(product', at[q], l)
    <3>1. l \in TxnType /\ RestockFits(product, at[q], l)
      BY <2>1, <2>6 DEF RequestFits, LocalFits, Fresh, InTxn
    <3>2. \A r \in DOMAIN l.writes : r \in Products \ D
      <4>1. CASE at[q] = "restockLines"
        BY <2>1, <4>1 DEF RequestFits, LocalFits
      <4>2. CASE at[q] \in {"restockStock", "restockWrite"}
        BY <2>1, <3>1, <4>2, WritesAre DEF RequestFits, Locked
      <4> QED
        BY <2>6, <4>1, <4>2 DEF Restocking
    <3>3. ASSUME at[q] = "restockWrite"
          PROVE  LET row == product'[l.lines[l.next].product]
                 IN  /\ Frozen => Total(l.row) = Total(row)
                     /\ Frozen \/ SizesKept => l.row.upb = row.upb
      <4> DEFINE r == l.lines[l.next].product
      <4>1. l.lines \in Carts /\ l.next \in DOMAIN l.lines
        BY <2>1, <3>1, <3>3 DEF RequestFits, LocalFits, TxnType
      <4>2. r \in Products /\ Lock(q, r, "keyShare") \in locks
        BY <2>1, <3>3, <4>1, CartLines DEF RequestFits, Locked, Stocking
      <4>3. /\ Frozen => Total(l.row) = Total(product[r])
            /\ Frozen \/ SizesKept => l.row.upb = product[r].upb
        BY <3>1, <3>3 DEF RestockFits
      <4> HIDE DEF l, r
      <4>4. Frozen => Total(product'[r]) = Total(product[r])
        BY <3>3, <4>2
      <4>5. Frozen \/ SizesKept => product'[r].upb = product[r].upb
        BY <2>4, <3>3, <4>2
      <4> QED
        BY <4>3, <4>4, <4>5 DEF r
    <3> HIDE DEF l
    <3> QED
      BY <3>1, <3>2, <3>3 DEF RestockFits
  <2>7. ASSUME at[q] = "editWrite" PROVE EditFits(product', l)
    <3>1. /\ l \in [product : Products, edit : Edit, stock : Patch]
          /\ EditFits(product, l)
          /\ SizesStand => l.edit.upb = Keep
      BY <2>1, <2>7 DEF RequestFits, LocalFits, InScene, Fresh
    <3> DEFINE r == l.product
    <3>2. r \in Products
      BY <3>1
    <3> HIDE DEF l
    <3>3. SizesStand => l.stock.units = Keep \/ l.stock.units < Upb(product'[r].upb)
      BY <3>1, <3>2 DEF EditFits
    <3>4. SizesKept => Snug(Edited(l, product'[r]))
      <4> SUFFICES ASSUME SizesKept PROVE Snug(Edited(l, product'[r]))
        OBVIOUS
      <4> DEFINE new == Edited(l, product'[r])
      <4>1. SizesStand /\ l.edit.upb = Keep /\ Snug(product'[r]) /\ product'[r] \in RowType
        BY <2>4, <2>7, <3>1, <3>2
      <4>2. new.upb = product'[r].upb /\ new.units \in {product'[r].units, l.stock.units}
            /\ (l.stock.units = Keep => new.units = product'[r].units)
        BY <4>1 DEF Edited, Given
      <4>3. ASSUME new.units = product'[r].units PROVE Snug(new)
        BY <4>1, <4>2, <4>3 DEF Snug
      <4>4. ASSUME new.units < Upb(product'[r].upb) PROVE Snug(new)
        <5>1. product'[r].upb \in Nat /\ product'[r].upb \in Sizes \cup {0}
          BY <4>1 DEF Snug, RowType
        <5> HIDE DEF new
        <5> QED
          BY <4>2, <4>4, <5>1 DEF Snug, Upb
      <4> QED
        BY <3>3, <4>1, <4>2, <4>3, <4>4
    <3> QED
      BY <3>3, <3>4 DEF EditFits
  <2> QED
    BY <1>1, <2>1, <2>2, <2>5, <2>6, <2>7 DEF RequestFits, Fresh
<1> QED
  BY <1>1, <1>2, <1>3, NextFits DEF StockInv, RowsFit

\* Nobody else has a lock on a row that p has FOR UPDATE.
LEMMA UpdateAlone ==
    ASSUME LocksFit, NEW p, NEW q, p # q, NEW r, NEW mode, Lock(p, r, "update") \in locks
    PROVE  Lock(q, r, mode) \notin locks
BY DEF LocksFit, Lock, Conflict

LEMMA WriteAlone ==
    ASSUME LocksFit, NEW p, NEW q, p # q, NEW r, Lock(p, r, "noKeyUpdate") \in locks
    PROVE  Lock(q, r, "noKeyUpdate") \notin locks /\ Lock(q, r, "update") \notin locks
BY DEF LocksFit, Lock, Conflict

\* A row that keeps its box size and has less than a box loose stays snug.
LEMMA SnugBox ==
    ASSUME NEW old \in RowType, Snug(old), NEW new, new.upb = old.upb, new.units < Upb(old.upb)
    PROVE  Snug(new)
<1>1. old.upb \in Nat /\ old.upb \in Sizes \cup {0}
  BY DEF Snug, RowType
<1> QED
  BY <1>1 DEF Snug, Upb

\* The products after the commit of p.
LEMMA CommitFacts ==
    ASSUME StockInv, NEW p \in Tills, at[p] \in InTxn, CommitWrites(p)
    PROVE  /\ DOMAIN local[p].writes \subseteq Products
           /\ product' \in [Products -> RowType]
           /\ \A r \in DOMAIN local[p].writes : product'[r] = local[p].writes[r]
           /\ \A r \in Products \ DOMAIN local[p].writes : product'[r] = product[r]
           /\ Move(p, "idle", NoCart) /\ opening' = opening
           /\ LocksFit' /\ \A k \in locks : k.by # p => k \in locks'
<1> DEFINE w == local[p].writes
<1>1. DOMAIN w \subseteq Products /\ \A r \in DOMAIN w : w[r] \in RowType
  BY InTxnFacts, WritesAre
<1>2. product' = [r \in Products |-> IF r \in DOMAIN w THEN w[r] ELSE product[r]]
  BY DEF CommitWrites
<1>3. product \in [Products -> RowType]
  BY DEF StockInv, RowsFit
<1>4. Move(p, "idle", NoCart) /\ opening' = opening /\ locks' = Release(locks, p)
  BY DEF CommitWrites
<1>5. LocksFit' /\ \A k \in locks : k.by # p => k \in locks'
  BY <1>4, ReleaseFits DEF StockInv
<1> HIDE DEF w
<1>6. /\ product' \in [Products -> RowType]
      /\ \A r \in DOMAIN w : product'[r] = w[r]
      /\ \A r \in Products \ DOMAIN w : product'[r] = product[r]
  BY <1>1, <1>2, <1>3
<1> QED
  BY <1>1, <1>4, <1>5, <1>6 DEF w

LEMMA SaleCommitStep ==
    ASSUME StockInv, NEW p \in Tills, SaleCommit(p) PROVE StockInv'
<1> DEFINE l == local[p]
           D == DOMAIN l.writes
<1>1. /\ at[p] = "saleStock" /\ ~Left(p) /\ CommitWrites(p) /\ delivered' = delivered
      /\ sold' = [r \in Products |-> sold[r] + Quantity(l.lines, r)]
  BY DEF SaleCommit
<1>2. /\ at[p] \in InTxn /\ l \in TxnType /\ l.lines \in Carts
      /\ RequestFits(product, locks, p, at[p], l)
  BY <1>1, InTxnFacts DEF InTxn, Selling
<1>3. /\ D \in SUBSET Products /\ product' \in [Products -> RowType]
      /\ \A r \in D : product'[r] = l.writes[r]
      /\ \A r \in Products \ D : product'[r] = product[r]
      /\ Move(p, "idle", NoCart) /\ opening' = opening
      /\ LocksFit' /\ \A k \in locks : k.by # p => k \in locks'
  BY <1>1, <1>2, CommitFacts
<1>4. (\A r \in D : Lock(p, r, "update") \in locks) /\ SaleFits(product, l)
  BY <1>1, <1>2 DEF RequestFits, Locked, Fresh
<1>5. Named(l.lines) \subseteq D
  BY <1>1 DEF Left, Undeducted, Named
<1>6. /\ product \in [Products -> RowType] /\ delivered \in [Products -> Nat]
      /\ sold \in [Products -> Nat] /\ opening \in [Products -> Nat]
      /\ Frozen => StockMatchesRecords
      /\ SizesKept => \A r \in Products : Snug(product[r])
  BY DEF StockInv, RowsFit
<1>7. \A r \in Products : Quantity(l.lines, r) \in Nat /\ (r \notin D => Quantity(l.lines, r) = 0)
  BY <1>2, <1>5, QuantityFacts
<1>8. at[p] # "idle"
  BY <1>1
<1>9. LocksFit
  BY DEF StockInv
<1> HIDE DEF l, D
<1>10. sold' \in [Products -> Nat] /\ delivered' \in [Products -> Nat]
  BY <1>1, <1>6, <1>7
<1>11. \A r \in D : /\ product'[r].upb = product[r].upb /\ product'[r].units < Upb(product[r].upb)
                    /\ Total(product'[r]) = Total(product[r]) - Quantity(l.lines, r)
  BY <1>3, <1>4 DEF SaleFits, D
<1>12. Frozen => StockMatchesRecords'
  <2> SUFFICES ASSUME Frozen, NEW r \in Products
               PROVE  Total(product'[r]) = opening'[r] + delivered'[r] - sold'[r]
    BY DEF StockMatchesRecords, Total
  <2>1. Total(product[r]) = opening[r] + delivered[r] - sold[r]
    BY <1>6 DEF StockMatchesRecords
  <2>2. Total(product'[r]) = Total(product[r]) - Quantity(l.lines, r)
    <3>1. Total(product[r]) \in Nat
      BY <1>6, TotalNat
    <3> QED
      BY <1>3, <1>7, <1>11, <3>1
  <2>3. opening[r] \in Nat /\ delivered[r] \in Nat /\ sold[r] \in Nat /\ Quantity(l.lines, r) \in Nat
    BY <1>6, <1>7
  <2> QED
    BY <1>1, <1>3, <2>1, <2>2, <2>3
<1>13. ASSUME SizesKept, NEW r \in Products PROVE Snug(product'[r])
  <2>1. product[r] \in RowType /\ Snug(product[r])
    BY <1>6, <1>13
  <2>2. CASE r \in D
    BY <1>11, <2>1, <2>2, SnugBox
  <2>3. CASE r \notin D
    BY <1>3, <2>1, <2>3
  <2> QED
    BY <2>2, <2>3
<1>14. \A r \in Products : product'[r].upb = product[r].upb
  BY <1>3, <1>11
<1>15. \A q \in Tills \ {p}, r \in D, mode \in Modes : Lock(q, r, mode) \notin locks
  BY <1>4, <1>9, UpdateAlone
<1> QED
  BY <1>3, <1>8, <1>10, <1>12, <1>13, <1>14, <1>15, ChangeStep DEF Modes

LEMMA RestockCommitStep ==
    ASSUME StockInv, NEW p \in Tills, RestockCommit(p) PROVE StockInv'
<1> DEFINE l == local[p]
           D == DOMAIN l.writes
<1>1. /\ at[p] = "restockStock" /\ ~Lines(p) /\ CommitWrites(p) /\ sold' = sold
      /\ delivered' = [r \in Products |-> delivered[r] + Quantity(l.lines, r)]
  BY DEF RestockCommit
<1>2. /\ at[p] \in InTxn /\ l \in TxnType /\ l.lines \in Carts /\ l.next \in Nat \ {0}
      /\ Len(l.lines) \in Nat /\ DOMAIN l.lines = 1..Len(l.lines)
  BY <1>1, InTxnFacts DEF InTxn, Restocking
<1>3. /\ D \in SUBSET Products /\ product' \in [Products -> RowType]
      /\ \A r \in D : product'[r] = l.writes[r]
      /\ \A r \in Products \ D : product'[r] = product[r]
      /\ Move(p, "idle", NoCart) /\ opening' = opening
      /\ LocksFit' /\ \A k \in locks : k.by # p => k \in locks'
  BY <1>1, <1>2, CommitFacts
<1>4. /\ "restock" \in shelf.handlers[p]
      /\ D = {l.lines[i].product : i \in DOMAIN l.lines \cap 1..(l.next - 1)}
      /\ \A r \in D : Lock(p, r, "noKeyUpdate") \in locks
      /\ RestockFits(product, at[p], l)
  BY <1>1, RestockFacts
<1>5. Named(l.lines) \subseteq D
  <2>1. l.next \notin 1..Len(l.lines)
    BY <1>1, <1>2 DEF Lines
  <2> QED
    BY <1>2, <1>4, <2>1 DEF Named
<1>6. /\ product \in [Products -> RowType] /\ delivered \in [Products -> Nat]
      /\ sold \in [Products -> Nat] /\ opening \in [Products -> Nat]
      /\ Frozen => StockMatchesRecords
      /\ SizesKept => \A r \in Products : Snug(product[r])
  BY DEF StockInv, RowsFit
<1>7. \A r \in Products : Quantity(l.lines, r) \in Nat /\ (r \notin D => Quantity(l.lines, r) = 0)
  BY <1>2, <1>5, QuantityFacts
<1>8. at[p] # "idle"
  BY <1>1
<1>9. LocksFit
  BY DEF StockInv
<1> HIDE DEF l, D
<1>10. sold' \in [Products -> Nat] /\ delivered' \in [Products -> Nat]
  BY <1>1, <1>6, <1>7
<1>11. \A r \in D : /\ product'[r].upb = product[r].upb
                    /\ SizesKept => product'[r].units < Upb(product[r].upb)
                    /\ Frozen => Total(product'[r]) = Total(product[r]) + Quantity(l.lines, r)
  BY <1>3, <1>4 DEF RestockFits, D
<1>12. Frozen => StockMatchesRecords'
  <2> SUFFICES ASSUME Frozen, NEW r \in Products
               PROVE  Total(product'[r]) = opening'[r] + delivered'[r] - sold'[r]
    BY DEF StockMatchesRecords, Total
  <2>1. Total(product[r]) = opening[r] + delivered[r] - sold[r]
    BY <1>6 DEF StockMatchesRecords
  <2>2. Total(product'[r]) = Total(product[r]) + Quantity(l.lines, r)
    <3>1. Total(product[r]) \in Nat
      BY <1>6, TotalNat
    <3> QED
      BY <1>3, <1>7, <1>11, <3>1
  <2>3. opening[r] \in Nat /\ delivered[r] \in Nat /\ sold[r] \in Nat /\ Quantity(l.lines, r) \in Nat
    BY <1>6, <1>7
  <2> QED
    BY <1>1, <1>3, <2>1, <2>2, <2>3
<1>13. ASSUME SizesKept, NEW r \in Products PROVE Snug(product'[r])
  <2>1. product[r] \in RowType /\ Snug(product[r])
    BY <1>6, <1>13
  <2>2. CASE r \in D
    BY <1>11, <1>13, <2>1, <2>2, SnugBox
  <2>3. CASE r \notin D
    BY <1>3, <2>1, <2>3
  <2> QED
    BY <2>2, <2>3
<1>14. \A r \in Products : product'[r].upb = product[r].upb
  BY <1>3, <1>11
<1>15. \A q \in Tills \ {p}, r \in D :
          Lock(q, r, "update") \notin locks /\ Lock(q, r, "noKeyUpdate") \notin locks
  BY <1>4, <1>9, WriteAlone
<1>16. Frozen => \A q \in Tills \ {p} : at[q] # "restockWrite"
  <2> SUFFICES ASSUME Frozen, NEW q \in Tills \ {p}, at[q] = "restockWrite" PROVE FALSE
    OBVIOUS
  <2>1. "restock" \in shelf.handlers[q]
    BY RestockFacts
  <2> QED
    BY <1>4, <2>1 DEF Frozen, OneRestocker
<1> QED
  BY <1>3, <1>8, <1>10, <1>12, <1>13, <1>14, <1>15, <1>16, ChangeStep
-----------------------------------------------------------------------------
(* Edits.                                                                  *)

\* What a handler sets the stock columns to: nothing, or stock packed into boxes of the
\* size it takes the product to have.
LEMMA PatchFacts ==
    ASSUME NEW row \in RowType, NEW e \in Edit
    PROVE  LET s == StockPatch(row, e)
           IN  \/ /\ s = [boxes |-> Keep, units |-> Keep]
                  /\ e.boxes = Keep /\ e.units = Keep /\ e.upb \in {Keep, row.upb}
               \/ /\ s \in [boxes : Nat, units : Nat]
                  /\ s.units < Upb(GivenUpb(e.upb, row.upb)) \/ (e.upb # Keep /\ s.units < Upb(e.upb))
<1> DEFINE s == StockPatch(row, e)
           g == GivenUpb(e.upb, row.upb)
           b == Given(e.boxes, row.boxes)
           u == Given(e.units, row.units)
<1>1. /\ row.boxes \in Nat /\ row.units \in Nat /\ row.upb \in Nat
      /\ e.boxes \in Nat \cup {Keep} /\ e.units \in Nat \cup {Keep} /\ e.upb \in Nat \cup {Keep}
  BY DEF RowType, Edit
<1>2. g \in Nat /\ b \in Nat /\ u \in Nat
  BY <1>1 DEF GivenUpb, Given
<1>3. \A n \in Nat : Upb(n) \in Nat
  BY DEF Upb
<1>4. CASE e.boxes # Keep \/ e.units # Keep
  <2>1. s = Boxed(b * Upb(g) + u, g)
    BY <1>4 DEF StockPatch
  <2> HIDE DEF s, g, b, u
  <2>2. b * Upb(g) + u \in Nat
    BY <1>2, <1>3
  <2>3. s \in [boxes : Nat, units : Nat] /\ s.units < Upb(g)
    BY <1>2, <2>1, <2>2, Packed
  <2> QED
    BY <2>3 DEF s, g
<1>5. CASE e.boxes = Keep /\ e.units = Keep /\ e.upb # Keep /\ e.upb # row.upb
  <2>1. s = Boxed(row.boxes * Upb(e.upb) + row.units, e.upb)
    BY <1>5 DEF StockPatch
  <2> HIDE DEF s
  <2>2. e.upb \in Nat /\ row.boxes * Upb(e.upb) + row.units \in Nat
    BY <1>1, <1>3, <1>5
  <2>3. s \in [boxes : Nat, units : Nat] /\ s.units < Upb(e.upb)
    BY <2>1, <2>2, Packed
  <2> QED
    BY <1>5, <2>3 DEF s
<1>6. CASE e.boxes = Keep /\ e.units = Keep /\ (e.upb = Keep \/ e.upb = row.upb)
  BY <1>6 DEF StockPatch
<1> QED
  BY <1>4, <1>5, <1>6

\* The columns of an edited row.
LEMMA EditedFacts ==
    ASSUME NEW l, l \in [product : Products, edit : Edit, stock : Patch], NEW row \in RowType
    PROVE  LET new == Edited(l, row)
           IN  /\ new \in RowType
               /\ new.boxes = Given(l.stock.boxes, row.boxes) /\ new.units = Given(l.stock.units, row.units)
               /\ new.upb = Given(l.edit.upb, row.upb)
<1> DEFINE new == Edited(l, row)
<1>1. /\ row.boxes \in Nat /\ row.units \in Nat /\ row.upb \in Nat /\ row.active \in BOOLEAN
      /\ l.edit \in Edit /\ l.stock \in Patch
  BY DEF RowType
<1>2. /\ l.edit.upb \in Nat \cup {Keep} /\ l.edit.active \in BOOLEAN \cup {Keep}
      /\ l.stock.boxes \in Nat \cup {Keep} /\ l.stock.units \in Nat \cup {Keep}
  BY <1>1 DEF Edit, Patch
<1>3. new = [boxes |-> Given(l.stock.boxes, row.boxes), units |-> Given(l.stock.units, row.units),
             upb |-> Given(l.edit.upb, row.upb), active |-> Given(l.edit.active, row.active)]
  BY DEF Edited
<1>4. /\ Given(l.stock.boxes, row.boxes) \in Nat /\ Given(l.stock.units, row.units) \in Nat
      /\ Given(l.edit.upb, row.upb) \in Nat /\ Given(l.edit.active, row.active) \in BOOLEAN
  BY <1>1, <1>2 DEF Given
<1> HIDE DEF new
<1>5. /\ new \in RowType /\ new.upb = Given(l.edit.upb, row.upb)
      /\ new.boxes = Given(l.stock.boxes, row.boxes) /\ new.units = Given(l.stock.units, row.units)
  BY <1>3, <1>4 DEF RowType
<1> QED
  BY <1>5 DEF new

\* The request of p goes on to write an edit of product r.
LEMMA EditStarts ==
    ASSUME StockInv, NEW p \in Tills, NEW l, l \in [product : Products, edit : Edit, stock : Patch],
           Move(p, "editWrite", l), UNCHANGED <<product, locks, records>>, shelf.handlers[p] # {},
           StockStands => l.stock = [boxes |-> Keep, units |-> Keep] /\ l.edit.upb = Keep,
           SizesStand => l.edit.upb = Keep,
           EditFits(product, l)
    PROVE  StockInv'
<1>1. UNCHANGED <<product, records>> /\ LocksFit' /\ \A k \in locks : k.by # p => k \in locks'
  BY DEF StockInv, LocksFit
<1>2. RequestFits(product, locks', p, "editWrite", l)
  BY DEF RequestFits, LocalFits, InScene, Locked, Fresh, InTxn, Selling, Restocking, Stocking
<1> QED
  BY <1>1, <1>2, MoveStep DEF Labels

LEMMA EditReadStep ==
    ASSUME StockInv, NEW p \in Tills, NEW r \in Products, NEW e \in shelf.edits, EditRead(p, r, e)
    PROVE  StockInv'
<1> DEFINE row == product[r]
           s == StockPatch(row, e)
           l == [product |-> r, edit |-> e, stock |-> s]
<1>1. /\ Move(p, "editWrite", l) /\ UNCHANGED <<product, locks, records>> /\ shelf.handlers[p] # {}
  BY DEF EditRead, Open
<1>2. e \in Edit /\ row \in RowType /\ (SizesKept => Snug(row))
  BY SceneFacts DEF StockInv, RowsFit
<1>3. \/ /\ s = [boxes |-> Keep, units |-> Keep]
         /\ e.boxes = Keep /\ e.units = Keep /\ e.upb \in {Keep, row.upb}
      \/ /\ s \in [boxes : Nat, units : Nat]
         /\ s.units < Upb(GivenUpb(e.upb, row.upb)) \/ (e.upb # Keep /\ s.units < Upb(e.upb))
  BY <1>2, PatchFacts
<1>4. StockStands => e.boxes = Keep /\ e.units = Keep /\ e.upb = Keep
  BY DEF StockStands
<1>5. SizesStand => e.upb = Keep
  BY DEF SizesStand
<1>6. e.upb \in Nat \cup {Keep} /\ row.upb \in Nat
  BY <1>2 DEF Edit, RowType
<1>7. StockStands => s = [boxes |-> Keep, units |-> Keep]
  BY <1>4 DEF StockPatch
<1>8. e.upb \in Sizes \cup {Keep, 0}
  BY DEF Sizes, NewSizes
<1> HIDE DEF row, s
<1>9. l \in [product : Products, edit : Edit, stock : Patch]
  BY <1>2, <1>3 DEF Patch
<1>10. l.product = r /\ l.edit = e /\ l.stock = s
  OBVIOUS
<1> DEFINE new == Edited(l, row)
<1>11. new.units = Given(s.units, row.units) /\ new.upb = Given(e.upb, row.upb)
  BY <1>2, <1>9, <1>10, EditedFacts
<1> HIDE DEF l, new
<1>12. ASSUME SizesKept PROVE Snug(new)
  <2>1. Snug(row)
    BY <1>2, <1>12
  <2>2. CASE s = [boxes |-> Keep, units |-> Keep] /\ e.upb \in {Keep, row.upb}
    <3>1. new.units = row.units /\ new.upb = row.upb
      BY <1>11, <2>2 DEF Given
    <3> QED
      BY <2>1, <3>1 DEF Snug
  <2>3. CASE s \in [boxes : Nat, units : Nat]
    <3>1. new.units = s.units /\ s.units \in Nat
      BY <1>11, <2>3, KeepAssumption DEF Given
    <3>2. row.upb \in Sizes \cup {0}
      BY <2>1 DEF Snug
    <3>3. CASE s.units < Upb(GivenUpb(e.upb, row.upb))
      <4>1. CASE e.upb \in {Keep, 0}
        BY <1>6, <1>11, <3>1, <3>2, <3>3, <4>1, KeepAssumption DEF Snug, Given, GivenUpb, Upb
      <4>2. CASE e.upb \notin {Keep, 0}
        BY <1>6, <1>8, <1>11, <3>1, <3>3, <4>2 DEF Snug, Given, GivenUpb, Upb
      <4> QED
        BY <4>1, <4>2
    <3>4. CASE e.upb # Keep /\ s.units < Upb(e.upb)
      BY <1>6, <1>8, <1>11, <3>1, <3>4 DEF Snug, Given, Upb
    <3> QED
      BY <1>3, <2>3, <3>3, <3>4, KeepAssumption
  <2> QED
    BY <1>3, <2>2, <2>3
<1>13. SizesStand => s.units = Keep \/ s.units < Upb(row.upb)
  BY <1>3, <1>5 DEF GivenUpb
<1>14. EditFits(product, l)
  BY <1>10, <1>12, <1>13 DEF EditFits, row, new
<1> QED
  BY <1>1, <1>4, <1>5, <1>7, <1>9, <1>10, <1>14, EditStarts DEF l, s, row

LEMMA ReactivateReadStep ==
    ASSUME StockInv, NEW p \in Tills, NEW r \in Products, NEW e \in shelf.edits, ReactivateRead(p, r, e.upb)
    PROVE  StockInv'
<1> DEFINE row == product[r]
           size == IF e.upb = 0 THEN Keep ELSE e.upb
           none == [boxes |-> Keep, units |-> Keep]
           set == [boxes |-> Keep, units |-> Keep, active |-> TRUE, upb |-> size]
           l == [product |-> r, stock |-> none, edit |-> set]
<1>1. /\ Move(p, "editWrite", l) /\ UNCHANGED <<product, locks, records>>
      /\ "reactivate" \in shelf.handlers[p]
  BY DEF ReactivateRead, Open
<1>2. e \in Edit /\ row \in RowType /\ (SizesKept => Snug(row))
  BY SceneFacts DEF StockInv, RowsFit
<1>3. /\ StockStands => e.upb = Keep
      /\ SizesStand => e.upb = Keep
  BY DEF StockStands, SizesStand
<1>4. e.upb \in Nat \cup {Keep} /\ row.upb \in Nat /\ row.units \in Nat /\ 0 # Keep
  BY <1>2, KeepAssumption DEF Edit, RowType
<1>5. size \in Nat \cup {Keep} /\ (e.upb = Keep => size = Keep)
      /\ (size # Keep => size = e.upb /\ size # 0)
  BY <1>4
<1>6. e.upb \in NewSizes \cup {Keep, 0}
  BY DEF NewSizes
<1>7. Sizes \subseteq Nat
  <2>1. \A d \in shelf.edits : d.upb \in Nat \cup {Keep}
    BY SceneFacts DEF Edit
  <2>2. \A open \in shelf.openings : open.upb \in Nat
    BY SceneFacts DEF RowType
  <2> QED
    BY <2>1, <2>2 DEF Sizes, NewSizes
<1> HIDE DEF row, size
<1>8. set \in Edit
  BY <1>5 DEF Edit
<1>9. none \in Patch
  BY DEF Patch
<1>10. l \in [product : Products, edit : Edit, stock : Patch]
  BY <1>8, <1>9
<1>11. l.product = r /\ l.stock = none /\ l.stock.units = Keep /\ l.edit.upb = size
  OBVIOUS
<1> DEFINE new == Edited(l, row)
<1>12. new.units = row.units /\ new.upb = Given(size, row.upb)
  BY <1>2, <1>10, <1>11, EditedFacts DEF Given
<1> HIDE DEF l, new
<1>13. ASSUME SizesKept PROVE Snug(new)
  <2>1. Snug(row)
    BY <1>2, <1>13
  <2>2. CASE size = Keep
    BY <1>12, <2>1, <2>2 DEF Snug, Given
  <2>3. CASE size # Keep
    <3>1. new.upb = size /\ size \in Nat /\ size \in NewSizes
      BY <1>5, <1>6, <1>12, <2>3 DEF Given
    <3>2. PICK old \in Sizes \cup {0} : row.units < Upb(old)
      BY <2>1 DEF Snug
    <3>3. \A x \in Sizes : x <= size
      BY <1>1, <1>13, <3>1 DEF SizesKept, SizesGrow
    <3>4. old \in Nat /\ old <= size
      <4>1. CASE old = 0
        BY <3>1, <4>1
      <4>2. CASE old \in Sizes
        BY <1>7, <3>3, <4>2
      <4> QED
        BY <3>2, <4>1, <4>2
    <3>5. row.units < Upb(size)
      BY <1>4, <3>1, <3>2, <3>4 DEF Upb
    <3>6. size \in Sizes
      BY <3>1 DEF Sizes
    <3> QED
      BY <1>12, <3>1, <3>5, <3>6 DEF Snug, Upb
  <2> QED
    BY <2>2, <2>3
<1>14. EditFits(product, l)
  BY <1>11, <1>13 DEF EditFits, row, new
<1>15. shelf.handlers[p] # {} /\ (StockStands => size = Keep) /\ (SizesStand => size = Keep)
  BY <1>1, <1>3, <1>5
<1> QED
  BY <1>1, <1>10, <1>11, <1>14, <1>15, EditStarts DEF l, size

LEMMA EditWriteStep ==
    ASSUME StockInv, NEW p \in Tills, EditWrite(p) PROVE StockInv'
<1> DEFINE l == local[p]
           r == l.product
           row == product[r]
           new == Edited(l, row)
<1>1. /\ at[p] = "editWrite" /\ Free(locks, r, p, "noKeyUpdate")
      /\ product' = [product EXCEPT ![r] = new]
      /\ Move(p, "idle", NoCart) /\ locks' = locks /\ UNCHANGED records
  BY DEF EditWrite
<1>2. RequestFits(product, locks, p, "editWrite", l)
  BY <1>1 DEF StockInv
<1>3. /\ l \in [product : Products, edit : Edit, stock : Patch]
      /\ StockStands => l.stock = [boxes |-> Keep, units |-> Keep] /\ l.edit.upb = Keep
      /\ SizesStand => l.edit.upb = Keep
      /\ SizesKept => Snug(Edited(l, product[l.product]))
  BY <1>2 DEF RequestFits, LocalFits, InScene, Fresh, EditFits
<1>4. /\ product \in [Products -> RowType]
      /\ opening \in [Products -> Nat] /\ delivered \in [Products -> Nat] /\ sold \in [Products -> Nat]
      /\ Frozen => StockMatchesRecords
      /\ SizesKept => \A x \in Products : Snug(product[x])
  BY DEF StockInv, RowsFit
<1>5. r \in Products /\ row \in RowType
  BY <1>3, <1>4
<1>6. /\ new \in RowType
      /\ new.boxes = Given(l.stock.boxes, row.boxes) /\ new.units = Given(l.stock.units, row.units)
      /\ new.upb = Given(l.edit.upb, row.upb)
  BY <1>3, <1>5, EditedFacts
<1>7. Frozen => Total(new) = Total(row)
  BY <1>3, <1>6 DEF Frozen, Given, Total
<1>8. SizesStand => new.upb = row.upb
  BY <1>3, <1>6 DEF Given
<1>9. SizesKept => Snug(new)
  BY <1>3
<1>10. opening' = opening /\ delivered' = delivered /\ sold' = sold
  BY <1>1 DEF records
<1>11. LocksFit' /\ \A k \in locks : k.by # p => k \in locks'
  BY <1>1 DEF StockInv, LocksFit
<1>12. \A q \in Tills \ {p} : Lock(q, r, "update") \notin locks /\ Lock(q, r, "noKeyUpdate") \notin locks
  BY <1>1, FreeOfOthers DEF Conflict
<1> HIDE DEF l, r, row, new
<1>13. /\ product' \in [Products -> RowType] /\ product'[r] = new
       /\ \A x \in Products \ {r} : product'[x] = product[x]
  BY <1>1, <1>4, <1>5, <1>6
<1>14. Frozen => \A x \in Products : Total(product'[x]) = Total(product[x])
  BY <1>7, <1>13 DEF row
<1>15. Frozen => StockMatchesRecords'
  <2> SUFFICES ASSUME Frozen, NEW x \in Products
               PROVE  Total(product'[x]) = opening'[x] + delivered'[x] - sold'[x]
    BY DEF StockMatchesRecords, Total
  <2> QED
    BY <1>4, <1>10, <1>14 DEF StockMatchesRecords
<1>16. SizesKept => \A x \in Products : Snug(product'[x])
  BY <1>4, <1>9, <1>13
<1>17. SizesStand => \A x \in Products : product'[x].upb = product[x].upb
  BY <1>8, <1>13 DEF row
<1>18. at[p] # "idle" /\ {r} \in SUBSET Products
  BY <1>1, <1>5
<1>19. \A x \in Products \ {r} : product'[x] = product[x]
  BY <1>13
<1>20. \A q \in Tills \ {p}, x \in {r} : Lock(q, x, "update") \notin locks /\ Lock(q, x, "noKeyUpdate") \notin locks
  BY <1>12
<1>21. Frozen => \A q \in Tills \ {p}, x \in {r} :
           at[q] = "restockWrite" /\ Lock(q, x, "keyShare") \in locks => Total(product'[x]) = Total(product[x])
  BY <1>5, <1>14
<1>22. delivered' \in [Products -> Nat] /\ sold' \in [Products -> Nat]
  BY <1>4, <1>10
<1> QED
  BY <1>1, <1>10, <1>11, <1>13, <1>15, <1>16, <1>17, <1>18, <1>19, <1>20, <1>21, <1>22, ChangeStep

-----------------------------------------------------------------------------
(* The invariant.                                                          *)

LEMMA StockStarts ==
    StockInit => StockInv
<1> SUFFICES ASSUME StockInit PROVE StockInv
  OBVIOUS
<1>1. /\ shelf \in Shelves /\ product \in [Products -> shelf.openings] /\ locks = {}
      /\ opening = [r \in Products |-> Total(product[r])]
      /\ delivered = [r \in Products |-> 0] /\ sold = [r \in Products |-> 0]
      /\ at = [p \in Tills |-> "idle"] /\ local = [p \in Tills |-> NoCart]
  BY DEF StockInit
<1>2. shelf.openings \subseteq RowType /\ \A row \in shelf.openings : row.units < Upb(row.upb)
  <2>1. shelf \in [handlers : [Tills -> SUBSET STRING], carts : SUBSET Carts,
                   openings : SUBSET RowType, edits : SUBSET Edit, maxCalls : Nat]
    BY <1>1, ShelvesAssumption
  <2>2. \A row \in shelf.openings : row.units < Upb(row.upb)
    BY <1>1, ShelvesAssumption
  <2> QED
    BY <2>1, <2>2
<1>3. product \in [Products -> RowType] /\ \A r \in Products : Total(product[r]) \in Nat
  BY <1>1, <1>2, TotalNat
<1>4. \A r \in Products : Snug(product[r])
  <2> SUFFICES ASSUME NEW r \in Products PROVE Snug(product[r])
    OBVIOUS
  <2>1. product[r] \in shelf.openings /\ product[r].upb \in Nat
    BY <1>1, <1>3 DEF RowType
  <2>2. product[r].upb \in Sizes /\ product[r].units < Upb(product[r].upb)
    BY <1>2, <2>1 DEF Sizes
  <2> QED
    BY <2>1, <2>2 DEF Snug, Upb
<1>5. StockMatchesRecords
  BY <1>1, <1>3 DEF StockMatchesRecords
<1>6. RowsFit
  BY <1>1, <1>3, <1>4, <1>5 DEF RowsFit, Labels
<1>7. LocksFit
  BY <1>1 DEF LocksFit
<1>8. \A p \in Tills : RequestFits(product, locks, p, at[p], local[p])
  BY <1>1, IdleFits
<1> QED
  BY <1>6, <1>7, <1>8 DEF StockInv

LEMMA StockStutters ==
    ASSUME StockInv, UNCHANGED stockVars PROVE StockInv'
<1>1. /\ shelf' = shelf /\ product' = product /\ locks' = locks /\ at' = at /\ local' = local
      /\ opening' = opening /\ delivered' = delivered /\ sold' = sold
  BY DEF stockVars
<1>2. LocksFit' /\ (Frozen => StockMatchesRecords')
  BY <1>1 DEF StockInv, RowsFit, LocksFit, StockMatchesRecords
<1> QED
  BY <1>1, <1>2, NextFits DEF StockInv, RowsFit

LEMMA StockSteps ==
    ASSUME StockInv, StockNext PROVE StockInv'
<1>1. PICK p \in Tills :
        \/ \E cart \in shelf.carts : SaleRead(p, cart) \/ DeliveryRead(p, cart)
        \/ \E r \in Products, e \in shelf.edits : EditRead(p, r, e) \/ ReactivateRead(p, r, e.upb)
        \/ Serve(p) \/ Interrupt(p)
  BY DEF StockNext
<1>2. CASE \E cart \in shelf.carts : SaleRead(p, cart) \/ DeliveryRead(p, cart)
  BY <1>2, BeginStep
<1>3. CASE \E r \in Products, e \in shelf.edits : EditRead(p, r, e) \/ ReactivateRead(p, r, e.upb)
  BY <1>3, EditReadStep, ReactivateReadStep
<1>4. CASE InsertLine(p, "saleLines", "saleStock") \/ InsertLine(p, "restockLines", "restockStock")
  BY <1>4, InsertStep
<1>5. CASE SaleDeduct(p)
  BY <1>5, DeductStep
<1>6. CASE SaleCommit(p)
  BY <1>6, SaleCommitStep
<1>7. CASE RestockRowRead(p)
  BY <1>7, RestockReadStep
<1>8. CASE RestockRowWrite(p)
  BY <1>8, RestockWriteStep
<1>9. CASE RestockCommit(p)
  BY <1>9, RestockCommitStep
<1>10. CASE EditWrite(p)
  BY <1>10, EditWriteStep
<1>11. CASE SaleRefused(p) \/ DeadlockVictim(p) \/ Interrupt(p)
  BY <1>11, RollbackStep DEF SaleRefused, DeadlockVictim, Interrupt
<1> QED
  BY <1>1, <1>2, <1>3, <1>4, <1>5, <1>6, <1>7, <1>8, <1>9, <1>10, <1>11 DEF Serve

LEMMA StockInvariant ==
    StockSpec => []StockInv
<1>1. StockInv /\ [StockNext]_stockVars => StockInv'
  BY StockSteps, StockStutters
<1> QED
  BY StockStarts, <1>1, PTL DEF StockSpec

\* To the unit, the stock on hand is what there was, plus the purchases recorded, minus the
\* sales recorded, for any carts and any number of concurrent sales (applySaleStockDeltas),
\* where no edit sets the stock and one request at a time restocks.
THEOREM StockIsAccountedFor ==
    StockSpec => []StockAccountedFor
<1>1. StockInv => StockAccountedFor
  BY DEF StockInv, RowsFit, StockAccountedFor, Frozen
<1> QED
  BY StockInvariant, <1>1, PTL

\* No interleaving of sales, restocks and edits leaves a product with negative stock; and
\* where box sizes are edited by one request at a time and only grow for a product created
\* anew, none leaves it with a box or more of loose units (normalizeStock, updateProduct).
THEOREM ShelvesAreSound ==
    StockSpec => []RowsSound
<1>1. StockInv => RowsSound
  <2> SUFFICES ASSUME StockInv PROVE RowsSound
    OBVIOUS
  <2>1. ProductsTyped
    BY DEF StockInv, RowsFit, ProductsTyped
  <2>2. SizesKept => LooseUnitsFit
    BY DEF StockInv, RowsFit, Snug, LooseUnitsFit
  <2> QED
    BY <2>1, <2>2 DEF RowsSound, SizesKept
<1> QED
  BY StockInvariant, <1>1, PTL
=============================================================================
