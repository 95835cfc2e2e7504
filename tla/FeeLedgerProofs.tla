--------------------------- MODULE FeeLedgerProofs ----------------------------
(***************************************************************************)
(* Proofs about FeeLedger.  First the parts of the inductive invariant, what *)
(* one more payment row adds to the sums of a month, and what the six        *)
(* handlers that record or void payments have in common (Receives, Reverts). *)
(* Then: every step receives payments, voids one, or edits months and leaves *)
(* the payments alone (StepKinds); the parts of IInv are kept by each of the *)
(* three kinds.                                                             *)
(***************************************************************************)
EXTENDS FeeLedger, SumTheorems

\* What a request holds between its statements.
Prices == {b \in Breakdowns : HeadSum(b) > 0}
MonthLoc == [fee : Fees, gen : Nat]
LocTyped(label, l, rows) ==
    /\ label = "payTxn" => l \in [fee : Fees, gen : Nat, amount : Amounts, extra : Nat]
    /\ label = "revertTxn" => l \in [payment : rows]
    /\ label = "addExtra" => l \in [fee : Fees, gen : Nat, total : Nat, paid : Nat]
    /\ label = "sumExtra" => l \in [fee : Fees, gen : Nat, total : Nat, paid : Nat]
    /\ label = "sumLeft" => l \in MonthLoc
    /\ label = "readMonth" => l \in [fee : Fees, gen : Nat, extra : Nat]
    /\ label = "writeStatus" => l \in [fee : Fees, gen : Nat, status : Statuses]
    /\ label = "create" => l \in MonthLoc
    /\ label = "delete" => l \in MonthLoc
    /\ label = "updateWrite" => l \in [fee : Fees, gen : Nat, heads : Prices, status : Statuses]
    /\ label = "recalcWrite" => l \in [fee : Fees, gen : Nat, heads : Prices]
    /\ label = "carryTxn" => l \in [fee : Fees, gen : Nat, from : [fee : scene.archived, gen : Nat],
                                       net : Nat, amount : Nat]
LocsTyped == \A p \in Requests : LocTyped(pc[p], loc[p], DOMAIN payments)

\* Only requests of the scene run, and only the handlers it has.
Allows(p, label) ==
    /\ label # "idle" => p \in scene.staff
    /\ label = "updateWrite" => "update" \in scene.handlers
    /\ label = "recalcWrite" => "recalculate" \in scene.handlers
    /\ label = "carryTxn" => "carry" \in scene.handlers
InScene == scene \in Scenes /\ \A p \in Requests : Allows(p, pc[p])

Typed == TypeOK /\ LocsTyped /\ InScene

\* A payment row: its month exists, a revert voids it once with its
\* allocations, and no more is allocated than was paid.
RowsSound ==
    \A i \in DOMAIN payments :
      /\ fee[payments[i].fee].exists
      /\ payments[i].allocLive = payments[i].live
      /\ payments[i].reverts = IF payments[i].live THEN 0 ELSE 1
      /\ AllocSum(payments[i].alloc) <= payments[i].amount

\* A month without a row has nothing that refers to it.
NoCarry == [g \in Fees |-> 0]
NothingLeft == \A f \in Fees : ~fee[f].exists => extras[f] = {} /\ carries[f] = NoCarry

\* Arrears come from archived months.
FromArchived == \A f, g \in Fees : carries[f][g] > 0 => g \in scene.archived

PaidIsSum == \A f \in Fees : fee[f].paid = LiveSum(payments, f)

\* A month charges something; without carries it charges its heads.
Charged == \A f \in Fees : fee[f].exists =>
             /\ fee[f].net > 0 /\ fee[f].total > 0
             /\ "carry" \notin scene.handlers => fee[f].net = fee[f].total

\* The statuses, when one request runs at a time.
Tells(f) == fee[f].exists => fee[f].status = FeeStatus(fee[f].paid, TotalDue(f))
Unsettled == {"sumExtra", "sumLeft", "readMonth", "writeStatus"}
Current(p) ==
    LET l == loc[p]
    IN  /\ pc[p] \in {"payTxn", "addExtra", "sumExtra", "sumLeft", "readMonth", "writeStatus", "updateWrite"}
             => Found(l)
        /\ pc[p] = "payTxn" => l.extra = ExtraSum(l.fee)
        /\ pc[p] \in {"addExtra", "sumExtra"} => l.total = fee[l.fee].total /\ l.paid = fee[l.fee].paid
        /\ pc[p] = "readMonth" => l.extra = ExtraSum(l.fee)
        /\ pc[p] = "writeStatus" => l.status = FeeStatus(fee[l.fee].paid, TotalDue(l.fee))
        /\ pc[p] = "updateWrite" => l.status = FeeStatus(fee[l.fee].paid, HeadSum(l.heads) + ExtraSum(l.fee))
Alone(p) == scene.staff = {p} /\ {"recalculate", "carry"} \cap scene.handlers = {}
Telling(p) ==
    /\ Current(p)
    /\ \A f \in Fees : (pc[p] \in Unsettled /\ loc[p].fee = f) \/ Tells(f)
AloneTells == \A p \in Requests : Alone(p) => Telling(p)

IInv == Typed /\ RowsSound /\ NothingLeft /\ FromArchived /\ CarriesAddUp /\ Charged /\ AloneTells

-----------------------------------------------------------------------------
(* Amounts.                                                                *)

LEMMA AmountsPositive == \A a \in Amounts : a \in Nat /\ a > 0
BY AmountsAssumption

LEMMA KeysFinite == IsFiniteSet(Keys)
BY KeysAssumption, FS_Union DEF Keys

LEMMA HeadSumNat == ASSUME NEW b \in [Heads -> Nat] PROVE HeadSum(b) \in Nat
BY KeysAssumption, SumNat DEF HeadSum

LEMMA AllocSumNat == ASSUME NEW alloc \in [Keys -> Nat] PROVE AllocSum(alloc) \in Nat
BY KeysFinite, SumNat DEF AllocSum

LEMMA NoAllocType == NoAlloc \in [Keys -> Nat] /\ AllocSum(NoAlloc) = 0
<1>1. NoAlloc \in [Keys -> Nat]
  BY DEF NoAlloc
<1> DEFINE Good == {s \in SUBSET Keys : SumFunctionOnSet(NoAlloc, s) = 0}
<1>2. {} \in Good
  BY SumEmpty
<1>3. ASSUME NEW T \in SUBSET Keys, NEW k \in Keys, T \in Good, k \notin T PROVE T \cup {k} \in Good
  <2>1. IsFiniteSet(T)
    BY KeysFinite, FS_Subset
  <2>2. SumFunctionOnSet(NoAlloc, T \cup {k}) = SumFunctionOnSet(NoAlloc, T) + NoAlloc[k]
    BY <1>3, <2>1, SumAdd DEF NoAlloc
  <2> QED
    BY <1>3, <2>2 DEF NoAlloc
<1> HIDE DEF Good
<1>4. Keys \in Good
  BY <1>2, <1>3, KeysFinite, SetInduction
<1> QED
  BY <1>1, <1>4 DEF Good, AllocSum

LEMMA ExtraSumNat ==
    ASSUME TypeOK, NEW f \in Fees
    PROVE  ExtraSum(f) \in Nat /\ TotalDue(f) \in Nat /\ Remaining(f) \in Int
<1>1. extras[f] \in SUBSET ExtraIds
  BY DEF TypeOK
<1>2. Cardinality(extras[f]) \in Nat
  BY <1>1, KeysAssumption, FS_Subset, FS_CardinalityType
<1>3. ExtraSum(f) \in Nat
  BY <1>2, AmountsAssumption DEF ExtraSum
<1>4. fee[f].net \in Nat /\ fee[f].paid \in Nat
  BY DEF TypeOK, RowType
<1> QED
  BY <1>3, <1>4 DEF TotalDue, Remaining

-----------------------------------------------------------------------------
(* Sums over the payment rows.                                             *)

\* One more index, under functions that agree on the old ones.
LEMMA SumExtend ==
    ASSUME NEW fun, NEW gun, NEW S, IsFiniteSet(S), NEW i, i \notin S,
           \A j \in S : fun[j] \in Int /\ gun[j] = fun[j], gun[i] \in Int
    PROVE  SumFunctionOnSet(gun, S \cup {i}) = SumFunctionOnSet(fun, S) + gun[i]
<1>1. SumFunctionOnSet(gun, S \cup {i}) = SumFunctionOnSet(gun, S) + gun[i]
  BY SumAdd
<1>2. SumFunctionOnSet(gun, S) = SumFunctionOnSet(fun, S)
  BY SumSame
<1> QED
  BY <1>1, <1>2

LiveOf(ps, f) == {i \in DOMAIN ps : ps[i].fee = f /\ ps[i].live}
AllocOf(ps, f) == {i \in DOMAIN ps : ps[i].fee = f /\ ps[i].allocLive}
Money(ps) == [i \in DOMAIN ps |-> ps[i].amount]
Given(ps, k) == [i \in DOMAIN ps |-> ps[i].alloc[k]]

LEMMA RowsTyped ==
    ASSUME NEW ps \in Seq(PaymentType)
    PROVE  /\ \A i \in DOMAIN ps : ps[i] \in PaymentType
           /\ DOMAIN ps = 1..Len(ps) /\ Len(ps) \in Nat
           /\ \A f : IsFiniteSet(LiveOf(ps, f)) /\ IsFiniteSet(AllocOf(ps, f))
           /\ \A i \in DOMAIN ps : Money(ps)[i] \in Nat
           /\ \A k \in Keys : \A i \in DOMAIN ps : Given(ps, k)[i] \in Nat
<1>1. /\ \A i \in DOMAIN ps : ps[i] \in PaymentType
      /\ DOMAIN ps = 1..Len(ps) /\ Len(ps) \in Nat
  OBVIOUS
<1>2. IsFiniteSet(DOMAIN ps)
  BY <1>1, FS_Interval
<1>3. ASSUME NEW f PROVE IsFiniteSet(LiveOf(ps, f)) /\ IsFiniteSet(AllocOf(ps, f))
  <2>1. LiveOf(ps, f) \in SUBSET DOMAIN ps /\ AllocOf(ps, f) \in SUBSET DOMAIN ps
    BY DEF LiveOf, AllocOf
  <2> QED
    BY <1>2, <2>1, FS_Subset
<1>4. \A i \in DOMAIN ps : Money(ps)[i] \in Nat
  BY <1>1 DEF Money, PaymentType
<1>5. \A k \in Keys : \A i \in DOMAIN ps : Given(ps, k)[i] \in Nat
  BY <1>1 DEF Given, PaymentType
<1> QED
  BY <1>1, <1>3, <1>4, <1>5

LEMMA SumsNat ==
    ASSUME NEW ps \in Seq(PaymentType), NEW f
    PROVE  LiveSum(ps, f) \in Nat /\ \A k \in Keys : Allocated(ps, f, k) \in Nat
<1>1. LiveSum(ps, f) = SumFunctionOnSet(Money(ps), LiveOf(ps, f))
  BY DEF LiveSum, Money, LiveOf
<1>2. \A k \in Keys : Allocated(ps, f, k) = SumFunctionOnSet(Given(ps, k), AllocOf(ps, f))
  BY DEF Allocated, Given, AllocOf
<1>3. LiveSum(ps, f) \in Nat
  BY <1>1, RowsTyped, SumNat DEF LiveOf
<1>4. ASSUME NEW k \in Keys PROVE Allocated(ps, f, k) \in Nat
  <2>1. \A i \in AllocOf(ps, f) : Given(ps, k)[i] \in Nat
    BY RowsTyped DEF AllocOf
  <2> QED
    BY <1>2, <2>1, RowsTyped, SumNat
<1> QED
  BY <1>3, <1>4

\* The old rows are left alone: qs has the rows of ps and perhaps more.
Extends(qs, ps) == /\ qs \in Seq(PaymentType) /\ ps \in Seq(PaymentType)
                   /\ DOMAIN ps \subseteq DOMAIN qs
                   /\ \A i \in DOMAIN ps : qs[i] = ps[i]

LEMMA ExtendsAgrees ==
    ASSUME NEW qs, NEW ps, Extends(qs, ps), NEW f
    PROVE  /\ LiveOf(ps, f) \subseteq DOMAIN ps /\ IsFiniteSet(LiveOf(ps, f))
           /\ AllocOf(ps, f) \subseteq DOMAIN ps /\ IsFiniteSet(AllocOf(ps, f))
           /\ \A i \in DOMAIN ps : Money(ps)[i] \in Int /\ Money(qs)[i] = Money(ps)[i]
           /\ \A k \in Keys : \A i \in DOMAIN ps :
                Given(ps, k)[i] \in Int /\ Given(qs, k)[i] = Given(ps, k)[i]
<1> USE DEF Extends
<1>1. LiveOf(ps, f) \subseteq DOMAIN ps /\ AllocOf(ps, f) \subseteq DOMAIN ps
  BY DEF LiveOf, AllocOf
<1>2. \A i \in DOMAIN ps : Money(ps)[i] \in Int /\ Money(qs)[i] = Money(ps)[i]
  BY RowsTyped DEF Money
<1>3. \A k \in Keys : \A i \in DOMAIN ps : Given(ps, k)[i] \in Int /\ Given(qs, k)[i] = Given(ps, k)[i]
  BY RowsTyped DEF Given
<1> QED
  BY <1>1, <1>2, <1>3, RowsTyped

\* No new row of month f: its sums stay.
LEMMA NoMoreRows ==
    ASSUME NEW qs, NEW ps, Extends(qs, ps), NEW f, \A i \in DOMAIN qs \ DOMAIN ps : qs[i].fee # f
    PROVE  /\ LiveSum(qs, f) = LiveSum(ps, f)
           /\ \A k \in Keys : Allocated(qs, f, k) = Allocated(ps, f, k)
<1>1. LiveOf(qs, f) = LiveOf(ps, f) /\ AllocOf(qs, f) = AllocOf(ps, f)
  BY DEF Extends, LiveOf, AllocOf
<1>2. SumFunctionOnSet(Money(qs), LiveOf(ps, f)) = SumFunctionOnSet(Money(ps), LiveOf(ps, f))
  <2>1. \A i \in LiveOf(ps, f) : Money(ps)[i] \in Int /\ Money(qs)[i] = Money(ps)[i]
    BY ExtendsAgrees
  <2> QED
    BY <2>1, ExtendsAgrees, SumSame
<1>3. ASSUME NEW k \in Keys
      PROVE  SumFunctionOnSet(Given(qs, k), AllocOf(ps, f)) = SumFunctionOnSet(Given(ps, k), AllocOf(ps, f))
  <2>1. \A i \in AllocOf(ps, f) : Given(ps, k)[i] \in Int /\ Given(qs, k)[i] = Given(ps, k)[i]
    BY ExtendsAgrees
  <2> QED
    BY <2>1, ExtendsAgrees, SumSame
<1> QED
  BY <1>1, <1>2, <1>3 DEF LiveSum, Allocated, LiveOf, AllocOf, Money, Given

\* One new live row of month f adds its amount and its allocations.
LEMMA OneMoreRow ==
    ASSUME NEW qs, NEW ps, Extends(qs, ps), NEW f,
           NEW n \in DOMAIN qs \ DOMAIN ps, qs[n].fee = f, qs[n].live, qs[n].allocLive,
           \A i \in DOMAIN qs \ DOMAIN ps : i # n => qs[i].fee # f
    PROVE  /\ LiveSum(qs, f) = LiveSum(ps, f) + qs[n].amount
           /\ \A k \in Keys : Allocated(qs, f, k) = Allocated(ps, f, k) + qs[n].alloc[k]
<1>1. /\ LiveOf(qs, f) = LiveOf(ps, f) \cup {n} /\ n \notin LiveOf(ps, f)
      /\ AllocOf(qs, f) = AllocOf(ps, f) \cup {n} /\ n \notin AllocOf(ps, f)
  BY DEF Extends, LiveOf, AllocOf
<1>2. qs[n] \in PaymentType
  BY RowsTyped DEF Extends
<1>3. SumFunctionOnSet(Money(qs), LiveOf(ps, f) \cup {n})
        = SumFunctionOnSet(Money(ps), LiveOf(ps, f)) + qs[n].amount
  <2>1. \A i \in LiveOf(ps, f) : Money(ps)[i] \in Int /\ Money(qs)[i] = Money(ps)[i]
    BY ExtendsAgrees
  <2>2. Money(qs)[n] = qs[n].amount /\ qs[n].amount \in Int
    BY <1>2 DEF Money, PaymentType
  <2>3. SumFunctionOnSet(Money(qs), LiveOf(ps, f) \cup {n})
          = SumFunctionOnSet(Money(ps), LiveOf(ps, f)) + Money(qs)[n]
    BY <1>1, <2>1, <2>2, ExtendsAgrees, SumExtend
  <2> QED
    BY <2>2, <2>3
<1>4. ASSUME NEW k \in Keys
      PROVE  SumFunctionOnSet(Given(qs, k), AllocOf(ps, f) \cup {n})
               = SumFunctionOnSet(Given(ps, k), AllocOf(ps, f)) + qs[n].alloc[k]
  <2>1. \A i \in AllocOf(ps, f) : Given(ps, k)[i] \in Int /\ Given(qs, k)[i] = Given(ps, k)[i]
    BY ExtendsAgrees
  <2>2. Given(qs, k)[n] = qs[n].alloc[k] /\ qs[n].alloc[k] \in Int
    BY <1>2 DEF Given, PaymentType
  <2>3. SumFunctionOnSet(Given(qs, k), AllocOf(ps, f) \cup {n})
          = SumFunctionOnSet(Given(ps, k), AllocOf(ps, f)) + Given(qs, k)[n]
    BY <1>1, <2>1, <2>2, ExtendsAgrees, SumExtend
  <2> QED
    BY <2>2, <2>3
<1> QED
  BY <1>1, <1>3, <1>4 DEF LiveSum, Allocated, LiveOf, AllocOf, Money, Given

\* A new row adds its amount and its allocations to its month.
LEMMA AppendedSums ==
    ASSUME NEW ps \in Seq(PaymentType), NEW r \in PaymentType, r.live, r.allocLive, NEW f
    PROVE  /\ LiveSum(Append(ps, r), f) = LiveSum(ps, f) + (IF r.fee = f THEN r.amount ELSE 0)
           /\ \A k \in Keys : Allocated(Append(ps, r), f, k)
                                = Allocated(ps, f, k) + (IF r.fee = f THEN r.alloc[k] ELSE 0)
<1> DEFINE qs == Append(ps, r)
           n == Len(ps) + 1
<1>1. qs \in Seq(PaymentType) /\ DOMAIN qs = DOMAIN ps \cup {n} /\ n \notin DOMAIN ps
  BY RowsTyped
<1>2. qs[n] = r /\ \A i \in DOMAIN ps : qs[i] = ps[i]
  BY RowsTyped
<1> HIDE DEF qs
<1>3. Extends(qs, ps) /\ n \in DOMAIN qs \ DOMAIN ps /\ \A i \in DOMAIN qs \ DOMAIN ps : i = n
  BY <1>1, <1>2 DEF Extends
<1>4. LiveSum(ps, f) \in Nat /\ \A k \in Keys : Allocated(ps, f, k) \in Nat
  BY SumsNat
<1>5. CASE r.fee = f
  <2>1. qs[n].fee = f /\ qs[n].live /\ qs[n].allocLive
    BY <1>2, <1>5
  <2>2. /\ LiveSum(qs, f) = LiveSum(ps, f) + qs[n].amount
        /\ \A k \in Keys : Allocated(qs, f, k) = Allocated(ps, f, k) + qs[n].alloc[k]
    BY <1>3, <2>1, OneMoreRow
  <2> QED
    BY <1>2, <1>5, <2>2 DEF qs
<1>6. CASE r.fee # f
  <2>1. LiveSum(qs, f) = LiveSum(ps, f) /\ \A k \in Keys : Allocated(qs, f, k) = Allocated(ps, f, k)
    <3>1. \A i \in DOMAIN qs \ DOMAIN ps : qs[i].fee # f
      BY <1>2, <1>3, <1>6
    <3> QED
      BY <1>3, <3>1, NoMoreRows
  <2> QED
    BY <1>4, <1>6, <2>1 DEF qs
<1> QED
  BY <1>5, <1>6

-----------------------------------------------------------------------------
(* One payment row per month.                                              *)

\* InOrder lists every element of S once.
LEMMA InOrderLists ==
    ASSUME NEW S \in SUBSET Nat, IsFiniteSet(S)
    PROVE  /\ Cardinality(S) \in Nat /\ DOMAIN InOrder(S) = 1..Cardinality(S)
           /\ \A i \in DOMAIN InOrder(S) : InOrder(S)[i] \in S
           /\ \A i, j \in DOMAIN InOrder(S) : InOrder(S)[i] = InOrder(S)[j] => i = j
           /\ \A f \in S : \E i \in DOMAIN InOrder(S) : InOrder(S)[i] = f
<1> DEFINE n == Cardinality(S)
           Below(f) == {g \in S : g < f}
           rank == [f \in S |-> Cardinality(Below(f)) + 1]
<1>1. n \in Nat
  BY FS_CardinalityType
<1>2. \A f \in S : IsFiniteSet(Below(f)) /\ Cardinality(Below(f)) \in Nat
  BY FS_Subset, FS_CardinalityType
<1>3. ASSUME NEW f \in S, NEW h \in S, f < h PROVE Cardinality(Below(f)) < Cardinality(Below(h))
  <2>0. f \in Nat /\ h \in Nat /\ \A g \in Below(f) : g \in Nat /\ g < f /\ g \in S
    OBVIOUS
  <2>a. \A g \in Below(f) \cup {f} : g \in S /\ g < h
    BY <1>3, <2>0
  <2>b. f \notin Below(f)
    BY <2>0
  <2>c. \A g \in Below(f) \cup {f} : g \in Below(h)
    BY <2>a
  <2>1. Below(f) \cup {f} \in SUBSET Below(h) /\ f \notin Below(f)
    <3> HIDE DEF Below
    <3> QED
      BY <2>b, <2>c
  <2>2. Cardinality(Below(f) \cup {f}) = Cardinality(Below(f)) + 1
    BY <1>2, <2>1, FS_AddElement
  <2>3. Cardinality(Below(f) \cup {f}) <= Cardinality(Below(h))
    BY <1>2, <2>1, FS_Subset
  <2> QED
    BY <1>2, <2>2, <2>3
<1>4. \A f \in S : rank[f] \in 1..n
  <2> SUFFICES ASSUME NEW f \in S PROVE rank[f] \in 1..n
    OBVIOUS
  <2>1. Below(f) \cup {f} \in SUBSET S /\ f \notin Below(f)
    OBVIOUS
  <2>2. Cardinality(Below(f) \cup {f}) = Cardinality(Below(f)) + 1
    BY <1>2, <2>1, FS_AddElement
  <2>3. Cardinality(Below(f) \cup {f}) <= n
    BY <2>1, FS_Subset
  <2> QED
    BY <1>1, <1>2, <2>2, <2>3
<1>5. \A f, h \in S : rank[f] = rank[h] => f = h
  <2> SUFFICES ASSUME NEW f \in S, NEW h \in S, rank[f] = rank[h], f # h PROVE FALSE
    OBVIOUS
  <2>1. Cardinality(Below(f)) = Cardinality(Below(h))
    BY <1>2
  <2>2. f < h \/ h < f
    OBVIOUS
  <2> QED
    BY <1>2, <1>3, <2>1, <2>2
<1>6. rank \in Injection(S, 1..n)
  BY <1>4, <1>5 DEF Injection, IsInjective
<1>7. rank \in Surjection(S, 1..n)
  <2>1. IsFiniteSet(1..n) /\ Cardinality(1..n) = n
    BY <1>1, FS_Interval
  <2> HIDE DEF rank
  <2> QED
    BY <1>6, <2>1, FS_Injection
<1>8. \A i \in 1..n : \E f \in S : rank[f] = i
  BY <1>7 DEF Surjection
<1>9. \A i \in 1..n : InOrder(S)[i] \in S /\ rank[InOrder(S)[i]] = i
  <2> SUFFICES ASSUME NEW i \in 1..n PROVE InOrder(S)[i] \in S /\ rank[InOrder(S)[i]] = i
    OBVIOUS
  <2>1. PICK f \in S : rank[f] = i
    BY <1>8
  <2>2. Cardinality(Below(f)) = i - 1
    BY <1>1, <1>2, <2>1
  <2>3. InOrder(S)[i] = CHOOSE g \in S : Cardinality(Below(g)) = i - 1
    BY DEF InOrder
  <2>4. InOrder(S)[i] \in S /\ Cardinality(Below(InOrder(S)[i])) = i - 1
    BY <2>2, <2>3
  <2> QED
    BY <1>1, <2>4
<1>10. DOMAIN InOrder(S) = 1..n
  BY DEF InOrder
<1> HIDE DEF rank
<1>11. \A i, j \in 1..n : InOrder(S)[i] = InOrder(S)[j] => i = j
  BY <1>9
<1>12. \A f \in S : InOrder(S)[rank[f]] = f
  BY <1>4, <1>5, <1>9
<1> QED
  BY <1>1, <1>4, <1>9, <1>10, <1>11, <1>12

LEMMA PaymentTyped ==
    ASSUME NEW f \in Fees, NEW a \in Nat, NEW alloc \in [Keys -> Nat]
    PROVE  Payment(f, a, alloc) \in PaymentType
BY DEF Payment, PaymentType

\* The amounts a request gives to some months.
Gift(given) == DOMAIN given \in SUBSET Fees /\ \A f \in DOMAIN given : given[f] \in Nat

\* Each month of given gets one live row, without allocations.
LEMMA MonthRowsAre ==
    ASSUME NEW given, Gift(given)
    PROVE  /\ MonthRows(given) \in Seq(PaymentType)
           /\ \A i \in DOMAIN MonthRows(given) : \E f \in DOMAIN given :
                MonthRows(given)[i] = Payment(f, given[f], NoAlloc)
           /\ \A i, j \in DOMAIN MonthRows(given) : MonthRows(given)[i].fee = MonthRows(given)[j].fee => i = j
           /\ \A f \in DOMAIN given : \E i \in DOMAIN MonthRows(given) :
                MonthRows(given)[i] = Payment(f, given[f], NoAlloc)
<1> DEFINE S == DOMAIN given
           rows == MonthRows(given)
<1>1. S \in SUBSET Nat /\ IsFiniteSet(S)
  BY FeesAssumption, FS_Subset DEF Gift
<1>2. DOMAIN rows = DOMAIN InOrder(S)
  BY DEF MonthRows
<1>3. \A i \in DOMAIN rows : rows[i] = Payment(InOrder(S)[i], given[InOrder(S)[i]], NoAlloc)
  BY DEF MonthRows
<1>4. \A i \in DOMAIN rows : InOrder(S)[i] \in S
  BY <1>1, <1>2, InOrderLists
<1>5. \A i \in DOMAIN rows : rows[i] \in PaymentType /\ rows[i].fee = InOrder(S)[i]
  <2> SUFFICES ASSUME NEW i \in DOMAIN rows PROVE rows[i] \in PaymentType /\ rows[i].fee = InOrder(S)[i]
    OBVIOUS
  <2>1. InOrder(S)[i] \in Fees /\ given[InOrder(S)[i]] \in Nat
    BY <1>4 DEF Gift
  <2> QED
    BY <1>3, <2>1, NoAllocType, PaymentTyped DEF Payment
<1>6. rows \in Seq(PaymentType)
  <2>1. Cardinality(S) \in Nat /\ DOMAIN rows = 1..Cardinality(S)
    BY <1>1, <1>2, InOrderLists
  <2>2. rows \in [1..Cardinality(S) -> PaymentType]
    BY <1>5, <2>1 DEF MonthRows
  <2> HIDE DEF rows
  <2> QED
    BY <2>1, <2>2
<1>7. \A i, j \in DOMAIN rows : rows[i].fee = rows[j].fee => i = j
  BY <1>1, <1>2, <1>5, InOrderLists
<1>8. \A f \in S : \E i \in DOMAIN rows : InOrder(S)[i] = f
  BY <1>1, <1>2, InOrderLists
<1> HIDE DEF rows
<1> QED
  BY <1>3, <1>4, <1>6, <1>7, <1>8 DEF rows

\* What the new rows add to the sums of a month.
LEMMA MonthRowsSums ==
    ASSUME NEW ps \in Seq(PaymentType), NEW given, Gift(given)
    PROVE  LET qs == ps \o MonthRows(given)
           IN  /\ Extends(qs, ps)
               /\ \A i \in DOMAIN qs \ DOMAIN ps : \E f \in DOMAIN given : qs[i] = Payment(f, given[f], NoAlloc)
               /\ \A f : LiveSum(qs, f) = LiveSum(ps, f) + (IF f \in DOMAIN given THEN given[f] ELSE 0)
               /\ \A f : \A k \in Keys : Allocated(qs, f, k) = Allocated(ps, f, k)
<1> DEFINE rows == MonthRows(given)
           qs == ps \o rows
           n == Len(ps)
<1>1. rows \in Seq(PaymentType)
  BY MonthRowsAre
<1> HIDE DEF rows
<1>2. qs \in Seq(PaymentType) /\ n \in Nat /\ DOMAIN ps = 1..n /\ DOMAIN ps \subseteq DOMAIN qs
  BY <1>1
<1>3. \A i \in DOMAIN ps : qs[i] = ps[i]
  BY <1>1
<1>4. \A i \in DOMAIN qs \ DOMAIN ps : i - n \in DOMAIN rows /\ qs[i] = rows[i - n] /\ i \in Nat
  BY <1>1
<1>5. \A j \in DOMAIN rows : n + j \in DOMAIN qs \ DOMAIN ps /\ qs[n + j] = rows[j] /\ j \in Nat
  BY <1>1
<1> HIDE DEF qs
<1>6. Extends(qs, ps)
  BY <1>2, <1>3 DEF Extends
<1>7. \A i \in DOMAIN qs \ DOMAIN ps : \E f \in DOMAIN given : qs[i] = Payment(f, given[f], NoAlloc)
  BY <1>4, MonthRowsAre DEF rows
<1>8. \A i, j \in DOMAIN rows : rows[i].fee = rows[j].fee => i = j
  BY MonthRowsAre DEF rows
<1>9. \A i, j \in DOMAIN qs \ DOMAIN ps : qs[i].fee = qs[j].fee => i = j
  <2> SUFFICES ASSUME NEW i \in DOMAIN qs \ DOMAIN ps, NEW j \in DOMAIN qs \ DOMAIN ps, qs[i].fee = qs[j].fee
               PROVE  i = j
    OBVIOUS
  <2>1. i - n = j - n
    BY <1>4, <1>8
  <2> QED
    BY <1>2, <1>4, <2>1
<1>10. ASSUME NEW f
       PROVE  /\ LiveSum(qs, f) = LiveSum(ps, f) + (IF f \in DOMAIN given THEN given[f] ELSE 0)
              /\ \A k \in Keys : Allocated(qs, f, k) = Allocated(ps, f, k)
  <2>0. LiveSum(ps, f) \in Nat /\ \A k \in Keys : Allocated(ps, f, k) \in Nat
    BY SumsNat
  <2>1. CASE f \in DOMAIN given
    <3>1. PICK j \in DOMAIN rows : rows[j] = Payment(f, given[f], NoAlloc)
      BY <2>1, MonthRowsAre DEF rows
    <3> DEFINE m == n + j
    <3>2. m \in DOMAIN qs \ DOMAIN ps /\ qs[m] = Payment(f, given[f], NoAlloc)
      BY <1>5, <3>1
    <3> HIDE DEF m
    <3>3. qs[m].fee = f /\ qs[m].live /\ qs[m].allocLive /\ qs[m].amount = given[f] /\ qs[m].alloc = NoAlloc
      BY <3>2 DEF Payment
    <3>4. \A i \in DOMAIN qs \ DOMAIN ps : i # m => qs[i].fee # f
      BY <1>9, <3>2, <3>3
    <3>5. /\ LiveSum(qs, f) = LiveSum(ps, f) + qs[m].amount
          /\ \A k \in Keys : Allocated(qs, f, k) = Allocated(ps, f, k) + qs[m].alloc[k]
      BY <1>6, <3>2, <3>3, <3>4, OneMoreRow
    <3>6. \A k \in Keys : Allocated(qs, f, k) = Allocated(ps, f, k)
      BY <2>0, <3>3, <3>5 DEF NoAlloc
    <3> QED
      BY <2>1, <3>3, <3>5, <3>6
  <2>2. CASE f \notin DOMAIN given
    <3>1. \A i \in DOMAIN qs \ DOMAIN ps : qs[i].fee # f
      BY <1>7, <2>2 DEF Payment
    <3>2. LiveSum(qs, f) = LiveSum(ps, f) /\ \A k \in Keys : Allocated(qs, f, k) = Allocated(ps, f, k)
      BY <1>6, <3>1, NoMoreRows
    <3> QED
      BY <2>0, <2>2, <3>2
  <2> QED
    BY <2>1, <2>2
<1> QED
  BY <1>6, <1>7, <1>10 DEF qs, rows

-----------------------------------------------------------------------------
(* The five actions that record payments.                                   *)

PriceLimit(f, k) == IF k \in Heads THEN fee[f].heads[k] ELSE ExtraAmount

RowNew(r) == /\ r.live /\ r.allocLive /\ r.reverts = 0
             /\ AllocSum(r.alloc) <= r.amount /\ fee[r.fee].exists

\* What they have in common: live rows of existing months are appended, paidAmount
\* and status of such months are written, and paidAmount becomes the sum of the
\* month's live rows or grows by what that sum grows by.
SomeCredited ==
    /\ fee' \in [Fees -> RowType]
    /\ \A f \in Fees :
         \/ fee'[f] = fee[f]
         \/ fee[f].exists /\ \E n \in Nat, s \in Statuses :
                               fee'[f] = [fee[f] EXCEPT !.paid = n, !.status = s]
Receives ==
    /\ Extends(payments', payments)
    /\ \A i \in DOMAIN payments' \ DOMAIN payments : RowNew(payments'[i])
    /\ SomeCredited
    /\ \A f \in Fees, k \in Keys :
         \/ Allocated(payments', f, k) = Allocated(payments, f, k)
         \/ ~scene.repeats /\ k \notin Unnumbered => Allocated(payments', f, k) <= PriceLimit(f, k)
    /\ ~DupSelection => \A f \in Fees :
         \/ fee'[f].paid = LiveSum(payments', f)
         \/ fee'[f].paid - fee[f].paid = LiveSum(payments', f) - LiveSum(payments, f)
    /\ UNCHANGED <<extras, usedIds, carries>>

LEMMA StatusTypes ==
    ASSUME NEW paid \in Int, NEW due \in Int
    PROVE  PaidStatus(paid, due) \in Statuses /\ FeeStatus(paid, due) \in Statuses
BY DEF PaidStatus, FeeStatus, Statuses

\* Writing paidAmount and status keeps the type of a row.
LEMMA CreditedTyped ==
    ASSUME NEW r \in RowType, NEW n \in Nat, NEW s \in Statuses
    PROVE  [r EXCEPT !.paid = n, !.status = s] \in RowType
BY DEF RowType

LEMMA PayTxnReceives ==
    ASSUME Typed, NEW p \in Requests, PayTxn(p)
    PROVE  Receives
<1> DEFINE l == loc[p]
           r == Payment(l.fee, l.amount, NoAlloc)
           paid == LiveSum(payments', l.fee)
           s == PaidStatus(paid, fee[l.fee].net + l.extra)
<1>1. l.fee \in Fees /\ l.amount \in Nat /\ l.extra \in Nat
  BY AmountsPositive DEF Typed, LocsTyped, LocTyped, PayTxn
<1>2. payments \in Seq(PaymentType) /\ fee \in [Fees -> RowType]
  BY DEF Typed, TypeOK
<1>3. r \in PaymentType /\ r.live /\ r.allocLive /\ r.reverts = 0 /\ r.fee = l.fee
      /\ r.amount = l.amount /\ r.alloc = NoAlloc
  BY <1>1, NoAllocType, PaymentTyped DEF Payment
<1>4. payments' = Append(payments, r) /\ Found(l) /\ UNCHANGED <<extras, usedIds, carries>>
      /\ fee' = [fee EXCEPT ![l.fee].paid = paid, ![l.fee].status = s]
  BY DEF PayTxn
<1> HIDE DEF l, r
<1>5. /\ Extends(payments', payments)
      /\ \A i \in DOMAIN payments' \ DOMAIN payments : payments'[i] = r
  <2>1. payments' \in Seq(PaymentType)
    BY <1>2, <1>3, <1>4
  <2>2. \A i \in DOMAIN payments : i \in DOMAIN payments' /\ payments'[i] = payments[i]
    BY <1>2, <1>4
  <2>3. \A i \in DOMAIN payments' \ DOMAIN payments : payments'[i] = r
    BY <1>2, <1>4
  <2> QED
    BY <1>2, <2>1, <2>2, <2>3 DEF Extends
<1>6. AllocSum(r.alloc) <= r.amount /\ fee[r.fee].exists
  BY <1>1, <1>3, <1>4, NoAllocType DEF Found
<1>7. \A i \in DOMAIN payments' \ DOMAIN payments : RowNew(payments'[i])
  BY <1>3, <1>5, <1>6 DEF RowNew
<1>8. paid \in Nat /\ s \in Statuses
  <2>1. paid \in Nat
    BY <1>5, SumsNat DEF Extends
  <2>2. fee[l.fee].net \in Nat
    BY <1>1, <1>2 DEF RowType
  <2> QED
    BY <1>1, <2>1, <2>2, StatusTypes
<1> HIDE DEF paid, s
<1>9. fee'[l.fee] = [fee[l.fee] EXCEPT !.paid = paid, !.status = s]
      /\ \A f \in Fees : f # l.fee => fee'[f] = fee[f]
  BY <1>1, <1>2, <1>4
<1>10. fee' \in [Fees -> RowType]
  BY <1>1, <1>2, <1>4, <1>8 DEF RowType
<1>11. \A f \in Fees : fee'[f] = fee[f] \/ (fee[f].exists
         /\ \E n \in Nat, st \in Statuses : fee'[f] = [fee[f] EXCEPT !.paid = n, !.status = st])
  <2>1. fee[l.fee].exists
    BY <1>3, <1>6
  <2>2. \E n \in Nat, st \in Statuses : fee'[l.fee] = [fee[l.fee] EXCEPT !.paid = n, !.status = st]
    BY <1>8, <1>9
  <2>3. ASSUME NEW f \in Fees
        PROVE  fee'[f] = fee[f] \/ (fee[f].exists
                 /\ \E n \in Nat, st \in Statuses : fee'[f] = [fee[f] EXCEPT !.paid = n, !.status = st])
    <3>1. CASE f = l.fee
      BY <2>1, <2>2, <3>1, Zenon
    <3>2. CASE f # l.fee
      BY <1>9, <3>2
    <3> QED
      BY <3>1, <3>2
  <2> QED
    BY <2>3
<1>a. \A f : /\ LiveSum(payments', f) = LiveSum(payments, f) + (IF r.fee = f THEN r.amount ELSE 0)
            /\ \A k \in Keys : Allocated(payments', f, k)
                                 = Allocated(payments, f, k) + (IF r.fee = f THEN r.alloc[k] ELSE 0)
  <2>1. \A f : LiveSum(Append(payments, r), f) = LiveSum(payments, f) + (IF r.fee = f THEN r.amount ELSE 0)
    BY <1>2, <1>3, AppendedSums
  <2>2. \A f : \A k \in Keys : Allocated(Append(payments, r), f, k)
                               = Allocated(payments, f, k) + (IF r.fee = f THEN r.alloc[k] ELSE 0)
    <3>1. r \in PaymentType /\ r.live /\ r.allocLive
      BY <1>3
    <3> QED
      BY <1>2, <3>1, AppendedSums
  <2> QED
    BY <1>4, <2>1, <2>2
<1>12. \A f \in Fees, k \in Keys : Allocated(payments', f, k) = Allocated(payments, f, k)
  <2> SUFFICES ASSUME NEW f \in Fees, NEW k \in Keys
               PROVE  Allocated(payments', f, k) = Allocated(payments, f, k)
    OBVIOUS
  <2>1. Allocated(payments', f, k) = Allocated(payments, f, k) + (IF r.fee = f THEN r.alloc[k] ELSE 0)
    BY <1>a
  <2>2. Allocated(payments, f, k) \in Nat /\ r.alloc[k] = 0
    BY <1>2, <1>3, SumsNat DEF NoAlloc
  <2> QED
    BY <1>4, <2>1, <2>2
<1>13. \A f \in Fees : \/ fee'[f].paid = LiveSum(payments', f)
                       \/ fee'[f].paid - fee[f].paid = LiveSum(payments', f) - LiveSum(payments, f)
  <2>0. fee'[l.fee].paid = LiveSum(payments', l.fee)
    BY <1>1, <1>2, <1>9 DEF RowType, paid
  <2> SUFFICES ASSUME NEW f \in Fees, f # l.fee
               PROVE  fee'[f].paid - fee[f].paid = LiveSum(payments', f) - LiveSum(payments, f)
    BY <2>0
  <2>1. LiveSum(payments', f) = LiveSum(payments, f) + (IF r.fee = f THEN r.amount ELSE 0)
    BY <1>a
  <2>2. LiveSum(payments, f) \in Nat /\ fee[f].paid \in Nat
    BY <1>2, SumsNat DEF RowType
  <2> QED
    BY <1>3, <1>9, <2>1, <2>2
<1> QED
  BY <1>4, <1>5, <1>7, <1>10, <1>11, <1>12, <1>13 DEF Receives, SomeCredited

\* The rows of a selection: one per month of given, then one with allocations.
GivenRows(given, c, alloc) ==
    IF AllocSum(alloc) > 0 THEN Append(payments \o MonthRows(given), Payment(c, AllocSum(alloc), alloc))
                           ELSE payments \o MonthRows(given)
GivenTo(given, c, alloc, f) ==
    (IF f \in DOMAIN given THEN given[f] ELSE 0) + (IF f = c THEN AllocSum(alloc) ELSE 0)

LEMMA GivenSums ==
    ASSUME Typed, NEW given, Gift(given), NEW c \in Fees, NEW alloc \in [Keys -> Nat]
    PROVE  LET qs == GivenRows(given, c, alloc)
           IN  /\ Extends(qs, payments)
               /\ \A i \in DOMAIN qs \ DOMAIN payments :
                    \/ \E f \in DOMAIN given : qs[i] = Payment(f, given[f], NoAlloc)
                    \/ AllocSum(alloc) > 0 /\ qs[i] = Payment(c, AllocSum(alloc), alloc)
               /\ \A f : LiveSum(qs, f) = LiveSum(payments, f) + GivenTo(given, c, alloc, f)
               /\ \A f : \A k \in Keys :
                    Allocated(qs, f, k) = Allocated(payments, f, k)
                      + (IF f = c /\ AllocSum(alloc) > 0 THEN alloc[k] ELSE 0)
<1> DEFINE ms == payments \o MonthRows(given)
           x == Payment(c, AllocSum(alloc), alloc)
           qs == GivenRows(given, c, alloc)
<1>1. payments \in Seq(PaymentType)
  BY DEF Typed, TypeOK
<1>2. /\ Extends(ms, payments)
      /\ \A i \in DOMAIN ms \ DOMAIN payments : \E f \in DOMAIN given : ms[i] = Payment(f, given[f], NoAlloc)
      /\ \A f : LiveSum(ms, f) = LiveSum(payments, f) + (IF f \in DOMAIN given THEN given[f] ELSE 0)
      /\ \A f : \A k \in Keys : Allocated(ms, f, k) = Allocated(payments, f, k)
  BY <1>1, MonthRowsSums
<1>3. AllocSum(alloc) \in Nat
  BY AllocSumNat
<1>4. x \in PaymentType /\ x.live /\ x.allocLive
  BY <1>3, PaymentTyped DEF Payment
<1>5. x.fee = c /\ x.amount = AllocSum(alloc) /\ x.alloc = alloc
  BY DEF Payment
<1>6. ms \in Seq(PaymentType)
  BY <1>2 DEF Extends
<1>7. qs = IF AllocSum(alloc) > 0 THEN Append(ms, x) ELSE ms
  BY DEF GivenRows
<1>8. \A f : /\ LiveSum(payments, f) \in Nat /\ \A k \in Keys : Allocated(payments, f, k) \in Nat
             /\ f \in DOMAIN given => given[f] \in Nat
  BY <1>1, SumsNat DEF Gift
<1> HIDE DEF ms, x, qs
<1>9. CASE AllocSum(alloc) > 0
  <2>1. qs = Append(ms, x)
    BY <1>7, <1>9
  <2>2. \A f : LiveSum(Append(ms, x), f) = LiveSum(ms, f) + (IF x.fee = f THEN x.amount ELSE 0)
    BY <1>4, <1>6, AppendedSums
  <2>3. \A f : \A k \in Keys : Allocated(Append(ms, x), f, k)
                                 = Allocated(ms, f, k) + (IF x.fee = f THEN x.alloc[k] ELSE 0)
    BY <1>4, <1>6, AppendedSums
  <2>4. Extends(qs, payments) /\ \A i \in DOMAIN qs \ DOMAIN payments : i \in DOMAIN ms \/ qs[i] = x
    <3>1. qs \in Seq(PaymentType) /\ DOMAIN qs = DOMAIN ms \cup {Len(ms) + 1} /\ qs[Len(ms) + 1] = x
      BY <1>4, <1>6, <2>1
    <3>2. \A i \in DOMAIN ms : qs[i] = ms[i]
      BY <1>6, <2>1
    <3> QED
      BY <1>2, <3>1, <3>2 DEF Extends
  <2>5. \A i \in DOMAIN ms : qs[i] = ms[i]
    BY <1>6, <2>1
  <2>6. \A i \in DOMAIN qs \ DOMAIN payments :
          \/ \E f \in DOMAIN given : qs[i] = Payment(f, given[f], NoAlloc)
          \/ AllocSum(alloc) > 0 /\ qs[i] = x
    BY <1>2, <1>9, <2>4, <2>5
  <2>7. \A f : LiveSum(qs, f) = LiveSum(payments, f) + GivenTo(given, c, alloc, f)
    <3> SUFFICES ASSUME NEW f PROVE LiveSum(qs, f) = LiveSum(payments, f) + GivenTo(given, c, alloc, f)
      OBVIOUS
    <3>1. LiveSum(qs, f) = (LiveSum(payments, f) + (IF f \in DOMAIN given THEN given[f] ELSE 0))
                             + (IF f = c THEN AllocSum(alloc) ELSE 0)
      BY <1>2, <1>5, <2>1, <2>2
    <3> QED
      BY <1>3, <1>8, <3>1 DEF GivenTo
  <2>8. \A f : \A k \in Keys : Allocated(qs, f, k) = Allocated(payments, f, k) + (IF f = c THEN alloc[k] ELSE 0)
    BY <1>2, <1>5, <2>1, <2>3
  <2> QED
    BY <1>9, <2>4, <2>6, <2>7, <2>8 DEF qs, x
<1>10. CASE ~(AllocSum(alloc) > 0)
  <2>1. qs = ms /\ AllocSum(alloc) = 0
    BY <1>3, <1>7, <1>10
  <2>2. \A f : LiveSum(qs, f) = LiveSum(payments, f) + GivenTo(given, c, alloc, f)
    <3> SUFFICES ASSUME NEW f PROVE LiveSum(qs, f) = LiveSum(payments, f) + GivenTo(given, c, alloc, f)
      OBVIOUS
    <3>1. LiveSum(qs, f) = LiveSum(payments, f) + (IF f \in DOMAIN given THEN given[f] ELSE 0)
      BY <1>2, <2>1
    <3> QED
      BY <1>8, <2>1, <3>1 DEF GivenTo
  <2>3. \A f : \A k \in Keys : Allocated(qs, f, k) = Allocated(payments, f, k) + 0
    BY <1>2, <1>8, <2>1
  <2> QED
    BY <1>2, <1>10, <2>1, <2>2, <2>3 DEF qs
<1> QED
  BY <1>9, <1>10

\* A request that gives every month what it credits to it.
Gives(given, c, alloc) ==
    /\ payments' = GivenRows(given, c, alloc)
    /\ \A f \in DOMAIN given : fee[f].exists
    /\ AllocSum(alloc) > 0 => fee[c].exists
    /\ ~scene.repeats => \A k \in Keys : alloc[k] > 0 => alloc[k] <= KeyDue(c, k)
    /\ SomeCredited
    /\ ~DupSelection => \A f \in Fees :
         \/ fee'[f].paid = LiveSum(payments', f)
         \/ fee'[f].paid = fee[f].paid + GivenTo(given, c, alloc, f)
    /\ UNCHANGED <<extras, usedIds, carries>>

LEMMA GivenReceives ==
    ASSUME Typed, NEW given, Gift(given), NEW c \in Fees, NEW alloc \in [Keys -> Nat],
           Gives(given, c, alloc)
    PROVE  Receives
<1>0. payments \in Seq(PaymentType) /\ fee \in [Fees -> RowType]
  BY DEF Typed, TypeOK
<1>1. /\ Extends(payments', payments)
      /\ \A i \in DOMAIN payments' \ DOMAIN payments :
           \/ \E f \in DOMAIN given : payments'[i] = Payment(f, given[f], NoAlloc)
           \/ AllocSum(alloc) > 0 /\ payments'[i] = Payment(c, AllocSum(alloc), alloc)
      /\ \A f : LiveSum(payments', f) = LiveSum(payments, f) + GivenTo(given, c, alloc, f)
      /\ \A f : \A k \in Keys :
           Allocated(payments', f, k) = Allocated(payments, f, k)
             + (IF f = c /\ AllocSum(alloc) > 0 THEN alloc[k] ELSE 0)
  <2>1. payments' = GivenRows(given, c, alloc)
    BY DEF Gives
  <2> QED
    BY <2>1, GivenSums
<1>2. \A i \in DOMAIN payments' \ DOMAIN payments : RowNew(payments'[i])
  <2>0. /\ \A f \in DOMAIN given : fee[f].exists /\ given[f] \in Nat
        /\ AllocSum(alloc) > 0 => fee[c].exists
    BY DEF Gives, Gift
  <2>1. \A f \in DOMAIN given : RowNew(Payment(f, given[f], NoAlloc))
    BY <2>0, NoAllocType DEF RowNew, Payment
  <2>2. AllocSum(alloc) > 0 => RowNew(Payment(c, AllocSum(alloc), alloc))
    <3>1. AllocSum(alloc) \in Nat
      BY AllocSumNat
    <3> QED
      BY <2>0, <3>1 DEF RowNew, Payment
  <2> QED
    BY <1>1, <2>1, <2>2
<1>3. \A f \in Fees, k \in Keys :
         \/ Allocated(payments', f, k) = Allocated(payments, f, k)
         \/ ~scene.repeats /\ k \notin Unnumbered => Allocated(payments', f, k) <= PriceLimit(f, k)
  <2> SUFFICES ASSUME NEW f \in Fees, NEW k \in Keys, ~scene.repeats, k \notin Unnumbered,
                      Allocated(payments', f, k) # Allocated(payments, f, k)
               PROVE  Allocated(payments', f, k) <= PriceLimit(f, k)
    OBVIOUS
  <2>1. Allocated(payments, f, k) \in Nat /\ alloc[k] \in Nat
    BY <1>0, SumsNat
  <2>2. f = c /\ alloc[k] > 0 /\ Allocated(payments', f, k) = Allocated(payments, f, k) + alloc[k]
    BY <1>1, <2>1
  <2>3. alloc[k] <= Price(c, k) - Allocated(payments, c, k)
    BY <2>2 DEF KeyDue, Gives
  <2>4. Price(c, k) \in Int /\ Price(c, k) <= PriceLimit(c, k)
    <3>1. fee[c].heads \in [Heads -> Nat] /\ ExtraAmount \in Nat
      BY <1>0, AmountsAssumption DEF RowType
    <3> QED
      BY <3>1 DEF Price, PriceLimit
  <2>5. PriceLimit(c, k) \in Int
    BY <1>0, AmountsAssumption DEF PriceLimit, RowType
  <2> QED
    BY <2>1, <2>2, <2>3, <2>4, <2>5
<1>4. ~DupSelection => \A f \in Fees :
         \/ fee'[f].paid = LiveSum(payments', f)
         \/ fee'[f].paid - fee[f].paid = LiveSum(payments', f) - LiveSum(payments, f)
  <2> SUFFICES ASSUME NEW f \in Fees, fee'[f].paid = fee[f].paid + GivenTo(given, c, alloc, f)
               PROVE  fee'[f].paid - fee[f].paid = LiveSum(payments', f) - LiveSum(payments, f)
    BY DEF Gives
  <2>1. fee[f].paid \in Nat /\ LiveSum(payments, f) \in Nat
    BY <1>0, SumsNat DEF RowType
  <2>2. GivenTo(given, c, alloc, f) \in Nat
    <3>1. AllocSum(alloc) \in Nat
      BY AllocSumNat
    <3> QED
      BY <3>1 DEF GivenTo, Gift
  <2> QED
    BY <1>1, <2>1, <2>2
<1> QED
  BY <1>1, <1>2, <1>3, <1>4 DEF Receives, Gives

\* The shape in which the handlers write the months: some rows of existing
\* months credited, the others as they were.
Credits(S, np, ns) ==
    /\ S \in SUBSET Fees
    /\ \A f \in S : fee[f].exists /\ np[f] \in Nat /\ ns[f] \in Statuses
    /\ fee' = [f \in Fees |-> IF f \in S THEN [fee[f] EXCEPT !.paid = np[f], !.status = ns[f]] ELSE fee[f]]

LEMMA CreditedRows ==
    ASSUME Typed, NEW S, NEW np, NEW ns, Credits(S, np, ns)
    PROVE  /\ SomeCredited
           /\ \A f \in S : fee'[f].paid = np[f]
           /\ \A f \in Fees \ S : fee'[f] = fee[f]
<1> USE DEF Credits
<1>1. fee \in [Fees -> RowType]
  BY DEF Typed, TypeOK
<1>2. \A f \in Fees \ S : fee'[f] = fee[f]
  OBVIOUS
<1>3. \A f \in S : fee'[f] = [fee[f] EXCEPT !.paid = np[f], !.status = ns[f]]
  OBVIOUS
<1>4. \A f \in S : fee'[f] \in RowType /\ fee'[f].paid = np[f]
  <2> SUFFICES ASSUME NEW f \in S PROVE fee'[f] \in RowType /\ fee'[f].paid = np[f]
    OBVIOUS
  <2>1. fee[f] \in RowType
    BY <1>1
  <2> QED
    BY <1>3, <2>1 DEF RowType
<1>5. fee' \in [Fees -> RowType]
  BY <1>1, <1>2, <1>4
<1>6. \A f \in S : fee[f].exists /\ \E n \in Nat, s \in Statuses :
                                      fee'[f] = [fee[f] EXCEPT !.paid = n, !.status = s]
  BY <1>3, Zenon
<1> QED
  BY <1>2, <1>4, <1>5, <1>6 DEF SomeCredited

LEMMA ShareNat ==
    ASSUME Typed, NEW a \in Nat
    PROVE  /\ WaterfallLocked \in SUBSET Fees /\ IsFiniteSet(WaterfallLocked)
           /\ \A f \in Fees : DueIn(f) \in Nat
           /\ \A S \in SUBSET WaterfallLocked : DueOf(S) \in Nat
           /\ \A f \in Fees : Share(f, a) \in Nat
<1>1. WaterfallLocked \in SUBSET Fees /\ IsFiniteSet(WaterfallLocked)
  BY FeesAssumption, FS_Subset DEF WaterfallLocked
<1>2. \A f \in Fees : DueIn(f) \in Nat
  <2> SUFFICES ASSUME NEW f \in Fees PROVE DueIn(f) \in Nat
    OBVIOUS
  <2>1. Remaining(f) \in Int
    BY ExtraSumNat DEF Typed
  <2> QED
    BY <2>1 DEF DueIn, MaxOf
<1>3. ASSUME NEW S \in SUBSET WaterfallLocked PROVE DueOf(S) \in Nat
  <2>1. IsFiniteSet(S) /\ \A f \in S : [g \in Fees |-> DueIn(g)][f] \in Nat
    BY <1>1, <1>2, FS_Subset
  <2> QED
    BY <2>1, SumNat DEF DueOf
<1>4. ASSUME NEW f \in Fees PROVE Share(f, a) \in Nat
  <2>1. DueOf({g \in WaterfallLocked : g < f}) \in Nat
    BY <1>3
  <2> QED
    BY <1>2, <2>1 DEF Share, MinOf, MaxOf
<1> QED
  BY <1>1, <1>2, <1>3, <1>4

LEMMA SelectionsAre ==
    /\ \A prev \in Selections(Fees) : Gift(prev) /\ \A f \in DOMAIN prev : prev[f] > 0
    /\ HeadSelections \subseteq [Keys -> Nat]
<1>1. ASSUME NEW prev \in Selections(Fees)
      PROVE  Gift(prev) /\ \A f \in DOMAIN prev : prev[f] > 0
  <2>1. PICK T \in SUBSET Fees : prev \in [T -> Amounts]
    BY DEF Selections
  <2> QED
    BY <2>1, AmountsPositive DEF Gift
<1>2. HeadSelections \subseteq [Keys -> Nat]
  <2>1. \A k \in Keys, a \in Amounts : [NoAlloc EXCEPT ![k] = a] \in [Keys -> Nat]
    BY AmountsPositive, NoAllocType
  <2> QED
    BY <2>1, NoAllocType DEF HeadSelections
<1> QED
  BY <1>1, <1>2

\* What a request asks of each key; without repeats, one line.
LEMMA AskedIs ==
    ASSUME NEW line \in HeadSelections, NEW alloc \in Asked(line)
    PROVE  alloc \in [Keys -> Nat] /\ (~scene.repeats => alloc = line)
BY SelectionsAre DEF Asked

\* Without allocations, only the months are given something.
LEMMA GivenMonths ==
    ASSUME NEW given, Gift(given), NEW c \in Fees
    PROVE  /\ GivenRows(given, c, NoAlloc) = payments \o MonthRows(given)
           /\ \A f \in DOMAIN given : GivenTo(given, c, NoAlloc, f) = given[f]
           /\ \A f : f \notin DOMAIN given => GivenTo(given, c, NoAlloc, f) = 0
<1>1. AllocSum(NoAlloc) = 0
  BY NoAllocType
<1>2. \A f \in DOMAIN given : given[f] \in Nat
  BY DEF Gift
<1> QED
  BY <1>1, <1>2 DEF GivenRows, GivenTo

LEMMA NothingAllocated == ~(AllocSum(NoAlloc) > 0) /\ \A k \in Keys : ~(NoAlloc[k] > 0)
BY NoAllocType DEF NoAlloc

LEMMA WaterfallReceives ==
    ASSUME Typed, NEW p \in Requests, NEW a \in Amounts, Waterfall(p, a)
    PROVE  Receives
<1> DEFINE given == [f \in Covered(a) |-> Share(f, a)]
           np == [f \in Covered(a) |-> fee[f].paid + Share(f, a)]
           ns == [f \in Covered(a) |-> PaidStatus(fee[f].paid + Share(f, a), TotalDue(f))]
<1>0. fee \in [Fees -> RowType] /\ a \in Nat
  BY AmountsPositive DEF Typed, TypeOK
<1>1. Covered(a) \in SUBSET Fees /\ \A f \in Covered(a) : fee[f].exists
  BY DEF Covered, WaterfallLocked
<1>2. \A f \in Covered(a) : Share(f, a) \in Nat /\ fee[f].paid \in Nat /\ TotalDue(f) \in Nat
  BY <1>0, <1>1, ExtraSumNat, ShareNat DEF Typed, RowType
<1>3. DOMAIN given = Covered(a) /\ \A f \in DOMAIN given : given[f] = Share(f, a)
  OBVIOUS
<1>4. Gift(given)
  BY <1>1, <1>2, <1>3 DEF Gift
<1>5. PICK c \in Fees : TRUE
  <2>1. WaterfallLocked # {}
    BY DEF Waterfall
  <2> QED
    BY <2>1 DEF WaterfallLocked
<1>6. /\ payments' = payments \o MonthRows(given)
      /\ fee' = [f \in Fees |-> IF f \in Covered(a)
                   THEN [fee[f] EXCEPT !.paid = @ + Share(f, a),
                           !.status = PaidStatus(fee[f].paid + Share(f, a), TotalDue(f))]
                   ELSE fee[f]]
      /\ UNCHANGED <<extras, usedIds, carries>>
  BY DEF Waterfall
<1>7. \A f \in Covered(a) : fee[f].exists /\ np[f] \in Nat /\ ns[f] \in Statuses
  BY <1>1, <1>2, StatusTypes
<1>8. fee' = [f \in Fees |-> IF f \in Covered(a) THEN [fee[f] EXCEPT !.paid = np[f], !.status = ns[f]] ELSE fee[f]]
  BY <1>6
<1>9. \A f \in Covered(a) : np[f] = fee[f].paid + given[f]
  BY <1>3
<1> HIDE DEF given, np, ns
<1>a. Credits(Covered(a), np, ns)
  BY <1>1, <1>7, <1>8 DEF Credits
<1>10. /\ SomeCredited
       /\ \A f \in Covered(a) : fee'[f].paid = np[f]
       /\ \A f \in Fees \ Covered(a) : fee'[f] = fee[f]
  BY <1>a, CreditedRows
<1>11. /\ payments' = GivenRows(given, c, NoAlloc)
       /\ \A f \in DOMAIN given : GivenTo(given, c, NoAlloc, f) = given[f]
       /\ \A f : f \notin DOMAIN given => GivenTo(given, c, NoAlloc, f) = 0
  BY <1>4, <1>6, GivenMonths
<1>12. \A f \in Fees : fee'[f].paid = fee[f].paid + GivenTo(given, c, NoAlloc, f)
  <2> SUFFICES ASSUME NEW f \in Fees PROVE fee'[f].paid = fee[f].paid + GivenTo(given, c, NoAlloc, f)
    OBVIOUS
  <2>1. fee[f].paid \in Nat
    BY <1>0 DEF RowType
  <2> QED
    <3>1. CASE f \in Covered(a)
      BY <1>3, <1>9, <1>10, <1>11, <3>1
    <3>2. CASE f \notin Covered(a)
      <4>1. fee'[f] = fee[f] /\ GivenTo(given, c, NoAlloc, f) = 0
        BY <1>3, <1>10, <1>11, <3>2
      <4> QED
        BY <2>1, <4>1
    <3> QED
      BY <3>1, <3>2
<1>13. \A f \in DOMAIN given : fee[f].exists
  BY <1>1, <1>3
<1>14. Gives(given, c, NoAlloc)
  BY <1>6, <1>10, <1>11, <1>12, <1>13, NothingAllocated DEF Gives
<1> QED
  BY <1>4, <1>14, NoAllocType, GivenReceives

LEMMA FamilyPayReceives ==
    ASSUME Typed, NEW p \in Requests, NEW batch \in Selections(Fees), FamilyPay(p, batch)
    PROVE  Receives
<1> DEFINE S == DOMAIN batch
           np == [f \in S |-> LiveSum(payments', f)]
           ns == [f \in S |-> FeeStatus(LiveSum(payments', f), TotalDue(f))]
<1>0. fee \in [Fees -> RowType] /\ payments \in Seq(PaymentType)
  BY DEF Typed, TypeOK
<1>1. S \in SUBSET Fees /\ Gift(batch) /\ \A f \in S : fee[f].exists
  BY SelectionsAre DEF Gift, FamilyPay
<1>2. PICK c \in Fees : TRUE
  BY <1>1 DEF FamilyPay
<1>3. /\ payments' = payments \o MonthRows(batch)
      /\ fee' = [f \in Fees |-> IF f \in S
                   THEN [fee[f] EXCEPT !.paid = LiveSum(payments', f),
                           !.status = FeeStatus(LiveSum(payments', f), TotalDue(f))]
                   ELSE fee[f]]
      /\ UNCHANGED <<extras, usedIds, carries>>
  BY DEF FamilyPay
<1>4. \A f \in S : LiveSum(payments', f) \in Nat /\ TotalDue(f) \in Nat
  <2>1. Extends(payments', payments)
    BY <1>0, <1>1, <1>3, MonthRowsSums
  <2> QED
    BY <1>1, <2>1, SumsNat, ExtraSumNat DEF Extends, Typed
<1>5. \A f \in S : fee[f].exists /\ np[f] \in Nat /\ ns[f] \in Statuses
  BY <1>1, <1>4, StatusTypes
<1>6. fee' = [f \in Fees |-> IF f \in S THEN [fee[f] EXCEPT !.paid = np[f], !.status = ns[f]] ELSE fee[f]]
  BY <1>3
<1>7. \A f \in S : np[f] = LiveSum(payments', f)
  OBVIOUS
<1> HIDE DEF np, ns
<1>a. Credits(S, np, ns)
  BY <1>1, <1>5, <1>6 DEF Credits
<1>8. /\ SomeCredited
      /\ \A f \in S : fee'[f].paid = np[f]
      /\ \A f \in Fees \ S : fee'[f] = fee[f]
  BY <1>a, CreditedRows
<1>9. /\ payments' = GivenRows(batch, c, NoAlloc)
      /\ \A f \in DOMAIN batch : GivenTo(batch, c, NoAlloc, f) = batch[f]
      /\ \A f : f \notin DOMAIN batch => GivenTo(batch, c, NoAlloc, f) = 0
  BY <1>1, <1>3, GivenMonths
<1>10. \A f \in Fees : \/ fee'[f].paid = LiveSum(payments', f)
                       \/ fee'[f].paid = fee[f].paid + GivenTo(batch, c, NoAlloc, f)
  <2> SUFFICES ASSUME NEW f \in Fees, f \notin S PROVE fee'[f].paid = fee[f].paid + GivenTo(batch, c, NoAlloc, f)
    BY <1>7, <1>8
  <2>1. fee[f].paid \in Nat
    BY <1>0 DEF RowType
  <2> QED
    <3>a. fee'[f] = fee[f]
      BY <1>8
    <3>b. GivenTo(batch, c, NoAlloc, f) = 0
      BY <1>9
    <3>1. fee'[f] = fee[f] /\ GivenTo(batch, c, NoAlloc, f) = 0
      BY <3>a, <3>b
    <3> QED
      BY <2>1, <3>1
<1>11. \A f \in DOMAIN batch : fee[f].exists
  BY <1>1
<1>12. Gives(batch, c, NoAlloc)
  BY <1>3, <1>8, <1>9, <1>10, <1>11, NothingAllocated DEF Gives
<1> QED
  BY <1>1, <1>12, NoAllocType, GivenReceives

LEMMA SelectionIsGiven ==
    ASSUME Typed, NEW prev, Gift(prev), NEW c \in Fees, NEW alloc \in [Keys -> Nat]
    PROVE  payments \o SelectionRows(prev, c, alloc) = GivenRows(prev, c, alloc)
<1> DEFINE rows == MonthRows(prev)
           x == Payment(c, AllocSum(alloc), alloc)
<1>1. payments \in Seq(PaymentType) /\ rows \in Seq(PaymentType) /\ x \in PaymentType
  BY MonthRowsAre, AllocSumNat, PaymentTyped DEF Typed, TypeOK
<1> HIDE DEF rows, x
<1>2. payments \o Append(rows, x) = Append(payments \o rows, x)
  BY <1>1
<1> QED
  BY <1>2 DEF SelectionRows, GivenRows, rows, x

\* What both handlers validate: only existing months receive, within their prices.
LEMMA FittingSelection ==
    ASSUME Typed, NEW prev, Gift(prev), \A f \in DOMAIN prev : prev[f] > 0,
           NEW c \in Fees, NEW line \in HeadSelections, NEW alloc \in Asked(line),
           SelectionFits(prev, c, line, alloc)
    PROVE  /\ \A f \in DOMAIN prev : fee[f].exists
           /\ AllocSum(alloc) > 0 => fee[c].exists
           /\ ~scene.repeats => \A k \in Keys : alloc[k] > 0 => alloc[k] <= KeyDue(c, k)
           /\ AllocSum(alloc) \in Nat
           /\ \A f \in Fees : /\ GivenTo(prev, c, alloc, f) \in Nat
                              /\ GivenTo(prev, c, alloc, f) > 0 => fee[f].exists
<1>1. /\ \A f \in DOMAIN prev : fee[f].exists
      /\ AllocSum(alloc) > 0 => fee[c].exists
      /\ ~scene.repeats => \A k \in Keys : alloc[k] > 0 => alloc[k] <= KeyDue(c, k)
  BY AskedIs DEF SelectionFits
<1>2. AllocSum(alloc) \in Nat /\ \A f \in DOMAIN prev : prev[f] \in Nat
  BY AllocSumNat, AskedIs DEF Gift
<1>3. \A f \in Fees : /\ GivenTo(prev, c, alloc, f) \in Nat
                      /\ GivenTo(prev, c, alloc, f) > 0 => fee[f].exists
  BY <1>1, <1>2 DEF GivenTo
<1> QED
  BY <1>1, <1>2, <1>3

LEMMA AllocateReceives ==
    ASSUME Typed, NEW p \in Requests, NEW prev \in Selections(Fees), NEW c \in Fees,
           NEW line \in HeadSelections, NEW alloc \in Asked(line), Allocate(p, prev, c, line, alloc)
    PROVE  Receives
<1> DEFINE cur == AllocSum(alloc)
           S == DOMAIN prev \cup {f \in {c} : cur > 0}
           np == [f \in S |-> IF f = c /\ cur > 0 THEN fee[f].paid + cur ELSE fee[f].paid + prev[f]]
           ns == [f \in S |-> PaidStatus(np[f], TotalDue(f))]
<1>0. fee \in [Fees -> RowType]
  BY DEF Typed, TypeOK
<1>1. Gift(prev) /\ (\A f \in DOMAIN prev : prev[f] > 0) /\ alloc \in [Keys -> Nat]
  BY SelectionsAre, AskedIs
<1>2. /\ SelectionFits(prev, c, line, alloc)
      /\ c \in DOMAIN prev => DupSelection
      /\ payments' = payments \o SelectionRows(prev, c, alloc)
      /\ fee' = [f \in Fees |->
                   IF f = c /\ cur > 0 THEN Credit(f, fee[f].paid + cur)
                   ELSE IF f \in DOMAIN prev THEN Credit(f, fee[f].paid + prev[f])
                   ELSE fee[f]]
      /\ UNCHANGED <<extras, usedIds, carries>>
  BY DEF Allocate
<1>3. /\ \A f \in DOMAIN prev : fee[f].exists
      /\ cur > 0 => fee[c].exists
      /\ ~scene.repeats => \A k \in Keys : alloc[k] > 0 => alloc[k] <= KeyDue(c, k)
      /\ cur \in Nat
  BY <1>1, <1>2, FittingSelection
<1>4. DOMAIN prev \in SUBSET Fees /\ \A f \in DOMAIN prev : prev[f] \in Nat
  BY <1>1 DEF Gift
<1>5. payments' = GivenRows(prev, c, alloc)
  BY <1>1, <1>2, SelectionIsGiven
<1>6. S \in SUBSET Fees /\ \A f \in S : fee[f].exists /\ np[f] \in Nat
  <2>1. \A f \in Fees : fee[f].paid \in Nat
    BY <1>0 DEF RowType
  <2> HIDE DEF cur
  <2>2. S \in SUBSET Fees /\ \A f \in S : fee[f].exists
    BY <1>3, <1>4
  <2>3. \A f \in S : f # c \/ ~(cur > 0) => f \in DOMAIN prev
    OBVIOUS
  <2> QED
    BY <1>3, <1>4, <2>1, <2>2, <2>3
<1>7. \A f \in S : ns[f] \in Statuses
  <2>1. \A f \in Fees : TotalDue(f) \in Nat
    BY ExtraSumNat DEF Typed
  <2> HIDE DEF np
  <2> QED
    BY <1>6, <2>1, StatusTypes
<1>8. fee' = [f \in Fees |-> IF f \in S THEN [fee[f] EXCEPT !.paid = np[f], !.status = ns[f]] ELSE fee[f]]
  <2> HIDE DEF cur
  <2> QED
    BY <1>2 DEF Credit
<1>9. \A f \in S : ~DupSelection => np[f] = fee[f].paid + GivenTo(prev, c, alloc, f)
  <2> SUFFICES ASSUME NEW f \in S, ~DupSelection PROVE np[f] = fee[f].paid + GivenTo(prev, c, alloc, f)
    OBVIOUS
  <2>1. fee[f].paid \in Nat
    BY <1>0, <1>6 DEF RowType
  <2> HIDE DEF cur
  <2>2. CASE f = c /\ cur > 0
    <3>1. GivenTo(prev, c, alloc, f) = cur
      BY <1>2, <1>3, <2>2 DEF GivenTo, cur
    <3> QED
      BY <2>2, <3>1
  <2>3. CASE ~(f = c /\ cur > 0)
    <3>1. f \in DOMAIN prev /\ f # c
      BY <1>2, <2>3
    <3>2. GivenTo(prev, c, alloc, f) = prev[f]
      BY <1>4, <3>1 DEF GivenTo
    <3> QED
      BY <2>3, <3>2
  <2> QED
    BY <2>2, <2>3
<1>10. \A f \in Fees : f \notin S => GivenTo(prev, c, alloc, f) = 0
  BY <1>3 DEF GivenTo
<1>11. Credits(S, np, ns)
  BY <1>6, <1>7, <1>8 DEF Credits
<1> HIDE DEF S, np, ns, cur
<1>12. SomeCredited /\ (\A f \in S : fee'[f].paid = np[f]) /\ \A f \in Fees \ S : fee'[f] = fee[f]
  BY <1>11, CreditedRows
<1>13. ~DupSelection => \A f \in Fees : fee'[f].paid = fee[f].paid + GivenTo(prev, c, alloc, f)
  <2> SUFFICES ASSUME NEW f \in Fees, ~DupSelection
               PROVE  fee'[f].paid = fee[f].paid + GivenTo(prev, c, alloc, f)
    OBVIOUS
  <2>1. CASE f \in S
    BY <1>9, <1>12, <2>1
  <2>2. CASE f \notin S
    <3>1. fee'[f] = fee[f] /\ GivenTo(prev, c, alloc, f) = 0 /\ fee[f].paid \in Nat
      BY <1>0, <1>10, <1>12, <2>2 DEF RowType
    <3> QED
      BY <3>1
  <2> QED
    BY <2>1, <2>2
<1>14. Gives(prev, c, alloc)
  BY <1>2, <1>3, <1>5, <1>12, <1>13 DEF Gives, cur
<1> QED
  BY <1>1, <1>14, GivenReceives

LEMMA FamilyAllocateReceives ==
    ASSUME Typed, NEW p \in Requests, NEW prev \in Selections(Fees), NEW c \in Fees,
           NEW line \in HeadSelections, NEW alloc \in Asked(line), FamilyAllocate(p, prev, c, line, alloc)
    PROVE  Receives
<1> DEFINE to(f) == GivenTo(prev, c, alloc, f)
           S == {f \in Fees : to(f) > 0}
           np == [f \in S |-> fee[f].paid + to(f)]
           ns == [f \in S |-> PaidStatus(np[f], TotalDue(f))]
<1>0. fee \in [Fees -> RowType]
  BY DEF Typed, TypeOK
<1>1. Gift(prev) /\ (\A f \in DOMAIN prev : prev[f] > 0) /\ alloc \in [Keys -> Nat]
  BY SelectionsAre, AskedIs
<1>2. /\ SelectionFits(prev, c, line, alloc)
      /\ payments' = payments \o SelectionRows(prev, c, alloc)
      /\ fee' = [f \in Fees |-> IF to(f) > 0 THEN Credit(f, fee[f].paid + to(f)) ELSE fee[f]]
      /\ UNCHANGED <<extras, usedIds, carries>>
  BY DEF FamilyAllocate, GivenTo
<1>3. /\ \A f \in DOMAIN prev : fee[f].exists
      /\ AllocSum(alloc) > 0 => fee[c].exists
      /\ ~scene.repeats => \A k \in Keys : alloc[k] > 0 => alloc[k] <= KeyDue(c, k)
      /\ \A f \in Fees : to(f) \in Nat /\ (to(f) > 0 => fee[f].exists)
  BY <1>1, <1>2, FittingSelection
<1>4. payments' = GivenRows(prev, c, alloc)
  BY <1>1, <1>2, SelectionIsGiven
<1> HIDE DEF to
<1>5. S \in SUBSET Fees /\ \A f \in S : fee[f].exists /\ np[f] \in Nat
  <2>1. \A f \in Fees : fee[f].paid \in Nat
    BY <1>0 DEF RowType
  <2> QED
    BY <1>3, <2>1
<1>6. \A f \in S : ns[f] \in Statuses
  <2>1. \A f \in Fees : TotalDue(f) \in Nat
    BY ExtraSumNat DEF Typed
  <2> HIDE DEF np
  <2> QED
    BY <1>5, <2>1, StatusTypes
<1>7. fee' = [f \in Fees |-> IF f \in S THEN [fee[f] EXCEPT !.paid = np[f], !.status = ns[f]] ELSE fee[f]]
  BY <1>2 DEF Credit
<1>8. Credits(S, np, ns)
  BY <1>5, <1>6, <1>7 DEF Credits
<1>9. /\ \A f \in S : np[f] = fee[f].paid + to(f)
      /\ \A f \in Fees \ S : to(f) = 0
  BY <1>3
<1> HIDE DEF S, np, ns
<1>10. SomeCredited /\ (\A f \in S : fee'[f].paid = np[f]) /\ \A f \in Fees \ S : fee'[f] = fee[f]
  BY <1>8, CreditedRows
<1>11. \A f \in Fees : fee'[f].paid = fee[f].paid + GivenTo(prev, c, alloc, f)
  <2> SUFFICES ASSUME NEW f \in Fees PROVE fee'[f].paid = fee[f].paid + to(f)
    BY DEF to
  <2>1. CASE f \in S
    BY <1>9, <1>10, <2>1
  <2>2. CASE f \notin S
    <3>1. fee'[f] = fee[f] /\ to(f) = 0 /\ fee[f].paid \in Nat
      BY <1>0, <1>9, <1>10, <2>2 DEF RowType
    <3> QED
      BY <3>1
  <2> QED
    BY <2>1, <2>2
<1>12. Gives(prev, c, alloc)
  BY <1>2, <1>3, <1>4, <1>10, <1>11 DEF Gives
<1> QED
  BY <1>1, <1>12, GivenReceives

-----------------------------------------------------------------------------
(* Reverts, and the actions that leave the payments alone.                  *)

\* A live payment is voided; its month is aggregated anew.
Reverts ==
    \E i \in DOMAIN payments :
      /\ payments[i].live
      /\ payments' = Reverted(i)
      /\ \E s \in Statuses :
           fee' = [fee EXCEPT ![payments[i].fee].paid = LiveSum(payments', payments[i].fee),
                              ![payments[i].fee].status = s]
      /\ UNCHANGED <<extras, usedIds, carries>>

LEMMA VoidedTyped ==
    ASSUME NEW r \in PaymentType
    PROVE  LET v == [r EXCEPT !.live = FALSE, !.allocLive = FALSE, !.reverts = @ + 1]
           IN  /\ v \in PaymentType /\ v.fee = r.fee /\ v.amount = r.amount /\ v.alloc = r.alloc
               /\ v.live = FALSE /\ v.allocLive = FALSE /\ v.reverts = r.reverts + 1
<1> DEFINE n == r.reverts + 1
           v == [r EXCEPT !.live = FALSE, !.allocLive = FALSE, !.reverts = n]
<1>1. n \in Nat
  BY DEF PaymentType
<1>2. [r EXCEPT !.live = FALSE, !.allocLive = FALSE, !.reverts = @ + 1] = v
  OBVIOUS
<1> HIDE DEF n
<1>3. v \in PaymentType
  BY <1>1 DEF PaymentType
<1>4. /\ v.fee = r.fee /\ v.amount = r.amount /\ v.alloc = r.alloc
      /\ v.live = FALSE /\ v.allocLive = FALSE /\ v.reverts = n
  BY DEF PaymentType
<1> HIDE DEF v
<1> QED
  BY <1>2, <1>3, <1>4 DEF n

\* The rows after a revert: only the live sum of that month changes, and nothing
\* more is allocated.
LEMMA RevertedSums ==
    ASSUME Typed, NEW i \in DOMAIN payments
    PROVE  /\ Reverted(i) \in Seq(PaymentType) /\ DOMAIN Reverted(i) = DOMAIN payments
           /\ \A j \in DOMAIN payments : j # i => Reverted(i)[j] = payments[j]
           /\ Reverted(i)[i] = [payments[i] EXCEPT !.live = FALSE, !.allocLive = FALSE, !.reverts = @ + 1]
           /\ \A f : f # payments[i].fee => LiveSum(Reverted(i), f) = LiveSum(payments, f)
           /\ \A f : \A k \in Keys : Allocated(Reverted(i), f, k) <= Allocated(payments, f, k)
<1> DEFINE qs == Reverted(i)
<1>1. payments \in Seq(PaymentType) /\ payments[i] \in PaymentType
  BY RowsTyped DEF Typed, TypeOK
<1>2. /\ DOMAIN qs = DOMAIN payments
      /\ \A j \in DOMAIN payments : j # i => qs[j] = payments[j]
      /\ qs[i] = [payments[i] EXCEPT !.live = FALSE, !.allocLive = FALSE, !.reverts = @ + 1]
  BY <1>1 DEF Reverted
<1>3. qs[i] \in PaymentType /\ qs[i].fee = payments[i].fee /\ qs[i].amount = payments[i].amount
      /\ qs[i].alloc = payments[i].alloc /\ qs[i].allocLive = FALSE
  BY <1>1, <1>2, VoidedTyped
<1> HIDE DEF qs
<1>4. \A j \in DOMAIN payments : qs[j] \in PaymentType
  BY <1>1, <1>2, <1>3, RowsTyped
<1>5. qs \in Seq(PaymentType)
  <2>1. DOMAIN payments = 1..Len(payments) /\ Len(payments) \in Nat
    BY <1>1
  <2>2. qs = [j \in DOMAIN payments |-> qs[j]]
    BY <1>1, <1>2 DEF qs, Reverted
  <2>3. qs \in [1..Len(payments) -> PaymentType]
    BY <1>4, <2>1, <2>2
  <2> QED
    BY <2>1, <2>3
<1>6. ASSUME NEW f, f # payments[i].fee PROVE LiveSum(qs, f) = LiveSum(payments, f)
  <2>1. LiveOf(qs, f) = LiveOf(payments, f) /\ i \notin LiveOf(payments, f)
    BY <1>2, <1>3, <1>6 DEF LiveOf
  <2>2. \A j \in LiveOf(payments, f) : Money(payments)[j] \in Int /\ Money(qs)[j] = Money(payments)[j]
    BY <1>1, <1>2, <2>1, RowsTyped DEF LiveOf, Money
  <2>3. SumFunctionOnSet(Money(qs), LiveOf(payments, f)) = SumFunctionOnSet(Money(payments), LiveOf(payments, f))
    BY <1>1, <2>2, RowsTyped, SumSame
  <2> QED
    BY <2>1, <2>3 DEF LiveSum, LiveOf, Money
<1>7. ASSUME NEW f, NEW k \in Keys PROVE Allocated(qs, f, k) <= Allocated(payments, f, k)
  <2>1. AllocOf(qs, f) \in SUBSET AllocOf(payments, f)
    BY <1>2, <1>3 DEF AllocOf
  <2>2. \A j \in DOMAIN payments : Given(qs, k)[j] = Given(payments, k)[j] /\ Given(payments, k)[j] \in Nat
    <3>1. \A j \in DOMAIN payments : qs[j].alloc = payments[j].alloc
      BY <1>2, <1>3
    <3>2. \A j \in DOMAIN payments : Given(payments, k)[j] \in Nat
      BY <1>1, RowsTyped
    <3> QED
      BY <1>2, <3>1, <3>2 DEF Given
  <2>3. AllocOf(payments, f) \subseteq DOMAIN payments /\ IsFiniteSet(AllocOf(payments, f)) /\ IsFiniteSet(AllocOf(qs, f))
    BY <1>1, <1>5, RowsTyped DEF AllocOf
  <2>4. SumFunctionOnSet(Given(payments, k), AllocOf(qs, f)) <= SumFunctionOnSet(Given(payments, k), AllocOf(payments, f))
    <3>1. \A j \in AllocOf(payments, f) : Given(payments, k)[j] \in Nat
      BY <2>2, <2>3
    <3> QED
      BY <2>1, <2>3, <3>1, SumNat
  <2>5. SumFunctionOnSet(Given(qs, k), AllocOf(qs, f)) = SumFunctionOnSet(Given(payments, k), AllocOf(qs, f))
    <3>1. \A j \in AllocOf(qs, f) : Given(payments, k)[j] \in Int /\ Given(qs, k)[j] = Given(payments, k)[j]
      BY <2>1, <2>2, <2>3
    <3> QED
      BY <2>3, <3>1, SumSame
  <2> QED
    BY <2>4, <2>5 DEF Allocated, AllocOf, Given
<1> QED
  BY <1>2, <1>5, <1>6, <1>7 DEF qs

LEMMA RevertTxnReverts ==
    ASSUME Typed, NEW p \in Requests, RevertTxn(p)
    PROVE  Reverts
<1> DEFINE i == loc[p].payment
           f == payments[i].fee
           paid == LiveSum(Reverted(i), f)
           s == IF paid > 0 THEN FeeStatus(paid, TotalDue(f)) ELSE "UNPAID"
<1>1. i \in DOMAIN payments
  BY DEF Typed, LocsTyped, LocTyped, RevertTxn
<1>2. /\ payments[i].live
      /\ payments' = Reverted(i)
      /\ fee' = [fee EXCEPT ![f].paid = paid, ![f].status = s]
      /\ UNCHANGED <<extras, usedIds, carries>>
  BY DEF RevertTxn, RevertTo
<1>3. f \in Fees
  BY <1>1, RowsTyped DEF Typed, TypeOK, PaymentType
<1>4. paid \in Nat
  BY <1>1, RevertedSums, SumsNat
<1>5. TotalDue(f) \in Nat
  BY <1>3, ExtraSumNat DEF Typed
<1>6. s \in Statuses
  <2>1. FeeStatus(paid, TotalDue(f)) \in Statuses
    BY <1>4, <1>5, StatusTypes
  <2> QED
    BY <2>1 DEF Statuses
<1> HIDE DEF i, s
<1>7. fee' = [fee EXCEPT ![f].paid = LiveSum(payments', f), ![f].status = s]
  BY <1>2
<1> QED
  BY <1>1, <1>2, <1>6, <1>7 DEF Reverts

-----------------------------------------------------------------------------
(* What a request does next.                                                *)

\* A request stays where it is, or goes on with locals its next statement expects.
Moves(p) ==
    \/ StillIdle
    \/ \E label, l : Goto(p, label, l) /\ LocTyped(label, l, DOMAIN payments) /\ Allows(p, label)

LEMMA MovesTyped ==
    ASSUME Typed, NEW p \in Requests, Moves(p), DOMAIN payments \subseteq DOMAIN payments'
    PROVE  LocsTyped' /\ InScene' /\ DOMAIN pc' = Requests /\ DOMAIN loc' = Requests
<1>0. /\ DOMAIN pc = Requests /\ DOMAIN loc = Requests /\ scene \in Scenes
      /\ \A q \in Requests : LocTyped(pc[q], loc[q], DOMAIN payments) /\ Allows(q, pc[q])
  BY DEF Typed, TypeOK, LocsTyped, InScene
<1>1. \A label, l : LocTyped(label, l, DOMAIN payments) => LocTyped(label, l, DOMAIN payments)'
  <2>1. scene' = scene
    BY DEF Moves, StillIdle, Goto
  <2> QED
    BY <2>1 DEF LocTyped
<1>2. CASE StillIdle
  <2>1. scene' = scene /\ pc' = pc /\ loc' = loc
    BY <1>2 DEF StillIdle
  <2>2. LocsTyped'
    BY <1>0, <1>1, <2>1 DEF LocsTyped
  <2>3. InScene'
    BY <1>0, <2>1 DEF InScene, Allows
  <2> QED
    BY <1>0, <2>1, <2>2, <2>3
<1>3. ASSUME NEW label, NEW l, Goto(p, label, l), LocTyped(label, l, DOMAIN payments), Allows(p, label)
      PROVE  LocsTyped' /\ InScene' /\ DOMAIN pc' = Requests /\ DOMAIN loc' = Requests
  <2>1. scene' = scene /\ pc' = [pc EXCEPT ![p] = label] /\ loc' = [loc EXCEPT ![p] = l]
    BY <1>3 DEF Goto
  <2>2. /\ DOMAIN pc' = Requests /\ DOMAIN loc' = Requests /\ pc'[p] = label /\ loc'[p] = l
        /\ \A q \in Requests : q # p => pc'[q] = pc[q] /\ loc'[q] = loc[q]
    BY <1>0, <2>1
  <2>3. \A q \in Requests : LocTyped(pc[q], loc[q], DOMAIN payments)'
    <3> SUFFICES ASSUME NEW q \in Requests PROVE LocTyped(pc[q], loc[q], DOMAIN payments)'
      OBVIOUS
    <3>1. CASE q = p
      BY <1>1, <1>3, <2>2, <3>1
    <3>2. CASE q # p
      BY <1>0, <1>1, <2>2, <3>2
    <3> QED
      BY <3>1, <3>2
  <2>4. \A q \in Requests : Allows(q, pc'[q])
    BY <1>0, <1>3, <2>2
  <2>5. LocsTyped'
    BY <2>3 DEF LocsTyped
  <2>6. InScene'
    BY <1>0, <2>1, <2>4 DEF InScene, Allows
  <2> QED
    BY <2>2, <2>5, <2>6
<1> QED
  BY <1>2, <1>3 DEF Moves

LEMMA FinishMoves == ASSUME NEW p, Finish(p) PROVE Moves(p)
<1>1. LocTyped("idle", NoLoc, DOMAIN payments)
  BY DEF LocTyped
<1>2. Allows(p, "idle")
  BY DEF Allows
<1> QED
  BY <1>1, <1>2 DEF Moves, Finish

\* The common reads of the proofs below.
LEMMA MonthTyped ==
    ASSUME Typed, NEW f \in Fees
    PROVE  /\ fee[f].gen \in Nat /\ fee[f].total \in Nat /\ fee[f].net \in Nat /\ fee[f].paid \in Nat
           /\ fee[f] \in RowType /\ ExtraSum(f) \in Nat /\ TotalDue(f) \in Nat
BY ExtraSumNat DEF Typed, TypeOK, RowType

LEMMA RunningTyped ==
    ASSUME Typed, NEW p \in Requests
    PROVE  /\ LocTyped(pc[p], loc[p], DOMAIN payments)
           /\ pc[p] # "idle" => p \in scene.staff
BY DEF Typed, LocsTyped, InScene, Allows

LEMMA ScenePrices ==
    ASSUME Typed, NEW b \in scene.breakdowns
    PROVE  b \in Breakdowns /\ b \in [Heads -> Nat] /\ HeadSum(b) \in Nat
<1>1. scene \in Scenes
  BY DEF Typed, InScene
<1>2. b \in Breakdowns
  BY <1>1, ScenesAssumption
<1>3. b \in [Heads -> Nat]
  BY <1>2, AmountsAssumption
<1> QED
  BY <1>2, <1>3, HeadSumNat

LEMMA ArchivedMonths == ASSUME Typed PROVE scene.archived \subseteq scene.months /\ scene.archived \subseteq Fees
<1>1. scene \in Scenes
  BY DEF Typed, InScene
<1> QED
  BY <1>1, ScenesAssumption

LEMMA PaymentMoves ==
    ASSUME Typed, NEW p \in Requests, PaymentNext(p)
    PROVE  Moves(p)
<1>1. ASSUME NEW f \in Fees, NEW a \in Amounts, PayRead(p, f, a) PROVE Moves(p)
  <2> DEFINE l == [fee |-> f, gen |-> fee[f].gen, amount |-> a, extra |-> ExtraSum(f)]
  <2>1. LocTyped("payTxn", l, DOMAIN payments)
    BY MonthTyped DEF LocTyped
  <2>2. Allows(p, "payTxn")
    BY <1>1 DEF PayRead, Idle, Allows
  <2>3. Goto(p, "payTxn", l)
    BY <1>1 DEF PayRead
  <2> QED
    BY <2>1, <2>2, <2>3 DEF Moves
<1>2. ASSUME NEW i \in DOMAIN payments, RevertRead(p, i) PROVE Moves(p)
  <2>1. LocTyped("revertTxn", [payment |-> i], DOMAIN payments)
    BY DEF LocTyped
  <2>2. Allows(p, "revertTxn")
    BY <1>2 DEF RevertRead, Idle, Allows
  <2>3. Goto(p, "revertTxn", [payment |-> i])
    BY <1>2 DEF RevertRead
  <2> QED
    BY <2>1, <2>2, <2>3 DEF Moves
<1>3. ASSUME PayTxn(p) \/ PayGone(p) \/ RevertTxn(p) \/ RevertAgain(p) PROVE Moves(p)
  BY <1>3, FinishMoves DEF PayTxn, PayGone, RevertTxn, RevertTo, RevertAgain
<1>4. ASSUME NEW a \in Amounts, Waterfall(p, a) PROVE Moves(p)
  BY <1>4 DEF Waterfall, Moves
<1>5. ASSUME NEW prev \in Selections(Fees), NEW c \in Fees, NEW line \in HeadSelections,
             NEW alloc \in Asked(line),
             Allocate(p, prev, c, line, alloc) \/ FamilyAllocate(p, prev, c, line, alloc)
      PROVE  Moves(p)
  BY <1>5 DEF Allocate, FamilyAllocate, Moves
<1>6. ASSUME NEW batch \in Selections(Fees), FamilyPay(p, batch) PROVE Moves(p)
  BY <1>6 DEF FamilyPay, Moves
<1> QED
  BY <1>1, <1>2, <1>3, <1>4, <1>5, <1>6 DEF PaymentNext

LEMMA FeeMoves ==
    ASSUME Typed, NEW p \in Requests, FeeNext(p)
    PROVE  Moves(p)
<1> DEFINE l == loc[p]
<1>0. LocTyped(pc[p], l, DOMAIN payments) /\ (pc[p] # "idle" => p \in scene.staff)
  BY RunningTyped
<1>1. ASSUME NEW f \in Fees, AddExtraRead(p, f) PROVE Moves(p)
  <2> DEFINE m == [fee |-> f, gen |-> fee[f].gen, total |-> fee[f].total, paid |-> fee[f].paid]
  <2>1. LocTyped("addExtra", m, DOMAIN payments)
    BY MonthTyped DEF LocTyped
  <2>2. Goto(p, "addExtra", m) /\ Allows(p, "addExtra")
    BY <1>1 DEF AddExtraRead, Idle, Allows
  <2> QED
    BY <2>1, <2>2 DEF Moves
<1>2. ASSUME NEW e \in ExtraIds, AddExtraInsert(p, e) PROVE Moves(p)
  <2>1. LocTyped("sumExtra", l, DOMAIN payments)
    BY <1>0, <1>2 DEF LocTyped, AddExtraInsert
  <2>2. Goto(p, "sumExtra", l) /\ Allows(p, "sumExtra")
    BY <1>0, <1>2 DEF AddExtraInsert, Allows
  <2> QED
    BY <2>1, <2>2 DEF Moves
<1>3. ASSUME AddExtraFails(p) \/ WriteStatus(p) \/ UpdateWrite(p) \/ RecalculateWrite(p) \/ CarryTxn(p)
               \/ CarryFails(p) \/ (\E b \in scene.breakdowns : GenerateCreate(p, b))
      PROVE  Moves(p)
  BY <1>3, FinishMoves DEF AddExtraFails, WriteStatus, UpdateWrite, RecalculateWrite, CarryTxn,
                           CarryTo, CarryFails, GenerateCreate
<1>4. ASSUME AddExtraSum(p) PROVE Moves(p)
  <2> DEFINE m == [fee |-> l.fee, gen |-> l.gen, status |-> FeeStatus(l.paid, l.total + ItemSum(l))]
  <2>1. l.fee \in Fees /\ l.gen \in Nat /\ l.total \in Nat /\ l.paid \in Nat
    BY <1>0, <1>4 DEF LocTyped, AddExtraSum
  <2>2. ItemSum(l) \in Nat
    BY <2>1, MonthTyped DEF ItemSum, ExtraSum
  <2>3. m.status \in Statuses
    BY <2>1, <2>2, StatusTypes
  <2>4. LocTyped("writeStatus", m, DOMAIN payments)
    BY <2>1, <2>3 DEF LocTyped
  <2>5. Goto(p, "writeStatus", m) /\ Allows(p, "writeStatus")
    BY <1>0, <1>4 DEF AddExtraSum, Allows
  <2> QED
    BY <2>4, <2>5 DEF Moves
<1>5. ASSUME NEW f \in Fees, NEW e \in ExtraIds, DeleteExtra(p, f, e) PROVE Moves(p)
  <2>1. LocTyped("sumLeft", Id(f), DOMAIN payments)
    BY MonthTyped DEF LocTyped, Id, MonthLoc
  <2>2. Goto(p, "sumLeft", Id(f)) /\ Allows(p, "sumLeft")
    BY <1>5 DEF DeleteExtra, Idle, Allows
  <2> QED
    BY <2>1, <2>2 DEF Moves
<1>6. ASSUME DeleteExtraSum(p) PROVE Moves(p)
  <2> DEFINE m == [fee |-> l.fee, gen |-> l.gen, extra |-> ItemSum(l)]
  <2>1. l.fee \in Fees /\ l.gen \in Nat
    BY <1>0, <1>6 DEF LocTyped, DeleteExtraSum, MonthLoc
  <2>2. ItemSum(l) \in Nat
    BY <2>1, MonthTyped DEF ItemSum, ExtraSum
  <2>3. LocTyped("readMonth", m, DOMAIN payments)
    BY <2>1, <2>2 DEF LocTyped
  <2>4. Goto(p, "readMonth", m) /\ Allows(p, "readMonth")
    BY <1>0, <1>6 DEF DeleteExtraSum, Allows
  <2> QED
    BY <2>3, <2>4 DEF Moves
<1>7. ASSUME DeleteExtraRead(p) PROVE Moves(p)
  <2> DEFINE m == [fee |-> l.fee, gen |-> l.gen, status |-> FeeStatus(fee[l.fee].paid, fee[l.fee].total + l.extra)]
  <2>1. l.fee \in Fees /\ l.gen \in Nat /\ l.extra \in Nat
    BY <1>0, <1>7 DEF LocTyped, DeleteExtraRead
  <2>2. m.status \in Statuses
    BY <2>1, MonthTyped, StatusTypes
  <2>3. LocTyped("writeStatus", m, DOMAIN payments)
    BY <2>1, <2>2 DEF LocTyped
  <2>4. Allows(p, "writeStatus")
    BY <1>0, <1>7 DEF DeleteExtraRead, Allows
  <2>5. CASE Found(l)
    BY <1>7, <2>3, <2>4, <2>5 DEF DeleteExtraRead, Moves
  <2>6. CASE ~Found(l)
    BY <1>7, <2>6, FinishMoves DEF DeleteExtraRead
  <2> QED
    BY <2>5, <2>6
<1>8. ASSUME NEW f \in Fees, GenerateRead(p, f) \/ RegenerateRead(p, f) PROVE Moves(p)
  <2>1. LocTyped("create", Id(f), DOMAIN payments) /\ LocTyped("delete", Id(f), DOMAIN payments)
    BY MonthTyped DEF LocTyped, Id, MonthLoc
  <2>2. Allows(p, "create") /\ Allows(p, "delete")
    BY <1>8 DEF GenerateRead, RegenerateRead, Idle, Allows
  <2> QED
    BY <1>8, <2>1, <2>2 DEF GenerateRead, RegenerateRead, Moves
<1>9. ASSUME RegenerateDelete(p) PROVE Moves(p)
  <2>1. LocTyped("create", l, DOMAIN payments)
    BY <1>0, <1>9 DEF LocTyped, RegenerateDelete
  <2>2. Allows(p, "create")
    BY <1>0, <1>9 DEF RegenerateDelete, Allows
  <2>3. Goto(p, "create", l) \/ Finish(p)
    BY <1>9 DEF RegenerateDelete
  <2> QED
    BY <2>1, <2>2, <2>3, FinishMoves DEF Moves
<1>10. ASSUME NEW f \in Fees, NEW b \in scene.breakdowns, UpdateRead(p, f, b) PROVE Moves(p)
  <2> DEFINE m == [fee |-> f, gen |-> fee[f].gen, heads |-> b,
                   status |-> FeeStatus(fee[f].paid, HeadSum(b) + ExtraSum(f))]
  <2>1. b \in Prices
    BY <1>10, ScenePrices DEF Prices, UpdateRead
  <2>2. m.status \in Statuses
    BY MonthTyped, ScenePrices, StatusTypes
  <2>3. LocTyped("updateWrite", m, DOMAIN payments)
    BY <2>1, <2>2, MonthTyped DEF LocTyped
  <2>4. Goto(p, "updateWrite", m) /\ Allows(p, "updateWrite")
    BY <1>10 DEF UpdateRead, Idle, Allows
  <2> QED
    BY <2>3, <2>4 DEF Moves
<1>11. ASSUME NEW f \in Fees, NEW b \in scene.breakdowns, RecalculateRead(p, f, b) PROVE Moves(p)
  <2> DEFINE m == [fee |-> f, gen |-> fee[f].gen, heads |-> b]
  <2>1. b \in Prices
    BY <1>11, ScenePrices DEF Prices, RecalculateRead
  <2>2. LocTyped("recalcWrite", m, DOMAIN payments)
    BY <2>1, MonthTyped DEF LocTyped
  <2>3. Goto(p, "recalcWrite", m) /\ Allows(p, "recalcWrite")
    BY <1>11 DEF RecalculateRead, Idle, Allows
  <2> QED
    BY <2>2, <2>3 DEF Moves
<1>12. ASSUME NEW from \in Fees, NEW to \in Fees, CarryRead(p, from, to) PROVE Moves(p)
  <2> DEFINE m == [fee |-> to, gen |-> fee[to].gen, from |-> Id(from), net |-> fee[to].net,
                   amount |-> fee[from].net - fee[from].paid]
  <2>1. fee[from].net - fee[from].paid \in Nat
    <3>1. fee[from].net > fee[from].paid
      BY <1>12 DEF CarryRead
    <3> QED
      BY <3>1, MonthTyped
  <2>2. LocTyped("carryTxn", m, DOMAIN payments)
    <3>1. Id(from) \in [fee : scene.archived, gen : Nat]
      BY <1>12, MonthTyped DEF CarryRead, Id
    <3> QED
      BY <2>1, <3>1, MonthTyped DEF LocTyped
  <2>3. Goto(p, "carryTxn", m) /\ Allows(p, "carryTxn")
    BY <1>12 DEF CarryRead, Idle, Allows
  <2> QED
    BY <2>2, <2>3 DEF Moves
<1> QED
  BY <1>1, <1>2, <1>3, <1>4, <1>5, <1>6, <1>7, <1>8, <1>9, <1>10, <1>11, <1>12 DEF FeeNext

-----------------------------------------------------------------------------
(* The actions that leave the payments alone: each month keeps its row and its *)
(* paidAmount, or its row is created, or deleted when no payment names it.     *)

NoRepricing == {"update", "recalculate"} \cap scene.handlers = {}

\* What a month charges: as before (a carry row goes when its source month goes), one
\* carry more, or a new price.
SamePrice(f) ==
    /\ fee'[f].net = fee[f].net /\ fee'[f].total = fee[f].total
    /\ \A g \in Fees : carries'[f][g] = carries[f][g] \/ (carries'[f][g] = 0 /\ ~fee'[g].exists)
OneCarryMore(f) ==
    /\ "carry" \in scene.handlers
    /\ fee'[f].total = fee[f].total
    /\ \E g \in Fees, n \in Nat :
         /\ g \in scene.archived /\ carries'[f] = [carries[f] EXCEPT ![g] = carries[f][g] + n]
         /\ fee'[f].net = fee[f].net + n
NewPrice(f) ==
    /\ ~NoRepricing
    /\ carries'[f] = carries[f]
    /\ fee'[f].net = fee'[f].total /\ fee'[f].total > 0

Kept(f) ==
    /\ fee'[f].exists = fee[f].exists /\ fee'[f].paid = fee[f].paid /\ fee'[f].gen = fee[f].gen
    /\ ~fee[f].exists => extras'[f] \subseteq extras[f]
    /\ SamePrice(f) \/ (fee[f].exists /\ (OneCarryMore(f) \/ NewPrice(f)))
Created(f) ==
    /\ ~fee[f].exists /\ extras'[f] = extras[f] /\ carries'[f] = carries[f]
    /\ \E b \in Prices, g \in Nat \ {0} : fee'[f] = Row(b, g)
Deleted(f) ==
    Deletable(f) /\ fee'[f] = NoRow(fee[f].gen) /\ extras'[f] = {} /\ carries'[f] = NoCarry

Edits ==
    /\ payments' = payments
    /\ fee' \in [Fees -> RowType] /\ extras' \in [Fees -> SUBSET ExtraIds]
    /\ usedIds' \subseteq ExtraIds /\ carries' \in [Fees -> [Fees -> Nat]]
    /\ \A f \in Fees : Kept(f) \/ Created(f) \/ Deleted(f)

\* A waterfall, a selection or a batch is one step of a request that was not running.
LEMMA BatchesIdle ==
    ASSUME NEW p \in Requests
    PROVE  /\ \A a \in Amounts : Waterfall(p, a) => Idle(p, "waterfall") /\ StillIdle
           /\ \A batch \in Selections(Fees) : FamilyPay(p, batch) => Idle(p, "familyPay") /\ StillIdle
           /\ \A prev \in Selections(Fees), c \in Fees, line \in HeadSelections : \A alloc \in Asked(line) :
                /\ Allocate(p, prev, c, line, alloc) => Idle(p, "allocate") /\ StillIdle
                /\ FamilyAllocate(p, prev, c, line, alloc) => Idle(p, "familyAllocate") /\ StillIdle
<1>1. ASSUME NEW a \in Amounts, Waterfall(p, a) PROVE Idle(p, "waterfall") /\ StillIdle
  BY <1>1 DEF Waterfall
<1>2. ASSUME NEW batch \in Selections(Fees), FamilyPay(p, batch) PROVE Idle(p, "familyPay") /\ StillIdle
  BY <1>2 DEF FamilyPay
<1>3. ASSUME NEW prev \in Selections(Fees), NEW c \in Fees, NEW line \in HeadSelections, NEW alloc \in Asked(line),
             Allocate(p, prev, c, line, alloc)
      PROVE  Idle(p, "allocate") /\ StillIdle
  BY <1>3 DEF Allocate
<1>4. ASSUME NEW prev \in Selections(Fees), NEW c \in Fees, NEW line \in HeadSelections, NEW alloc \in Asked(line),
             FamilyAllocate(p, prev, c, line, alloc)
      PROVE  Idle(p, "familyAllocate") /\ StillIdle
  BY <1>4 DEF FamilyAllocate
<1> QED
  BY <1>1, <1>2, <1>3, <1>4

LEMMA UnchangedEdits == ASSUME Typed, UNCHANGED ledger PROVE Edits
<1>1. /\ fee' = fee /\ extras' = extras /\ usedIds' = usedIds /\ payments' = payments /\ carries' = carries
  BY DEF ledger
<1>2. \A f \in Fees : Kept(f)
  BY <1>1 DEF Kept, SamePrice
<1> QED
  BY <1>1, <1>2 DEF Edits, Typed, TypeOK

LEMMA RowTyped ==
    ASSUME NEW b \in Prices, NEW g \in Nat
    PROVE  /\ Row(b, g) \in RowType /\ HeadSum(b) \in Nat /\ HeadSum(b) > 0 /\ b \in [Heads -> Nat]
           /\ NoRow(g) \in RowType
<1>1. b \in [Heads -> Nat] /\ HeadSum(b) > 0
  BY AmountsAssumption DEF Prices
<1>2. HeadSum(b) \in Nat
  BY <1>1, HeadSumNat
<1>3. \A n \in Nat : [exists |-> TRUE, gen |-> g, heads |-> b, total |-> n, net |-> n, paid |-> 0,
                      status |-> "UNPAID"] \in RowType
  BY <1>1 DEF RowType, Statuses
<1>4. NoRow(g) \in RowType
  BY DEF NoRow, RowType, Statuses
<1> QED
  BY <1>1, <1>2, <1>3, <1>4 DEF Row

LEMMA WriteStatusEdits ==
    ASSUME Typed, NEW p \in Requests, WriteStatus(p)
    PROVE  Edits
<1> DEFINE l == loc[p]
           f == l.fee
<1>0. fee \in [Fees -> RowType] /\ extras \in [Fees -> SUBSET ExtraIds] /\ carries \in [Fees -> [Fees -> Nat]]
      /\ usedIds \subseteq ExtraIds
  BY DEF Typed, TypeOK
<1>1. l.fee \in Fees /\ l.status \in Statuses
  BY RunningTyped DEF WriteStatus, LocTyped
<1>2. /\ fee' = IF Found(l) THEN [fee EXCEPT ![l.fee].status = l.status] ELSE fee
      /\ UNCHANGED <<extras, usedIds, payments, carries>>
  BY DEF WriteStatus
<1> HIDE DEF l
<1>3. CASE Found(l)
  <2> DEFINE s == l.status
  <2>1. fee' = [fee EXCEPT ![f].status = s]
    BY <1>2, <1>3
  <2> HIDE DEF s, f
  <2>2. f \in Fees /\ fee[f] \in RowType /\ s \in Statuses
    BY <1>0, <1>1 DEF f, s
  <2>3. fee'[f] = [fee[f] EXCEPT !.status = s] /\ \A g \in Fees : g # f => fee'[g] = fee[g]
    BY <1>0, <2>1, <2>2
  <2>4. fee' \in [Fees -> RowType]
    BY <1>0, <2>1, <2>2 DEF RowType
  <2>5. Kept(f)
    BY <1>2, <2>2, <2>3 DEF Kept, SamePrice, RowType
  <2>6. \A g \in Fees : Kept(g) \/ Created(g) \/ Deleted(g)
    BY <1>2, <2>3, <2>5 DEF Kept, SamePrice
  <2> QED
    BY <1>0, <1>2, <2>4, <2>6 DEF Edits
<1>4. CASE ~Found(l)
  BY <1>2, <1>4, UnchangedEdits DEF ledger
<1> QED
  BY <1>3, <1>4

LEMMA AddExtraInsertEdits ==
    ASSUME Typed, NEW p \in Requests, NEW e \in ExtraIds, AddExtraInsert(p, e)
    PROVE  Edits
<1> DEFINE f == loc[p].fee
<1>0. fee \in [Fees -> RowType] /\ extras \in [Fees -> SUBSET ExtraIds] /\ carries \in [Fees -> [Fees -> Nat]]
      /\ usedIds \subseteq ExtraIds
  BY DEF Typed, TypeOK
<1>1. f \in Fees
  BY RunningTyped DEF AddExtraInsert, LocTyped
<1>2. /\ extras' = [extras EXCEPT ![f] = @ \cup {e}] /\ usedIds' = usedIds \cup {e} /\ fee[f].exists
      /\ UNCHANGED <<fee, payments, carries>>
  BY DEF AddExtraInsert, Found
<1> HIDE DEF f
<1>3. extras' \in [Fees -> SUBSET ExtraIds] /\ \A g \in Fees : g # f => extras'[g] = extras[g]
  BY <1>0, <1>1, <1>2
<1>4. \A g \in Fees : Kept(g)
  BY <1>2, <1>3 DEF Kept, SamePrice
<1> QED
  BY <1>0, <1>2, <1>3, <1>4 DEF Edits

LEMMA DeleteExtraEdits ==
    ASSUME Typed, NEW p \in Requests, NEW f \in Fees, NEW e \in ExtraIds, DeleteExtra(p, f, e)
    PROVE  Edits
<1>0. fee \in [Fees -> RowType] /\ extras \in [Fees -> SUBSET ExtraIds] /\ carries \in [Fees -> [Fees -> Nat]]
      /\ usedIds \subseteq ExtraIds
  BY DEF Typed, TypeOK
<1>1. extras' = [extras EXCEPT ![f] = @ \ {e}] /\ UNCHANGED <<fee, usedIds, payments, carries>>
  BY DEF DeleteExtra
<1>2. extras' \in [Fees -> SUBSET ExtraIds] /\ \A g \in Fees : extras'[g] \subseteq extras[g]
  BY <1>0, <1>1
<1>3. \A g \in Fees : Kept(g)
  BY <1>1, <1>2 DEF Kept, SamePrice
<1> QED
  BY <1>0, <1>1, <1>2, <1>3 DEF Edits

LEMMA GenerateCreateEdits ==
    ASSUME Typed, NEW p \in Requests, NEW b \in scene.breakdowns, GenerateCreate(p, b)
    PROVE  Edits
<1> DEFINE f == loc[p].fee
           g == fee[f].gen + 1
<1>0. fee \in [Fees -> RowType] /\ extras \in [Fees -> SUBSET ExtraIds] /\ carries \in [Fees -> [Fees -> Nat]]
      /\ usedIds \subseteq ExtraIds
  BY DEF Typed, TypeOK
<1>1. f \in Fees
  BY RunningTyped DEF GenerateCreate, LocTyped, MonthLoc
<1>2. /\ fee' = IF ~fee[f].exists /\ HeadSum(b) > 0 THEN [fee EXCEPT ![f] = Row(b, g)] ELSE fee
      /\ UNCHANGED <<extras, usedIds, payments, carries>>
  BY DEF GenerateCreate
<1>3. CASE ~fee[f].exists /\ HeadSum(b) > 0
  <2>1. b \in Prices /\ g \in Nat \ {0}
    BY <1>1, <1>3, ScenePrices, MonthTyped DEF Prices
  <2> HIDE DEF f, g
  <2>2. Row(b, g) \in RowType
    BY <2>1, RowTyped
  <2> DEFINE row == Row(b, g)
  <2> HIDE DEF row
  <2>3. fee' = [fee EXCEPT ![f] = row] /\ row \in RowType
    BY <1>2, <1>3, <2>2 DEF row
  <2>4. fee' \in [Fees -> RowType] /\ fee'[f] = row /\ \A h \in Fees : h # f => fee'[h] = fee[h]
    BY <1>0, <1>1, <2>3
  <2>5. Created(f)
    BY <1>1, <1>2, <1>3, <2>1, <2>4 DEF Created, row
  <2>6. \A h \in Fees : Kept(h) \/ Created(h) \/ Deleted(h)
    BY <1>2, <2>4, <2>5 DEF Kept, SamePrice
  <2> QED
    BY <1>0, <1>2, <2>4, <2>6 DEF Edits
<1>4. CASE ~(~fee[f].exists /\ HeadSum(b) > 0)
  BY <1>2, <1>4, UnchangedEdits DEF ledger
<1> QED
  BY <1>3, <1>4

LEMMA RegenerateDeleteEdits ==
    ASSUME Typed, NEW p \in Requests, RegenerateDelete(p)
    PROVE  Edits
<1> DEFINE f == loc[p].fee
           row == NoRow(fee[f].gen)
<1>0. fee \in [Fees -> RowType] /\ extras \in [Fees -> SUBSET ExtraIds] /\ carries \in [Fees -> [Fees -> Nat]]
      /\ usedIds \subseteq ExtraIds
  BY DEF Typed, TypeOK
<1>1. f \in Fees
  BY RunningTyped DEF RegenerateDelete, LocTyped, MonthLoc
<1>2. CASE Found(loc[p]) /\ Deletable(f)
  <2>1. /\ fee' = [fee EXCEPT ![f] = row]
        /\ extras' = [extras EXCEPT ![f] = {}]
        /\ carries' = [g \in Fees |-> [h \in Fees |-> IF f \in {g, h} THEN 0 ELSE carries[g][h]]]
        /\ UNCHANGED <<usedIds, payments>>
    BY <1>2 DEF RegenerateDelete
  <2>2. row \in RowType
    BY <1>1, MonthTyped DEF NoRow, RowType, Statuses
  <2>3. row = NoRow(fee[f].gen)
    OBVIOUS
  <2> HIDE DEF f, row
  <2>4. /\ fee' \in [Fees -> RowType] /\ fee'[f] = row
        /\ extras' \in [Fees -> SUBSET ExtraIds] /\ extras'[f] = {}
        /\ \A g \in Fees : g # f => fee'[g] = fee[g] /\ extras'[g] = extras[g]
    BY <1>0, <1>1, <2>1, <2>2
  <2>5. /\ carries' \in [Fees -> [Fees -> Nat]] /\ carries'[f] = NoCarry
        /\ \A g, h \in Fees : g # f => carries'[g][h] = IF h = f THEN 0 ELSE carries[g][h]
    BY <1>0, <1>1, <2>1 DEF NoCarry
  <2>6. Deleted(f) /\ ~fee'[f].exists
    BY <1>2, <2>3, <2>4, <2>5 DEF Deleted, NoRow
  <2>7. \A g \in Fees : Kept(g) \/ Created(g) \/ Deleted(g)
    <3> SUFFICES ASSUME NEW g \in Fees, g # f PROVE Kept(g)
      BY <2>6
    <3>1. SamePrice(g)
      BY <2>4, <2>5, <2>6 DEF SamePrice
    <3> QED
      BY <2>4, <3>1 DEF Kept
  <2> QED
    BY <1>0, <2>1, <2>4, <2>5, <2>7 DEF Edits
<1>3. CASE ~(Found(loc[p]) /\ Deletable(f))
  <2>1. UNCHANGED ledger
    BY <1>3 DEF RegenerateDelete, ledger
  <2> QED
    BY <2>1, UnchangedEdits
<1> QED
  BY <1>2, <1>3

\* A repriced month: total and net become the sum of the new heads.
LEMMA RepricedEdits ==
    ASSUME Typed, NEW f \in Fees, fee[f].exists, NEW b \in Prices, NEW s \in Statuses, ~NoRepricing,
           fee' = [fee EXCEPT ![f].heads = b, ![f].total = HeadSum(b), ![f].net = HeadSum(b), ![f].status = s],
           UNCHANGED <<extras, usedIds, payments, carries>>
    PROVE  Edits
<1> DEFINE n == HeadSum(b)
<1>0. fee \in [Fees -> RowType] /\ extras \in [Fees -> SUBSET ExtraIds] /\ carries \in [Fees -> [Fees -> Nat]]
      /\ usedIds \subseteq ExtraIds
  BY DEF Typed, TypeOK
<1>1. n \in Nat /\ n > 0 /\ b \in [Heads -> Nat]
  <2>1. 0 \in Nat
    OBVIOUS
  <2> QED
    BY <2>1, RowTyped
<1>2. fee' = [fee EXCEPT ![f].heads = b, ![f].total = n, ![f].net = n, ![f].status = s]
  OBVIOUS
<1> HIDE DEF n
<1>3. /\ fee'[f] = [fee[f] EXCEPT !.heads = b, !.total = n, !.net = n, !.status = s]
      /\ \A g \in Fees : g # f => fee'[g] = fee[g]
  BY <1>0, <1>2
<1>4. fee[f] \in RowType
  BY <1>0
<1>5. fee'[f] \in RowType /\ fee'[f].exists = fee[f].exists /\ fee'[f].paid = fee[f].paid
      /\ fee'[f].net = n /\ fee'[f].total = n /\ fee'[f].gen = fee[f].gen
  <2> DEFINE r == [fee[f] EXCEPT !.heads = b, !.total = n, !.net = n, !.status = s]
  <2>1. r \in RowType
    BY <1>1, <1>4 DEF RowType
  <2>2. r.exists = fee[f].exists /\ r.paid = fee[f].paid /\ r.net = n /\ r.total = n /\ r.gen = fee[f].gen
    BY <1>4 DEF RowType
  <2>3. fee'[f] = r
    BY <1>3
  <2> HIDE DEF r
  <2> QED
    BY <2>1, <2>2, <2>3
<1>6. fee' \in [Fees -> RowType]
  <2>1. DOMAIN fee' = Fees /\ fee' = [g \in Fees |-> fee'[g]]
    BY <1>0, <1>2
  <2> QED
    BY <1>0, <1>3, <1>5, <2>1
<1>7. Kept(f)
  BY <1>1, <1>5 DEF Kept, NewPrice
<1>8. \A g \in Fees : Kept(g) \/ Created(g) \/ Deleted(g)
  BY <1>3, <1>7 DEF Kept, SamePrice
<1> QED
  BY <1>0, <1>6, <1>8 DEF Edits

LEMMA RepriceEdits ==
    ASSUME Typed, NEW p \in Requests, UpdateWrite(p) \/ RecalculateWrite(p)
    PROVE  Edits
<1> DEFINE l == loc[p]
<1>0. /\ l.fee \in Fees /\ l.heads \in Prices /\ (pc[p] = "updateWrite" => l.status \in Statuses)
      /\ ~NoRepricing
  BY RunningTyped DEF Typed, InScene, Allows, UpdateWrite, RecalculateWrite, LocTyped, NoRepricing
<1>1. UNCHANGED <<extras, usedIds, payments, carries>>
  BY DEF UpdateWrite, RecalculateWrite
<1>2. CASE ~Found(l)
  <2>1. UNCHANGED ledger
    BY <1>2 DEF UpdateWrite, RecalculateWrite, ledger
  <2> QED
    BY <2>1, UnchangedEdits
<1>3. CASE Found(l) /\ UpdateWrite(p)
  <2> DEFINE f == l.fee
             b == l.heads
             s == l.status
  <2>1. fee' = [fee EXCEPT ![f].heads = b, ![f].total = HeadSum(b), ![f].net = HeadSum(b), ![f].status = s]
        /\ s \in Statuses /\ fee[f].exists
    BY <1>0, <1>3 DEF UpdateWrite, Found
  <2> HIDE DEF f, b, s
  <2>2. f \in Fees /\ b \in Prices
    BY <1>0 DEF f, b
  <2> QED
    BY <1>0, <1>1, <2>1, <2>2, RepricedEdits
<1>4. CASE Found(l) /\ RecalculateWrite(p)
  <2> DEFINE f == l.fee
             b == l.heads
             s == fee[f].status
  <2>1. fee' = [fee EXCEPT ![f].heads = b, ![f].total = HeadSum(b), ![f].net = HeadSum(b)]
        /\ fee[f].exists
    BY <1>4 DEF RecalculateWrite, Found
  <2>2. f \in Fees /\ b \in Prices /\ s \in Statuses
    BY <1>0 DEF Typed, TypeOK, RowType
  <2>3. fee' = [fee EXCEPT ![f].heads = b, ![f].total = HeadSum(b), ![f].net = HeadSum(b), ![f].status = s]
    <3>1. fee \in [Fees -> RowType]
      BY DEF Typed, TypeOK
    <3> HIDE DEF f, b
    <3> QED
      BY <2>1, <2>2, <3>1 DEF RowType
  <2> HIDE DEF f, b, s
  <2> QED
    BY <1>0, <1>1, <2>1, <2>2, <2>3, RepricedEdits
<1> QED
  BY <1>2, <1>3, <1>4

LEMMA CarryTxnEdits ==
    ASSUME Typed, NEW p \in Requests, CarryTxn(p)
    PROVE  Edits
<1> DEFINE f == loc[p].fee
           g == loc[p].from.fee
           n == loc[p].amount
<1>0. fee \in [Fees -> RowType] /\ extras \in [Fees -> SUBSET ExtraIds] /\ carries \in [Fees -> [Fees -> Nat]]
      /\ usedIds \subseteq ExtraIds
  BY DEF Typed, TypeOK
<1>1. f \in Fees /\ g \in Fees /\ g \in scene.archived /\ n \in Nat /\ "carry" \in scene.handlers
  <2>1. f \in Fees /\ g \in scene.archived /\ n \in Nat /\ "carry" \in scene.handlers
    BY RunningTyped DEF Typed, InScene, Allows, CarryTxn, CarryTo, LocTyped
  <2> QED
    BY <2>1, ArchivedMonths
<1>2. /\ carries' = [carries EXCEPT ![f][g] = @ + n]
      /\ fee' = [fee EXCEPT ![f].net = fee[f].net + n]
      /\ fee[f].exists
      /\ UNCHANGED <<extras, usedIds, payments>>
  BY DEF CarryTxn, CarryTo, Linked, Found
<1> HIDE DEF f, g, n
<1>3. /\ carries'[f] = [carries[f] EXCEPT ![g] = carries[f][g] + n]
      /\ \A h \in Fees : h # f => carries'[h] = carries[h]
      /\ carries' \in [Fees -> [Fees -> Nat]]
  <2> DEFINE cs == [carries[f] EXCEPT ![g] = carries[f][g] + n]
  <2>1. cs \in [Fees -> Nat]
    <3>1. carries[f] \in [Fees -> Nat] /\ carries[f][g] + n \in Nat
      BY <1>0, <1>1
    <3> QED
      BY <1>1, <3>1
  <2>2. carries' = [carries EXCEPT ![f] = cs]
    BY <1>0, <1>1, <1>2
  <2> HIDE DEF cs
  <2>3. carries'[f] = cs /\ (\A h \in Fees : h # f => carries'[h] = carries[h]) /\ carries' \in [Fees -> [Fees -> Nat]]
    BY <1>0, <1>1, <2>1, <2>2
  <2> QED
    BY <2>3 DEF cs
<1>4. fee[f] \in RowType /\ fee[f].net + n \in Nat
  BY <1>0, <1>1 DEF RowType
<1> DEFINE m == fee[f].net + n
<1>5. fee' = [fee EXCEPT ![f].net = m]
  BY <1>2
<1> HIDE DEF m
<1>6. fee'[f] = [fee[f] EXCEPT !.net = m] /\ \A h \in Fees : h # f => fee'[h] = fee[h]
  BY <1>0, <1>1, <1>5
<1>7. fee'[f].exists = fee[f].exists /\ fee'[f].paid = fee[f].paid /\ fee'[f].gen = fee[f].gen /\ fee'[f].total = fee[f].total /\ fee'[f].net = m
  BY <1>4, <1>6 DEF RowType
<1>8. fee' \in [Fees -> RowType]
  BY <1>0, <1>1, <1>4, <1>5 DEF RowType, m
<1>9. OneCarryMore(f)
  BY <1>1, <1>3, <1>7 DEF OneCarryMore, m
<1>10. Kept(f)
  BY <1>2, <1>7, <1>9 DEF Kept
<1>11. \A h \in Fees : Kept(h) \/ Created(h) \/ Deleted(h)
  BY <1>2, <1>3, <1>6, <1>10 DEF Kept, SamePrice
<1> QED
  BY <1>0, <1>2, <1>3, <1>8, <1>11 DEF Edits

-----------------------------------------------------------------------------
(* Every step is of one of the three kinds, and keeps the types.            *)

LEMMA PaymentKinds ==
    ASSUME Typed, NEW p \in Requests, PaymentNext(p)
    PROVE  Receives \/ Reverts \/ Edits
<1>1. ASSUME NEW f \in Fees, NEW a \in Amounts, PayRead(p, f, a) PROVE Edits
  BY <1>1, UnchangedEdits DEF PayRead
<1>2. ASSUME PayGone(p) \/ RevertAgain(p) PROVE Edits
  BY <1>2, UnchangedEdits DEF PayGone, RevertAgain
<1>3. ASSUME NEW i \in DOMAIN payments, RevertRead(p, i) PROVE Edits
  BY <1>3, UnchangedEdits DEF RevertRead
<1>4. ASSUME NEW prev \in Selections(Fees), NEW c \in Fees, NEW line \in HeadSelections,
             NEW alloc \in Asked(line),
             Allocate(p, prev, c, line, alloc) \/ FamilyAllocate(p, prev, c, line, alloc)
      PROVE  Receives
  BY <1>4, AllocateReceives, FamilyAllocateReceives
<1>5. ASSUME NEW batch \in Selections(Fees), FamilyPay(p, batch) PROVE Receives
  BY <1>5, FamilyPayReceives
<1>6. ASSUME NEW a \in Amounts, Waterfall(p, a) PROVE Receives
  BY <1>6, WaterfallReceives
<1>7. PayTxn(p) => Receives
  BY PayTxnReceives
<1>8. RevertTxn(p) => Reverts
  BY RevertTxnReverts
<1> QED
  BY <1>1, <1>2, <1>3, <1>4, <1>5, <1>6, <1>7, <1>8 DEF PaymentNext

LEMMA FeeKinds ==
    ASSUME Typed, NEW p \in Requests, FeeNext(p)
    PROVE  Edits
<1>1. ASSUME NEW f \in Fees, AddExtraRead(p, f) \/ GenerateRead(p, f) \/ RegenerateRead(p, f) PROVE Edits
  BY <1>1, UnchangedEdits DEF AddExtraRead, GenerateRead, RegenerateRead
<1>2. ASSUME NEW f \in Fees, NEW b \in scene.breakdowns, UpdateRead(p, f, b) \/ RecalculateRead(p, f, b)
      PROVE  Edits
  BY <1>2, UnchangedEdits DEF UpdateRead, RecalculateRead
<1>3. ASSUME NEW from \in Fees, NEW to \in Fees, CarryRead(p, from, to) PROVE Edits
  BY <1>3, UnchangedEdits DEF CarryRead
<1>4. ASSUME AddExtraFails(p) \/ AddExtraSum(p) \/ DeleteExtraSum(p) \/ DeleteExtraRead(p) \/ CarryFails(p)
      PROVE  Edits
  BY <1>4, UnchangedEdits DEF AddExtraFails, AddExtraSum, DeleteExtraSum, DeleteExtraRead, CarryFails
<1>5. ASSUME NEW e \in ExtraIds, AddExtraInsert(p, e) PROVE Edits
  BY <1>5, AddExtraInsertEdits
<1>6. ASSUME NEW f \in Fees, NEW e \in ExtraIds, DeleteExtra(p, f, e) PROVE Edits
  BY <1>6, DeleteExtraEdits
<1>7. ASSUME NEW b \in scene.breakdowns, GenerateCreate(p, b) PROVE Edits
  BY <1>7, GenerateCreateEdits
<1>8. ASSUME WriteStatus(p) \/ RegenerateDelete(p) \/ UpdateWrite(p) \/ RecalculateWrite(p) \/ CarryTxn(p)
      PROVE  Edits
  BY <1>8, WriteStatusEdits, RegenerateDeleteEdits, RepriceEdits, CarryTxnEdits
<1> QED
  BY <1>1, <1>2, <1>3, <1>4, <1>5, <1>6, <1>7, <1>8 DEF FeeNext

\* A payment or a revert leaves what the months charge.
SameBills ==
    /\ \A f \in Fees : /\ fee'[f].exists = fee[f].exists /\ fee'[f].gen = fee[f].gen
                       /\ fee'[f].net = fee[f].net /\ fee'[f].total = fee[f].total
    /\ UNCHANGED <<extras, usedIds, carries>>

LEMMA ReceivesKeeps ==
    ASSUME Typed, Receives
    PROVE  SameBills /\ fee' \in [Fees -> RowType]
<1>1. \A f \in Fees : fee[f] \in RowType
  BY DEF Typed, TypeOK
<1>2. ASSUME NEW f \in Fees
      PROVE  /\ fee'[f].exists = fee[f].exists /\ fee'[f].gen = fee[f].gen
             /\ fee'[f].net = fee[f].net /\ fee'[f].total = fee[f].total
  <2>1. CASE fee'[f] = fee[f]
    BY <2>1
  <2>2. ASSUME NEW n \in Nat, NEW s \in Statuses, fee'[f] = [fee[f] EXCEPT !.paid = n, !.status = s]
        PROVE  /\ fee'[f].exists = fee[f].exists /\ fee'[f].gen = fee[f].gen
               /\ fee'[f].net = fee[f].net /\ fee'[f].total = fee[f].total
    BY <1>1, <2>2 DEF RowType
  <2> QED
    BY <2>1, <2>2 DEF Receives, SomeCredited
<1> QED
  BY <1>2 DEF Receives, SomeCredited, SameBills

LEMMA RevertsKeeps ==
    ASSUME Typed, Reverts
    PROVE  /\ SameBills /\ fee' \in [Fees -> RowType]
           /\ \E i \in DOMAIN payments :
                /\ payments[i].live /\ payments' = Reverted(i) /\ payments[i].fee \in Fees
                /\ fee'[payments[i].fee].paid = LiveSum(payments', payments[i].fee)
                /\ \A f \in Fees : f # payments[i].fee => fee'[f].paid = fee[f].paid
<1>1. PICK i \in DOMAIN payments, s \in Statuses :
        /\ payments[i].live /\ payments' = Reverted(i)
        /\ fee' = [fee EXCEPT ![payments[i].fee].paid = LiveSum(payments', payments[i].fee),
                              ![payments[i].fee].status = s]
        /\ UNCHANGED <<extras, usedIds, carries>>
  BY DEF Reverts
<1> DEFINE f == payments[i].fee
           n == LiveSum(payments', f)
<1>2. f \in Fees
  BY RowsTyped DEF Typed, TypeOK, PaymentType
<1>3. n \in Nat
  <2>1. payments' \in Seq(PaymentType)
    BY <1>1, RevertedSums
  <2> QED
    BY <2>1, SumsNat
<1>4. fee' = [fee EXCEPT ![f].paid = n, ![f].status = s]
  BY <1>1
<1>5. fee \in [Fees -> RowType] /\ fee[f] \in RowType
  BY <1>2 DEF Typed, TypeOK
<1> HIDE DEF f, n
<1>6. fee'[f] = [fee[f] EXCEPT !.paid = n, !.status = s] /\ \A g \in Fees : g # f => fee'[g] = fee[g]
  BY <1>2, <1>4, <1>5
<1>7. fee' \in [Fees -> RowType]
  BY <1>2, <1>3, <1>4, <1>5 DEF RowType
<1>8. /\ fee'[f].exists = fee[f].exists /\ fee'[f].gen = fee[f].gen /\ fee'[f].paid = n
      /\ fee'[f].net = fee[f].net /\ fee'[f].total = fee[f].total
  BY <1>5, <1>6 DEF RowType
<1>9. SameBills
  BY <1>1, <1>6, <1>8 DEF SameBills
<1> QED
  BY <1>1, <1>2, <1>6, <1>7, <1>8, <1>9 DEF f, n

LEMMA StepKinds ==
    ASSUME Typed, [Next]_vars
    PROVE  (Receives \/ Reverts \/ Edits) /\ Typed' /\ scene' = scene
<1>1. CASE UNCHANGED vars
  <2>1. UNCHANGED ledger /\ scene' = scene /\ pc' = pc /\ loc' = loc
    BY <1>1 DEF vars, ledger
  <2>2. Typed'
    <3>1. TypeOK' /\ InScene' /\ LocsTyped'
      BY <2>1 DEF ledger, Typed, TypeOK, LocsTyped, LocTyped, InScene, Allows
    <3> QED
      BY <3>1 DEF Typed
  <2> QED
    BY <2>1, <2>2, UnchangedEdits
<1>2. ASSUME NEW p \in Requests, PaymentNext(p) \/ FeeNext(p)
      PROVE  (Receives \/ Reverts \/ Edits) /\ Typed' /\ scene' = scene
  <2>1. Moves(p)
    BY <1>2, PaymentMoves, FeeMoves
  <2>2. Receives \/ Reverts \/ Edits
    BY <1>2, PaymentKinds, FeeKinds
  <2>3. scene' = scene
    BY <2>1 DEF Moves, StillIdle, Goto
  <2>4. /\ payments' \in Seq(PaymentType) /\ DOMAIN payments \subseteq DOMAIN payments'
        /\ fee' \in [Fees -> RowType] /\ extras' \in [Fees -> SUBSET ExtraIds]
        /\ usedIds' \subseteq ExtraIds /\ carries' \in [Fees -> [Fees -> Nat]]
    <3>0. TypeOK
      BY DEF Typed
    <3>1. CASE Receives
      BY <3>0, <3>1, ReceivesKeeps DEF Receives, Extends, SameBills, TypeOK
    <3>2. CASE Reverts
      <4>1. PICK i \in DOMAIN payments : payments' = Reverted(i)
        BY <3>2 DEF Reverts
      <4>2. payments' \in Seq(PaymentType) /\ DOMAIN payments' = DOMAIN payments
        BY <4>1, RevertedSums
      <4> QED
        BY <3>0, <3>2, <4>2, RevertsKeeps DEF SameBills, TypeOK
    <3>3. CASE Edits
      BY <3>0, <3>3 DEF Edits, TypeOK
    <3> QED
      BY <2>2, <3>1, <3>2, <3>3
  <2>5. LocsTyped' /\ InScene' /\ DOMAIN pc' = Requests /\ DOMAIN loc' = Requests
    BY <2>1, <2>4, MovesTyped
  <2>6. Typed'
    BY <2>4, <2>5 DEF Typed, TypeOK
  <2> QED
    BY <2>2, <2>3, <2>6
<1> QED
  BY <1>1, <1>2 DEF Next

-----------------------------------------------------------------------------
(* The payment rows, and what refers to a month.                            *)

LEMMA RowsStep ==
    ASSUME Typed, RowsSound, Receives \/ Reverts \/ Edits
    PROVE  RowsSound'
<1>1. CASE Receives
  <2>1. SameBills
    BY <1>1, ReceivesKeeps
  <2>2. \A i \in DOMAIN payments' : i \in DOMAIN payments => payments'[i] = payments[i]
    BY <1>1 DEF Receives, Extends
  <2>3. \A i \in DOMAIN payments' : i \notin DOMAIN payments => RowNew(payments'[i])
    BY <1>1 DEF Receives
  <2>4. \A i \in DOMAIN payments' : payments'[i] \in PaymentType
    BY <1>1, RowsTyped DEF Receives, Extends
  <2>5. \A i \in DOMAIN payments' : fee'[payments'[i].fee].exists = fee[payments'[i].fee].exists
    BY <2>1, <2>4 DEF SameBills, PaymentType
  <2> QED
    BY <2>2, <2>3, <2>5 DEF RowsSound, RowNew
<1>2. CASE Reverts
  <2>1. PICK i \in DOMAIN payments : payments[i].live /\ payments' = Reverted(i)
    BY <1>2 DEF Reverts
  <2>2. \A j \in DOMAIN payments : payments[j] \in PaymentType
    BY RowsTyped DEF Typed, TypeOK
  <2>3. /\ DOMAIN payments' = DOMAIN payments
        /\ \A j \in DOMAIN payments : j # i => payments'[j] = payments[j]
        /\ payments'[i] = [payments[i] EXCEPT !.live = FALSE, !.allocLive = FALSE, !.reverts = @ + 1]
    BY <2>1, RevertedSums
  <2>4. /\ payments'[i].fee = payments[i].fee /\ payments'[i].amount = payments[i].amount
        /\ payments'[i].alloc = payments[i].alloc /\ payments'[i].live = FALSE
        /\ payments'[i].allocLive = FALSE /\ payments'[i].reverts = payments[i].reverts + 1
    <3> DEFINE r == payments[i]
    <3>1. r \in PaymentType
      BY <2>2
    <3>2. payments'[i] = [r EXCEPT !.live = FALSE, !.allocLive = FALSE, !.reverts = @ + 1]
      BY <2>3
    <3> HIDE DEF r
    <3>3. LET v == [r EXCEPT !.live = FALSE, !.allocLive = FALSE, !.reverts = @ + 1]
          IN  /\ v.fee = r.fee /\ v.amount = r.amount /\ v.alloc = r.alloc
              /\ v.live = FALSE /\ v.allocLive = FALSE /\ v.reverts = r.reverts + 1
      BY <3>1, VoidedTyped
    <3> QED
      BY <3>2, <3>3 DEF r
  <2>5. \A f \in Fees : fee'[f].exists = fee[f].exists
    BY <1>2, RevertsKeeps DEF SameBills
  <2>6. ASSUME NEW j \in DOMAIN payments'
        PROVE  /\ fee'[payments'[j].fee].exists
               /\ payments'[j].allocLive = payments'[j].live
               /\ payments'[j].reverts = IF payments'[j].live THEN 0 ELSE 1
               /\ AllocSum(payments'[j].alloc) <= payments'[j].amount
    <3>0. payments[j].fee \in Fees
      BY <2>2, <2>3 DEF PaymentType
    <3>1. CASE j = i
      <4>1. payments[i].reverts = 0 /\ fee[payments[i].fee].exists
            /\ AllocSum(payments[i].alloc) <= payments[i].amount
        BY <2>1 DEF RowsSound
      <4>2. payments'[i].reverts = 1
        BY <2>4, <4>1
      <4> QED
        BY <2>4, <2>5, <3>0, <3>1, <4>1, <4>2
    <3>2. CASE j # i
      BY <2>3, <2>5, <3>0, <3>2 DEF RowsSound
    <3> QED
      BY <3>1, <3>2
  <2> QED
    BY <2>6 DEF RowsSound
<1>3. CASE Edits
  <2>1. payments' = payments
    BY <1>3 DEF Edits
  <2>2. ASSUME NEW i \in DOMAIN payments PROVE fee'[payments[i].fee].exists
    <3> DEFINE f == payments[i].fee
    <3>1. f \in Fees
      BY RowsTyped DEF Typed, TypeOK, PaymentType
    <3>2. fee[f].exists /\ ~Deletable(f)
      BY DEF RowsSound, Deletable
    <3>3. Kept(f)
      BY <1>3, <3>1, <3>2 DEF Edits, Created, Deleted
    <3> QED
      BY <3>2, <3>3 DEF Kept
  <2> QED
    BY <2>1, <2>2 DEF RowsSound
<1> QED
  BY <1>1, <1>2, <1>3

LEMMA NothingLeftStep ==
    ASSUME Typed, NothingLeft, Receives \/ Reverts \/ Edits
    PROVE  NothingLeft'
<1>1. CASE Receives \/ Reverts
  BY <1>1, ReceivesKeeps, RevertsKeeps DEF SameBills, NothingLeft
<1>2. CASE Edits
  <2> SUFFICES ASSUME NEW f \in Fees, ~fee'[f].exists PROVE extras'[f] = {} /\ carries'[f] = NoCarry
    BY DEF NothingLeft
  <2>1. CASE Kept(f)
    <3>1. extras'[f] = {} /\ carries[f] = NoCarry /\ SamePrice(f)
      BY <2>1 DEF Kept, NothingLeft
    <3>2. carries'[f] \in [Fees -> Nat]
      BY <1>2 DEF Edits
    <3>3. \A g \in Fees : carries'[f][g] = 0
      BY <3>1 DEF SamePrice, NoCarry
    <3> QED
      BY <3>1, <3>2, <3>3 DEF NoCarry
  <2>2. CASE Created(f)
    BY <2>2 DEF Created, Row
  <2>3. CASE Deleted(f)
    BY <2>3 DEF Deleted
  <2> QED
    BY <1>2, <2>1, <2>2, <2>3 DEF Edits
<1> QED
  BY <1>1, <1>2

\* A month that no payment names has received nothing.
LEMMA NothingReceived ==
    ASSUME NEW ps, NEW f, \A i \in DOMAIN ps : ps[i].fee # f
    PROVE  LiveSum(ps, f) = 0
<1>1. {i \in DOMAIN ps : ps[i].fee = f /\ ps[i].live} = {}
  OBVIOUS
<1> QED
  BY <1>1, SumEmpty DEF LiveSum

LEMMA PaidStep ==
    ASSUME Typed, RowsSound, ~DupSelection, PaidIsSum, Receives \/ Reverts \/ Edits
    PROVE  PaidIsSum'
<1> SUFFICES ASSUME NEW f \in Fees PROVE fee'[f].paid = LiveSum(payments', f)
  BY DEF PaidIsSum
<1>0. /\ fee[f].paid = LiveSum(payments, f) /\ fee[f].paid \in Nat /\ payments \in Seq(PaymentType)
  BY MonthTyped DEF PaidIsSum, Typed, TypeOK
<1>1. CASE Receives
  <2>1. fee'[f].paid \in Nat
    BY <1>1, ReceivesKeeps DEF RowType
  <2>2. LiveSum(payments', f) \in Nat
    BY <1>1, SumsNat DEF Receives, Extends
  <2>3. \/ fee'[f].paid = LiveSum(payments', f)
        \/ fee'[f].paid - fee[f].paid = LiveSum(payments', f) - LiveSum(payments, f)
    BY <1>1 DEF Receives
  <2> QED
    BY <1>0, <2>1, <2>2, <2>3
<1>2. CASE Reverts
  <2>1. PICK i \in DOMAIN payments :
          /\ payments[i].live /\ payments' = Reverted(i) /\ payments[i].fee \in Fees
          /\ fee'[payments[i].fee].paid = LiveSum(payments', payments[i].fee)
          /\ \A g \in Fees : g # payments[i].fee => fee'[g].paid = fee[g].paid
    BY <1>2, RevertsKeeps
  <2>2. \A g : g # payments[i].fee => LiveSum(payments', g) = LiveSum(payments, g)
    BY <2>1, RevertedSums
  <2> QED
    BY <1>0, <2>1, <2>2
<1>3. CASE Edits
  <2>0. payments' = payments
    BY <1>3 DEF Edits
  <2>1. CASE Kept(f)
    BY <1>0, <2>0, <2>1 DEF Kept
  <2>2. CASE Created(f)
    <3>1. \A i \in DOMAIN payments : payments[i].fee # f
      BY <2>2 DEF RowsSound, Created
    <3>2. fee'[f].paid = 0
      BY <2>2 DEF Created, Row
    <3> QED
      BY <2>0, <3>1, <3>2, NothingReceived
  <2>3. CASE Deleted(f)
    <3>1. \A i \in DOMAIN payments : payments[i].fee # f
      BY <2>3 DEF Deleted, Deletable
    <3>2. fee'[f].paid = 0
      BY <2>3 DEF Deleted, NoRow
    <3> QED
      BY <2>0, <3>1, <3>2, NothingReceived
  <2> QED
    BY <1>3, <2>1, <2>2, <2>3 DEF Edits
<1> QED
  BY <1>1, <1>2, <1>3

-----------------------------------------------------------------------------
(* The carried arrears.                                                     *)

LEMMA CarriedNat ==
    ASSUME NEW s \in [Fees -> Nat]
    PROVE  SumFunction(s) \in Nat /\ SumFunction(s) = SumFunctionOnSet(s, Fees)
<1>1. DOMAIN s = Fees /\ \A g \in Fees : s[g] \in Nat
  OBVIOUS
<1> QED
  BY <1>1, FeesAssumption, SumNat DEF SumFunction

LEMMA SumOfZeros ==
    ASSUME NEW s, \A g \in Fees : s[g] = 0
    PROVE  SumFunctionOnSet(s, Fees) = 0
<1> DEFINE Good == {T \in SUBSET Fees : SumFunctionOnSet(s, T) = 0}
<1>1. {} \in Good
  BY SumEmpty
<1>2. ASSUME NEW T \in SUBSET Fees, NEW x \in Fees, T \in Good, x \notin T PROVE T \cup {x} \in Good
  <2>1. IsFiniteSet(T)
    BY FeesAssumption, FS_Subset
  <2>2. SumFunctionOnSet(s, T \cup {x}) = SumFunctionOnSet(s, T) + s[x]
    BY <1>2, <2>1, SumAdd
  <2> QED
    BY <1>2, <2>2
<1> HIDE DEF Good
<1>3. Fees \in Good
  BY <1>1, <1>2, FeesAssumption, SetInduction
<1> QED
  BY <1>3 DEF Good

LEMMA SumOfNothing == SumFunction(NoCarry) = 0
<1>1. NoCarry \in [Fees -> Nat] /\ \A g \in Fees : NoCarry[g] = 0
  BY DEF NoCarry
<1>2. SumFunction(NoCarry) = SumFunctionOnSet(NoCarry, Fees)
  BY <1>1, CarriedNat
<1> QED
  BY <1>1, <1>2, SumOfZeros

LEMMA SumOneMore ==
    ASSUME NEW s \in [Fees -> Nat], NEW g \in Fees, NEW n \in Nat
    PROVE  LET t == [s EXCEPT ![g] = s[g] + n]
           IN  SumFunction(t) = SumFunction(s) + n
<1> DEFINE t == [s EXCEPT ![g] = s[g] + n]
           S == Fees \ {g}
<1>1. t \in [Fees -> Nat] /\ t[g] = s[g] + n /\ \A h \in S : t[h] = s[h]
  OBVIOUS
<1>2. IsFiniteSet(S)
  BY FeesAssumption, FS_RemoveElement
<1> HIDE DEF t
<1>3. (\A h \in Fees : s[h] \in Int) /\ (\A h \in Fees : t[h] \in Int)
  BY <1>1
<1>4. \A h \in Fees : SumFunctionOnSet(s, Fees) = s[h] + SumFunctionOnSet(s, Fees \ {h})
  BY <1>3, FeesAssumption, SumPick
<1>5. \A h \in Fees : SumFunctionOnSet(t, Fees) = t[h] + SumFunctionOnSet(t, Fees \ {h})
  BY <1>3, FeesAssumption, SumPick
<1>6. SumFunctionOnSet(t, S) = SumFunctionOnSet(s, S) /\ SumFunctionOnSet(s, S) \in Int
  BY <1>1, <1>2, <1>3, SumSame, SumInt
<1>7. SumFunction(t) = SumFunctionOnSet(t, Fees) /\ SumFunction(s) = SumFunctionOnSet(s, Fees)
  BY <1>1, CarriedNat
<1>8. SumFunction(t) = SumFunction(s) + n
  BY <1>1, <1>3, <1>4, <1>5, <1>6, <1>7
<1> QED
  BY <1>8 DEF t

LEMMA SumOfFewer ==
    ASSUME NEW s \in [Fees -> Nat], NEW t \in [Fees -> Nat], \A g \in Fees : t[g] <= s[g]
    PROVE  SumFunction(t) <= SumFunction(s)
<1>1. \A g \in Fees : s[g] \in Int /\ t[g] \in Int /\ t[g] <= s[g]
  OBVIOUS
<1>2. SumFunctionOnSet(t, Fees) <= SumFunctionOnSet(s, Fees)
  BY <1>1, FeesAssumption, SumLeq
<1> QED
  BY <1>2, CarriedNat

\* A month that still has its first row had it before.
LEMMA SourcesStay == ASSUME Typed, Edits, scene' = scene PROVE SourcesKept' => SourcesKept
<1> SUFFICES ASSUME NEW f \in Fees, fee'[f].exists, fee'[f].gen = 0 PROVE fee[f].exists /\ fee[f].gen = 0
  BY ArchivedMonths DEF SourcesKept
<1>1. ~Deleted(f)
  BY DEF Deleted, NoRow
<1>2. ~Created(f)
  <2> SUFFICES ASSUME NEW b \in Prices, NEW g \in Nat \ {0}, fee'[f] = Row(b, g) PROVE FALSE
    BY DEF Created
  <2>1. fee'[f].gen = g
    BY DEF Row
  <2> QED
    BY <2>1
<1> QED
  BY <1>1, <1>2 DEF Edits, Kept

LEMMA CarriesStep ==
    ASSUME Typed, NothingLeft, FromArchived, CarriesAddUp, scene' = scene, Typed',
           Receives \/ Reverts \/ Edits
    PROVE  FromArchived' /\ CarriesAddUp'
<1>0. carries \in [Fees -> [Fees -> Nat]] /\ carries' \in [Fees -> [Fees -> Nat]]
  BY DEF Typed, TypeOK
<1>1. CASE Receives \/ Reverts
  <2>1. SameBills
    BY <1>1, ReceivesKeeps, RevertsKeeps
  <2>2. carries' = carries /\ \A f \in Fees : Carried(f)' = Carried(f)
    BY <2>1 DEF SameBills, Carried
  <2>3. scene.archived \subseteq Fees
    BY ArchivedMonths
  <2>4. SourcesKept' = SourcesKept
    BY <2>1, <2>3 DEF SameBills, SourcesKept
  <2>5. CarriesAddUp'
    BY <2>1, <2>2, <2>4 DEF SameBills, CarriesAddUp, CarriedStaysCharged
  <2> QED
    BY <2>2, <2>5 DEF FromArchived
<1>2. CASE Edits
  <2>1. FromArchived'
    <3> SUFFICES ASSUME NEW f \in Fees, NEW g \in Fees, carries'[f][g] > 0 PROVE g \in scene.archived
      BY DEF FromArchived
    <3>1. CASE carries'[f][g] = carries[f][g]
      BY <3>1 DEF FromArchived
    <3>2. CASE carries'[f][g] # carries[f][g]
      <4>1. ~SamePrice(f) /\ ~NewPrice(f) /\ ~Created(f)
        BY <3>2 DEF SamePrice, NewPrice, Created
      <4>2. ~Deleted(f)
        BY DEF Deleted, NoCarry
      <4>3. OneCarryMore(f)
        BY <1>2, <4>1, <4>2 DEF Edits, Kept
      <4>4. PICK h \in Fees, n \in Nat : h \in scene.archived /\ carries'[f] = [carries[f] EXCEPT ![h] = carries[f][h] + n]
        BY <4>3 DEF OneCarryMore
      <4>5. h = g
        BY <1>0, <3>2, <4>4
      <4> QED
        BY <4>4, <4>5
    <3> QED
      BY <3>1, <3>2
  <2>2. ASSUME NoRepricing, NEW f \in Fees, fee'[f].exists
        PROVE  /\ fee'[f].net >= fee'[f].total + Carried(f)'
               /\ SourcesKept' => fee'[f].net = fee'[f].total + Carried(f)'
    <3>0. /\ fee[f].exists => fee[f].net >= fee[f].total + Carried(f)
          /\ fee[f].exists /\ SourcesKept => fee[f].net = fee[f].total + Carried(f)
      BY <2>2 DEF CarriesAddUp, CarriedStaysCharged, NoRepricing
    <3>1. /\ carries[f] \in [Fees -> Nat] /\ carries'[f] \in [Fees -> Nat]
          /\ Carried(f) = SumFunction(carries[f]) /\ Carried(f)' = SumFunction(carries'[f])
      BY <1>0 DEF Carried
    <3>2. Carried(f) \in Nat /\ Carried(f)' \in Nat /\ fee[f].net \in Nat /\ fee[f].total \in Nat
      BY <3>1, CarriedNat, MonthTyped
    <3>3. SourcesKept' => SourcesKept
      BY <1>2, SourcesStay
    <3>4. CASE Kept(f)
      <4>1. fee[f].exists /\ ~NewPrice(f)
        BY <2>2, <3>4 DEF Kept, NewPrice
      <4>2. CASE SamePrice(f)
        <5>1. \A g \in Fees : carries'[f][g] <= carries[f][g]
          BY <3>1, <4>2 DEF SamePrice
        <5>2. Carried(f)' <= Carried(f)
          BY <3>1, <5>1, SumOfFewer
        <5>3. SourcesKept' => carries'[f] = carries[f]
          <6> SUFFICES ASSUME SourcesKept', NEW g \in Fees PROVE carries'[f][g] = carries[f][g]
            BY <3>1
          <6>1. CASE g \in scene.archived
            BY <4>2, <6>1, ArchivedMonths DEF SamePrice, SourcesKept
          <6>2. CASE g \notin scene.archived
            <7>1. ~(carries[f][g] > 0)
              BY <6>2 DEF FromArchived
            <7>2. carries[f][g] \in Nat /\ carries'[f][g] \in Nat /\ carries'[f][g] <= carries[f][g]
              BY <3>1, <5>1
            <7> QED
              BY <7>1, <7>2
          <6> QED
            BY <6>1, <6>2
        <5>4. fee'[f].net = fee[f].net /\ fee'[f].total = fee[f].total
          BY <4>2 DEF SamePrice
        <5>5. fee'[f].net >= fee'[f].total + Carried(f)'
          BY <3>0, <3>2, <4>1, <5>2, <5>4
        <5>6. SourcesKept' => fee'[f].net = fee'[f].total + Carried(f)'
          BY <3>0, <3>1, <3>3, <4>1, <5>3, <5>4
        <5> QED
          BY <5>5, <5>6
      <4>3. CASE OneCarryMore(f)
        <5>1. PICK g \in Fees, n \in Nat :
                /\ carries'[f] = [carries[f] EXCEPT ![g] = carries[f][g] + n]
                /\ fee'[f].net = fee[f].net + n
          BY <4>3 DEF OneCarryMore
        <5>2. fee'[f].total = fee[f].total
          BY <4>3 DEF OneCarryMore
        <5>3. Carried(f)' = Carried(f) + n
          BY <3>1, <5>1, SumOneMore
        <5> QED
          BY <3>0, <3>2, <3>3, <4>1, <5>1, <5>2, <5>3
      <4> QED
        BY <3>4, <4>1, <4>2, <4>3 DEF Kept
    <3>5. CASE Created(f)
      <4>1. Carried(f)' = 0
        BY <3>1, <3>5, SumOfNothing DEF Created, NothingLeft
      <4>2. PICK b \in Prices, g \in Nat \ {0} : fee'[f] = Row(b, g)
        BY <3>5 DEF Created
      <4>3. fee'[f].net = HeadSum(b) /\ fee'[f].total = HeadSum(b)
        BY <4>2 DEF Row
      <4>4. HeadSum(b) \in Nat
        BY <4>2, RowTyped
      <4> QED
        BY <4>1, <4>3, <4>4
    <3>6. CASE Deleted(f)
      BY <2>2, <3>6 DEF Deleted, NoRow
    <3> QED
      BY <1>2, <3>4, <3>5, <3>6 DEF Edits
  <2>3. CarriesAddUp'
    BY <2>2 DEF CarriesAddUp, CarriedStaysCharged, NoRepricing
  <2> QED
    BY <2>1, <2>3
<1> QED
  BY <1>1, <1>2

LEMMA ChargedStep ==
    ASSUME Typed, Charged, scene' = scene, Receives \/ Reverts \/ Edits
    PROVE  Charged'
<1> SUFFICES ASSUME NEW f \in Fees, fee'[f].exists
             PROVE  /\ fee'[f].net > 0 /\ fee'[f].total > 0
                    /\ "carry" \notin scene.handlers => fee'[f].net = fee'[f].total
  BY DEF Charged
<1>1. CASE Receives \/ Reverts
  BY <1>1, ReceivesKeeps, RevertsKeeps DEF SameBills, Charged
<1>2. CASE Edits
  <2>1. CASE Kept(f)
    <3>1. fee[f].exists /\ fee[f].net > 0 /\ fee[f].total > 0 /\ fee[f].net \in Nat
      BY <2>1, MonthTyped DEF Kept, Charged
    <3>2. CASE SamePrice(f)
      BY <2>1, <3>1, <3>2 DEF Kept, SamePrice, Charged
    <3>3. CASE OneCarryMore(f)
      BY <3>1, <3>3 DEF OneCarryMore, Charged
    <3>4. CASE NewPrice(f)
      BY <3>4 DEF NewPrice
    <3> QED
      BY <2>1, <3>2, <3>3, <3>4 DEF Kept
  <2>2. CASE Created(f)
    <3>1. PICK b \in Prices, g \in Nat \ {0} : fee'[f] = Row(b, g)
      BY <2>2 DEF Created
    <3> QED
      BY <3>1 DEF Row, Prices
  <2>3. CASE Deleted(f)
    BY <2>3 DEF Deleted, NoRow
  <2> QED
    BY <1>2, <2>1, <2>2, <2>3 DEF Edits
<1> QED
  BY <1>1, <1>2

-----------------------------------------------------------------------------
(* What is allocated of a month is part of what it received.                *)

\* Payment by payment: each allocates at most its amount, over all heads and extras.
LEMMA AllocatedLeqLive ==
    ASSUME Typed, RowsSound, NEW f
    PROVE  SumFunctionOnSet([k \in Keys |-> Allocated(payments, f, k)], Keys) <= LiveSum(payments, f)
<1> DEFINE A == AllocOf(payments, f)
           By(s) == [k \in Keys |-> SumFunctionOnSet(Given(payments, k), s)]
           Good == {s \in SUBSET A : SumFunctionOnSet(By(s), Keys) <= SumFunctionOnSet(Money(payments), s)}
<1>0. payments \in Seq(PaymentType)
  BY DEF Typed, TypeOK
<1>1. /\ IsFiniteSet(A) /\ A \subseteq DOMAIN payments /\ A = LiveOf(payments, f)
      /\ \A i \in A : Money(payments)[i] \in Nat
      /\ \A k \in Keys : \A i \in A : Given(payments, k)[i] \in Nat
  <2>1. A = LiveOf(payments, f)
    BY DEF RowsSound, AllocOf, LiveOf
  <2>2. A \subseteq DOMAIN payments
    BY DEF AllocOf
  <2> QED
    BY <1>0, <2>1, <2>2, RowsTyped
<1>2. \A i \in A : /\ payments[i].alloc \in [Keys -> Nat] /\ Money(payments)[i] = payments[i].amount
                   /\ \A k \in Keys : Given(payments, k)[i] = payments[i].alloc[k]
                   /\ AllocSum(payments[i].alloc) <= payments[i].amount
  BY <1>0, <1>1, RowsTyped DEF PaymentType, Money, Given, RowsSound
<1> HIDE DEF A
<1>a. ASSUME NEW s \in SUBSET A
      PROVE  /\ \A k \in Keys : By(s)[k] \in Nat
             /\ SumFunctionOnSet(By(s), Keys) \in Nat /\ SumFunctionOnSet(Money(payments), s) \in Nat
  <2>1. IsFiniteSet(s)
    BY <1>1, FS_Subset
  <2>2. \A k \in Keys : By(s)[k] \in Nat
    <3> SUFFICES ASSUME NEW k \in Keys PROVE SumFunctionOnSet(Given(payments, k), s) \in Nat
      OBVIOUS
    <3>1. \A i \in s : Given(payments, k)[i] \in Nat
      BY <1>1
    <3> QED
      BY <2>1, <3>1, SumNat
  <2>3. SumFunctionOnSet(Money(payments), s) \in Nat
    <3>1. \A i \in s : Money(payments)[i] \in Nat
      BY <1>1
    <3> QED
      BY <2>1, <3>1, SumNat
  <2> HIDE DEF By
  <2>4. SumFunctionOnSet(By(s), Keys) \in Nat
    BY <2>2, KeysFinite, SumNat
  <2> QED
    BY <2>2, <2>3, <2>4
<1>3. {} \in Good
  <2>1. \A k \in Keys : By({})[k] = NoAlloc[k] /\ NoAlloc[k] \in Int
    BY SumEmpty DEF NoAlloc
  <2> HIDE DEF By
  <2>2. SumFunctionOnSet(By({}), Keys) = SumFunctionOnSet(NoAlloc, Keys)
    BY <2>1, KeysFinite, SumSame
  <2> QED
    BY <2>2, NoAllocType, SumEmpty DEF AllocSum
<1>4. ASSUME NEW T \in SUBSET A, NEW i \in A, T \in Good, i \notin T PROVE T \cup {i} \in Good
  <2> DEFINE al == payments[i].alloc
  <2>1. IsFiniteSet(T) /\ T \cup {i} \in SUBSET A
    BY <1>1, FS_Subset
  <2>2. \A k \in Keys : By(T \cup {i})[k] = By(T)[k] + al[k]
    <3> SUFFICES ASSUME NEW k \in Keys
                 PROVE  SumFunctionOnSet(Given(payments, k), T \cup {i})
                          = SumFunctionOnSet(Given(payments, k), T) + al[k]
      OBVIOUS
    <3>1. \A j \in T \cup {i} : Given(payments, k)[j] \in Int
      BY <1>1
    <3>2. SumFunctionOnSet(Given(payments, k), T \cup {i})
            = SumFunctionOnSet(Given(payments, k), T) + Given(payments, k)[i]
      BY <1>4, <2>1, <3>1, SumAdd
    <3> QED
      BY <1>2, <3>2
  <2>3. SumFunctionOnSet(Money(payments), T \cup {i}) = SumFunctionOnSet(Money(payments), T) + payments[i].amount
    <3>1. \A j \in T \cup {i} : Money(payments)[j] \in Int
      BY <1>1
    <3>2. SumFunctionOnSet(Money(payments), T \cup {i})
            = SumFunctionOnSet(Money(payments), T) + Money(payments)[i]
      BY <1>4, <2>1, <3>1, SumAdd
    <3> QED
      BY <1>2, <3>2
  <2>4. al \in [Keys -> Nat] /\ AllocSum(al) <= payments[i].amount /\ payments[i].amount \in Nat
    BY <1>1, <1>2
  <2>5. AllocSum(al) \in Nat
    BY <2>4, AllocSumNat
  <2>6. \A k \in Keys : By(T)[k] \in Nat
    BY <1>a
  <2>7. SumFunctionOnSet(By(T), Keys) <= SumFunctionOnSet(Money(payments), T)
    BY <1>4
  <2>8. SumFunctionOnSet(By(T), Keys) \in Nat /\ SumFunctionOnSet(Money(payments), T) \in Nat
    BY <1>a
  <2> HIDE DEF By, al
  <2>9. SumFunctionOnSet(By(T \cup {i}), Keys) = SumFunctionOnSet(By(T), Keys) + SumFunctionOnSet(al, Keys)
    <3> DEFINE before == By(T)
               after == By(T \cup {i})
    <3>a. \A k \in Keys : before[k] \in Nat
      BY <2>6
    <3>b. \A k \in Keys : after[k] = before[k] + al[k]
      BY <2>2
    <3> HIDE DEF before, after
    <3>1. \A k \in Keys : before[k] \in Int /\ al[k] \in Int /\ after[k] = before[k] + al[k]
      BY <2>4, <3>a, <3>b
    <3>2. SumFunctionOnSet(after, Keys) = SumFunctionOnSet(before, Keys) + SumFunctionOnSet(al, Keys)
      BY <3>1, KeysFinite, SumPlus
    <3> QED
      BY <3>2 DEF before, after
  <2>10. SumFunctionOnSet(By(T \cup {i}), Keys) <= SumFunctionOnSet(Money(payments), T \cup {i})
    BY <2>3, <2>4, <2>5, <2>7, <2>8, <2>9 DEF AllocSum
  <2> QED
    BY <2>1, <2>10
<1> HIDE DEF Good
<1>5. A \in Good
  BY <1>1, <1>3, <1>4, SetInduction
<1>6. SumFunctionOnSet(By(A), Keys) <= SumFunctionOnSet(Money(payments), A)
  BY <1>5 DEF Good
<1>7. By(A) = [k \in Keys |-> Allocated(payments, f, k)]
  BY DEF Allocated, A, AllocOf, Given
<1>8. SumFunctionOnSet(Money(payments), A) = LiveSum(payments, f)
  BY <1>1 DEF LiveSum, LiveOf, Money
<1> HIDE DEF By
<1> QED
  BY <1>6, <1>7, <1>8

-----------------------------------------------------------------------------
(* The initial ledger.                                                      *)

LEMMA NothingPaid == ASSUME NEW due \in Nat, due > 0 PROVE FeeStatus(0, due) = "UNPAID"
BY DEF FeeStatus

LEMMA InitMonths ==
    ASSUME Init
    PROVE  /\ scene \in Scenes /\ extras \in [Fees -> SUBSET ExtraIds] /\ usedIds \subseteq ExtraIds
           /\ fee \in [Fees -> RowType]
           /\ \A f \in Fees : \/ /\ fee[f].exists /\ fee[f].net = fee[f].total /\ fee[f].net > 0
                                 /\ fee[f].paid = 0 /\ fee[f].status = "UNPAID"
                              \/ ~fee[f].exists /\ fee[f].paid = 0 /\ extras[f] = {}
<1>1. scene \in Scenes /\ usedIds \subseteq ExtraIds
  BY DEF Init
<1>2. scene.months \subseteq Fees /\ scene.breakdowns \subseteq Breakdowns
  BY <1>1, ScenesAssumption
<1>3. PICK of \in [scene.months -> {b \in scene.breakdowns : HeadSum(b) > 0}] :
        fee = [f \in Fees |-> IF f \in scene.months THEN Row(of[f], 0) ELSE NoRow(MaxGen)]
  BY DEF Init
<1>4. PICK at \in [usedIds -> scene.months] : extras = [f \in Fees |-> {e \in usedIds : at[e] = f}]
  BY DEF Init
<1>5. \A f \in scene.months : of[f] \in Prices
  BY <1>2 DEF Prices
<1>6. ASSUME NEW f \in Fees, f \in scene.months
      PROVE  /\ fee[f] \in RowType /\ fee[f].exists /\ fee[f].net = fee[f].total /\ fee[f].net > 0
             /\ fee[f].paid = 0 /\ fee[f].status = "UNPAID"
  <2>1. fee[f] = Row(of[f], 0)
    BY <1>3, <1>6
  <2>2. Row(of[f], 0) \in RowType /\ HeadSum(of[f]) > 0
    BY <1>5, <1>6, RowTyped
  <2> QED
    BY <2>1, <2>2 DEF Row
<1>7. ASSUME NEW f \in Fees, f \notin scene.months
      PROVE  fee[f] \in RowType /\ ~fee[f].exists /\ fee[f].paid = 0 /\ extras[f] = {}
  <2>1. fee[f] = NoRow(MaxGen)
    BY <1>3, <1>7
  <2>2. NoRow(MaxGen) \in RowType
    BY AmountsAssumption DEF NoRow, RowType, Statuses
  <2>3. extras[f] = {}
    BY <1>4, <1>7
  <2> QED
    BY <2>1, <2>2, <2>3 DEF NoRow
<1>8. fee \in [Fees -> RowType]
  BY <1>3, <1>6, <1>7
<1>9. extras \in [Fees -> SUBSET ExtraIds]
  BY <1>1, <1>4
<1> QED
  BY <1>1, <1>6, <1>7, <1>8, <1>9

LEMMA InitSound ==
    ASSUME Init
    PROVE  Typed /\ RowsSound /\ NothingLeft /\ FromArchived /\ PaidIsSum /\ CarriesAddUp /\ Charged /\ AloneTells
<1>0. /\ payments = <<>> /\ carries = [f \in Fees |-> NoCarry]
      /\ pc = [p \in Requests |-> "idle"] /\ loc = [p \in Requests |-> NoLoc]
  BY DEF Init, NoCarry
<1>1. DOMAIN payments = {} /\ payments \in Seq(PaymentType)
  BY <1>0
<1>2. TypeOK
  <2>1. carries \in [Fees -> [Fees -> Nat]]
    BY <1>0 DEF NoCarry
  <2> QED
    BY <1>0, <1>1, <2>1, InitMonths DEF TypeOK
<1>3. LocsTyped
  BY <1>0 DEF LocsTyped, LocTyped
<1>4. InScene
  BY <1>0, InitMonths DEF InScene, Allows
<1>5. RowsSound
  BY <1>1 DEF RowsSound
<1>6. NothingLeft
  BY <1>0, InitMonths DEF NothingLeft
<1>7. PaidIsSum
  <2>1. \A f \in Fees : fee[f].paid = 0
    BY InitMonths
  <2>2. \A f \in Fees : LiveSum(payments, f) = 0
    BY <1>1, NothingReceived
  <2> QED
    BY <2>1, <2>2 DEF PaidIsSum
<1>8. CarriesAddUp
  <2> SUFFICES ASSUME NEW f \in Fees, fee[f].exists PROVE fee[f].net = fee[f].total + Carried(f)
    <3>1. \A f \in Fees : fee[f].exists => fee[f].net >= fee[f].total + Carried(f)
      BY InitMonths DEF RowType
    <3> QED
      BY <3>1 DEF CarriesAddUp, CarriedStaysCharged
  <2>1. carries[f] = NoCarry /\ fee[f].net = fee[f].total /\ fee[f].total \in Nat
    BY <1>0, InitMonths DEF RowType
  <2> QED
    BY <2>1, SumOfNothing DEF Carried
<1>12. FromArchived
  BY <1>0 DEF FromArchived, NoCarry
<1>9. Charged
  BY InitMonths DEF Charged
<1>10. Typed
  BY <1>2, <1>3, <1>4 DEF Typed
<1>11. AloneTells
  <2>1. \A f \in Fees : Tells(f)
    <3> SUFFICES ASSUME NEW f \in Fees, fee[f].exists PROVE fee[f].status = FeeStatus(fee[f].paid, TotalDue(f))
      BY DEF Tells
    <3>1. fee[f].paid = 0 /\ fee[f].status = "UNPAID" /\ fee[f].net > 0
      BY InitMonths
    <3>2. TotalDue(f) \in Nat /\ TotalDue(f) > 0
      BY <1>10, <3>1, MonthTyped DEF TotalDue
    <3> QED
      BY <3>1, <3>2, NothingPaid
  <2>2. \A p \in Requests : Current(p)
    BY <1>0 DEF Current
  <2> QED
    BY <1>0, <2>1, <2>2 DEF AloneTells, Telling
<1> QED
  BY <1>5, <1>6, <1>7, <1>8, <1>9, <1>10, <1>11, <1>12

-----------------------------------------------------------------------------
(* The statuses, when one request runs at a time.                           *)

\* A credited month has the status of what it now owes.
Settled(f) == fee'[f] = fee[f] \/ fee'[f].status = FeeStatus(fee'[f].paid, TotalDue(f))

LEMMA SettledRow ==
    ASSUME Typed, NEW f \in Fees, NEW x \in Nat, x > 0,
           fee'[f] = [fee[f] EXCEPT !.paid = x, !.status = PaidStatus(x, TotalDue(f))]
    PROVE  Settled(f)
<1>1. fee'[f].paid = x /\ fee'[f].status = PaidStatus(x, TotalDue(f))
  BY MonthTyped DEF RowType
<1>2. PaidStatus(x, TotalDue(f)) = FeeStatus(x, TotalDue(f))
  BY DEF PaidStatus, FeeStatus
<1> QED
  BY <1>1, <1>2 DEF Settled

LEMMA BatchesSettle ==
    ASSUME Typed, NEW p \in Requests,
           \/ \E a \in Amounts : Waterfall(p, a)
           \/ \E prev \in Selections(Fees), c \in Fees, line \in HeadSelections : \E alloc \in Asked(line) :
                Allocate(p, prev, c, line, alloc) \/ FamilyAllocate(p, prev, c, line, alloc)
           \/ \E batch \in Selections(Fees) : FamilyPay(p, batch)
    PROVE  \A f \in Fees : Settled(f)
<1>1. ASSUME NEW a \in Amounts, Waterfall(p, a), NEW f \in Fees PROVE Settled(f)
  <2> DEFINE x == fee[f].paid + Share(f, a)
  <2>1. CASE f \in Covered(a)
    <3>1. fee'[f] = [fee[f] EXCEPT !.paid = x, !.status = PaidStatus(x, TotalDue(f))]
      BY <1>1, <2>1 DEF Waterfall
    <3>2. x \in Nat /\ x > 0
      BY <2>1, AmountsPositive, MonthTyped, ShareNat DEF Covered
    <3> HIDE DEF x
    <3> QED
      BY <3>1, <3>2, SettledRow
  <2>2. CASE f \notin Covered(a)
    BY <1>1, <2>2 DEF Waterfall, Settled
  <2> QED
    BY <2>1, <2>2
<1>2. ASSUME NEW prev \in Selections(Fees), NEW c \in Fees, NEW line \in HeadSelections,
             NEW alloc \in Asked(line),
             Allocate(p, prev, c, line, alloc) \/ FamilyAllocate(p, prev, c, line, alloc), NEW f \in Fees
      PROVE  Settled(f)
  <2> DEFINE was == fee[f].paid
             cur == AllocSum(alloc)
  <2>0. /\ was \in Nat /\ cur \in Nat
        /\ \A g \in DOMAIN prev : prev[g] \in Nat /\ prev[g] > 0
    BY AllocSumNat, AskedIs, MonthTyped, SelectionsAre DEF Gift
  <2>1. \/ fee'[f] = fee[f]
        \/ cur > 0 /\ fee'[f] = Credit(f, was + cur)
        \/ f \in DOMAIN prev /\ fee'[f] = Credit(f, was + prev[f])
        \/ \E n \in Nat : n > 0 /\ fee'[f] = Credit(f, was + n)
    <3>1. CASE Allocate(p, prev, c, line, alloc)
      BY <3>1 DEF Allocate
    <3>2. CASE FamilyAllocate(p, prev, c, line, alloc)
      <4> DEFINE n == GivenTo(prev, c, alloc, f)
      <4>1. n \in Nat
        BY <2>0 DEF GivenTo
      <4>2. fee'[f] = IF n > 0 THEN Credit(f, was + n) ELSE fee[f]
        BY <3>2 DEF FamilyAllocate, GivenTo
      <4> HIDE DEF n
      <4> QED
        BY <4>1, <4>2
    <3> QED
      BY <1>2, <3>1, <3>2
  <2> HIDE DEF was, cur
  <2>2. fee'[f] = fee[f] \/ \E x \in Nat : x > 0 /\ fee'[f] = Credit(f, x)
    BY <2>0, <2>1
  <2>3. ASSUME NEW x \in Nat, x > 0, fee'[f] = Credit(f, x) PROVE Settled(f)
    BY <2>3, SettledRow DEF Credit
  <2> QED
    BY <2>2, <2>3 DEF Settled
<1>3. ASSUME NEW batch \in Selections(Fees), FamilyPay(p, batch), NEW f \in Fees PROVE Settled(f)
  <2> DEFINE x == LiveSum(payments', f)
  <2>1. CASE f \in DOMAIN batch
    <3>1. fee'[f] = [fee[f] EXCEPT !.paid = x, !.status = FeeStatus(x, TotalDue(f))]
      BY <1>3, <2>1 DEF FamilyPay
    <3> HIDE DEF x
    <3>2. fee'[f].paid = x /\ fee'[f].status = FeeStatus(x, TotalDue(f))
      BY <3>1, MonthTyped DEF RowType
    <3> QED
      BY <3>2 DEF Settled
  <2>2. CASE f \notin DOMAIN batch
    BY <1>3, <2>2 DEF FamilyPay, Settled
  <2> QED
    BY <2>1, <2>2
<1> QED
  BY <1>1, <1>2, <1>3

LEMMA GotoIs ==
    ASSUME Typed, NEW p \in Requests, NEW label, NEW l, Goto(p, label, l)
    PROVE  pc'[p] = label /\ loc'[p] = l
BY DEF Typed, TypeOK, Goto

LEMMA FinishIs == ASSUME Typed, NEW p \in Requests, Finish(p) PROVE pc'[p] = "idle"
BY GotoIs DEF Finish

LEMMA IdleTelling ==
    ASSUME NEW p, pc'[p] = "idle", \A f \in Fees : Tells(f)'
    PROVE  Telling(p)'
BY DEF Telling, Current

LEMMA LedgerStays ==
    ASSUME UNCHANGED ledger
    PROVE  /\ \A f \in Fees : Tells(f)' = Tells(f) /\ ExtraSum(f)' = ExtraSum(f) /\ TotalDue(f)' = TotalDue(f)
           /\ fee' = fee /\ extras' = extras
BY DEF ledger, Tells, ExtraSum, TotalDue

\* What the bill of a month says, next: its own row and extras decide.
LEMMA BillStays ==
    ASSUME NEW f \in Fees, extras'[f] = extras[f], fee'[f].net = fee[f].net
    PROVE  ExtraSum(f)' = ExtraSum(f) /\ TotalDue(f)' = TotalDue(f)
BY DEF ExtraSum, TotalDue

LEMMA SettledTells ==
    ASSUME NEW f \in Fees, Tells(f), Settled(f), SameBills
    PROVE  Tells(f)'
<1>1. TotalDue(f)' = TotalDue(f)
  BY BillStays DEF SameBills
<1> QED
  BY <1>1 DEF Settled, SameBills, Tells

LEMMA PaymentTells ==
    ASSUME Typed, RowsSound, Charged, NEW p \in Requests, Telling(p), PaymentNext(p)
    PROVE  Telling(p)'
<1>1. ASSUME NEW f \in Fees, NEW a \in Amounts, PayRead(p, f, a) PROVE Telling(p)'
  <2> DEFINE l == [fee |-> f, gen |-> fee[f].gen, amount |-> a, extra |-> ExtraSum(f)]
  <2>1. pc[p] = "idle" /\ pc'[p] = "payTxn" /\ loc'[p] = l /\ UNCHANGED ledger /\ fee[f].exists
    BY <1>1, GotoIs DEF PayRead, Idle
  <2>2. \A g \in Fees : Tells(g)
    BY <2>1 DEF Telling, Unsettled
  <2>3. \A g \in Fees : Tells(g)' /\ ExtraSum(g)' = ExtraSum(g)
    BY <2>1, <2>2, LedgerStays
  <2>4. Found(loc[p])'
    BY <2>1 DEF Found, ledger
  <2>a. loc'[p].extra = ExtraSum(loc[p].fee)'
    BY <2>1 DEF ExtraSum, ledger
  <2>5. Current(p)'
    BY <2>1, <2>4, <2>a DEF Current
  <2> QED
    BY <2>3, <2>5 DEF Telling
<1>2. ASSUME PayTxn(p) PROVE Telling(p)'
  <2> DEFINE f == loc[p].fee
             x == LiveSum(payments', f)
  <2>1. /\ f \in Fees /\ Found(loc[p]) /\ loc[p].extra = ExtraSum(f) /\ loc[p].amount \in Nat
        /\ loc[p].amount > 0
    BY <1>2, AmountsPositive, RunningTyped DEF PayTxn, LocTyped, Telling, Current
  <2>2. \A g \in Fees : Tells(g)
    BY <1>2 DEF PayTxn, Telling, Unsettled
  <2>3. x \in Nat /\ x > 0
    <3> DEFINE r == Payment(f, loc[p].amount, NoAlloc)
    <3>1. r \in PaymentType /\ r.live /\ r.allocLive /\ r.fee = f /\ r.amount = loc[p].amount
      BY <2>1, NoAllocType, PaymentTyped DEF Payment
    <3>2. payments' = Append(payments, r) /\ payments \in Seq(PaymentType)
      BY <1>2 DEF PayTxn, Typed, TypeOK
    <3> HIDE DEF r, f
    <3>3. LiveSum(Append(payments, r), f) = LiveSum(payments, f) + (IF r.fee = f THEN r.amount ELSE 0)
      BY <3>1, <3>2, AppendedSums
    <3>4. LiveSum(payments, f) \in Nat
      BY <3>2, SumsNat
    <3> QED
      BY <2>1, <3>1, <3>2, <3>3, <3>4
  <2>4. /\ fee' = [fee EXCEPT ![f].paid = x, ![f].status = PaidStatus(x, TotalDue(f))]
        /\ fee \in [Fees -> RowType]
    BY <1>2, <2>1 DEF PayTxn, TotalDue, Typed, TypeOK
  <2>5. SameBills
    BY <1>2, PayTxnReceives, ReceivesKeeps
  <2>6. pc'[p] = "idle"
    BY <1>2, FinishIs DEF PayTxn
  <2> HIDE DEF f, x
  <2>7. fee'[f] = [fee[f] EXCEPT !.paid = x, !.status = PaidStatus(x, TotalDue(f))]
        /\ \A g \in Fees : g # f => fee'[g] = fee[g]
    BY <2>1, <2>4
  <2>8. Settled(f)
    BY <2>1, <2>3, <2>7, SettledRow
  <2>9. \A g \in Fees : Settled(g)
    BY <2>7, <2>8 DEF Settled
  <2>10. \A g \in Fees : Tells(g)'
    BY <2>2, <2>5, <2>9, SettledTells
  <2> QED
    BY <2>6, <2>10, IdleTelling
<1>3. ASSUME PayGone(p) \/ RevertAgain(p) PROVE Telling(p)'
  <2>1. pc'[p] = "idle" /\ UNCHANGED ledger /\ pc[p] \notin Unsettled
    BY <1>3, FinishIs DEF PayGone, RevertAgain, Unsettled
  <2>2. \A f \in Fees : Tells(f)'
    BY <2>1, LedgerStays DEF Telling
  <2> QED
    BY <2>1, <2>2, IdleTelling
<1>4. ASSUME NEW i \in DOMAIN payments, RevertRead(p, i) PROVE Telling(p)'
  <2>1. pc'[p] = "revertTxn" /\ UNCHANGED ledger /\ pc[p] \notin Unsettled
    BY <1>4, GotoIs DEF RevertRead, Idle, Unsettled
  <2>2. \A f \in Fees : Tells(f)'
    BY <2>1, LedgerStays DEF Telling
  <2>3. Current(p)'
    BY <2>1 DEF Current
  <2> QED
    BY <2>2, <2>3 DEF Telling
<1>5. ASSUME RevertTxn(p) PROVE Telling(p)'
  <2> DEFINE i == loc[p].payment
             f == payments[i].fee
             x == LiveSum(Reverted(i), f)
             s == IF x > 0 THEN FeeStatus(x, TotalDue(f)) ELSE "UNPAID"
  <2>1. i \in DOMAIN payments
    BY <1>5, RunningTyped DEF RevertTxn, LocTyped
  <2>2. f \in Fees /\ fee[f].exists
    BY <2>1, RowsTyped DEF Typed, TypeOK, PaymentType, RowsSound
  <2>3. fee' = [fee EXCEPT ![f].paid = x, ![f].status = s] /\ fee \in [Fees -> RowType]
    BY <1>5 DEF RevertTxn, RevertTo, Typed, TypeOK
  <2>4. \A g \in Fees : Tells(g)
    BY <1>5 DEF RevertTxn, Telling, Unsettled
  <2>5. SameBills
    BY <1>5, RevertTxnReverts, RevertsKeeps
  <2>6. pc'[p] = "idle"
    BY <1>5, FinishIs DEF RevertTxn, RevertTo
  <2>7. x \in Nat
    BY <2>1, RevertedSums, SumsNat
  <2>8. s = FeeStatus(x, TotalDue(f))
    <3>1. TotalDue(f) \in Nat /\ TotalDue(f) > 0
      BY <2>2, MonthTyped DEF TotalDue, Charged
    <3> HIDE DEF x, f
    <3>2. CASE x = 0
      BY <3>1, <3>2, NothingPaid
    <3>3. CASE x > 0
      BY <3>3
    <3> QED
      BY <2>7, <3>2, <3>3
  <2> HIDE DEF i, f, x, s
  <2>9. fee'[f] = [fee[f] EXCEPT !.paid = x, !.status = s]
        /\ \A g \in Fees : g # f => fee'[g] = fee[g]
    BY <2>2, <2>3
  <2>10. fee'[f].paid = x /\ fee'[f].status = s
    BY <2>2, <2>9, MonthTyped DEF RowType
  <2>11. \A g \in Fees : Settled(g)
    BY <2>8, <2>9, <2>10 DEF Settled
  <2>12. \A g \in Fees : Tells(g)'
    BY <2>4, <2>5, <2>11, SettledTells
  <2> QED
    BY <2>6, <2>12, IdleTelling
<1>6. ASSUME \/ \E a \in Amounts : Waterfall(p, a)
             \/ \E prev \in Selections(Fees), c \in Fees, line \in HeadSelections : \E alloc \in Asked(line) :
                  Allocate(p, prev, c, line, alloc) \/ FamilyAllocate(p, prev, c, line, alloc)
             \/ \E batch \in Selections(Fees) : FamilyPay(p, batch)
      PROVE  Telling(p)'
  <2>1. \A f \in Fees : Settled(f)
    BY <1>6, BatchesSettle
  <2>2. Receives
    BY <1>6, WaterfallReceives, AllocateReceives, FamilyAllocateReceives, FamilyPayReceives
  <2>3. SameBills
    BY <2>2, ReceivesKeeps
  <2>4. pc[p] = "idle" /\ pc'[p] = "idle"
    BY <1>6, BatchesIdle DEF Idle, StillIdle
  <2>5. \A f \in Fees : Tells(f)
    BY <2>4 DEF Telling, Unsettled
  <2>6. \A f \in Fees : Tells(f)'
    BY <2>1, <2>3, <2>5, SettledTells
  <2> QED
    BY <2>4, <2>6, IdleTelling
<1> QED
  BY <1>1, <1>2, <1>3, <1>4, <1>5, <1>6 DEF PaymentNext

\* A request that goes on over an unchanged ledger.
LEMMA ReadingTells ==
    ASSUME UNCHANGED ledger, NEW p \in Requests, \A f \in Fees : Tells(f) \/ (pc'[p] \in Unsettled /\ loc'[p].fee = f),
           Current(p)'
    PROVE  Telling(p)'
<1>1. \A f \in Fees : Tells(f)' = Tells(f)
  BY LedgerStays
<1> QED
  BY <1>1 DEF Telling

\* A request that wrote one month.
LEMMA OtherMonthsTell ==
    ASSUME NEW f \in Fees, \A g \in Fees : g # f => Tells(g) /\ fee'[g] = fee[g] /\ extras'[g] = extras[g]
    PROVE  \A g \in Fees : g # f => Tells(g)'
<1> SUFFICES ASSUME NEW g \in Fees, g # f PROVE Tells(g)'
  OBVIOUS
<1>1. TotalDue(g)' = TotalDue(g)
  BY BillStays
<1> QED
  BY <1>1 DEF Tells

LEMMA ExtrasTell ==
    ASSUME Typed, NothingLeft, Charged, NEW p \in Requests, Alone(p), Telling(p),
           \/ \E f \in Fees : AddExtraRead(p, f)
           \/ \E e \in ExtraIds : AddExtraInsert(p, e)
           \/ AddExtraFails(p) \/ AddExtraSum(p)
           \/ \E f \in Fees, e \in ExtraIds : DeleteExtra(p, f, e)
           \/ DeleteExtraSum(p) \/ DeleteExtraRead(p) \/ WriteStatus(p)
    PROVE  Telling(p)'
<1> DEFINE l == loc[p]
           m == loc'[p]
<1>0. \A f \in Fees : fee[f].exists => fee[f].net = fee[f].total
  BY DEF Charged, Alone
<1>1. ASSUME NEW f \in Fees, AddExtraRead(p, f) PROVE Telling(p)'
  <2>1. /\ pc[p] \notin Unsettled /\ pc'[p] = "addExtra" /\ UNCHANGED ledger /\ fee[f].exists
        /\ m = [fee |-> f, gen |-> fee[f].gen, total |-> fee[f].total, paid |-> fee[f].paid]
    BY <1>1, GotoIs DEF AddExtraRead, Idle, Unsettled
  <2>2. Found(loc[p])'
    BY <2>1 DEF Found, ledger
  <2>3. Current(p)'
    BY <2>1, <2>2 DEF Current, ledger
  <2> QED
    BY <2>1, <2>3, ReadingTells DEF Telling
<1>2. ASSUME NEW e \in ExtraIds, AddExtraInsert(p, e) PROVE Telling(p)'
  <2>1. /\ pc[p] = "addExtra" /\ pc'[p] = "sumExtra" /\ m = l /\ fee' = fee
        /\ extras' = [extras EXCEPT ![l.fee] = @ \cup {e}]
    BY <1>2, GotoIs DEF AddExtraInsert
  <2>2. l.fee \in Fees
    BY <2>1, RunningTyped DEF LocTyped
  <2>3. Found(l) /\ l.total = fee[l.fee].total /\ l.paid = fee[l.fee].paid
    BY <2>1 DEF Telling, Current
  <2>4. Found(loc[p])'
    BY <2>1, <2>3 DEF Found
  <2>5. Current(p)'
    BY <2>1, <2>3, <2>4 DEF Current
  <2>6. \A g \in Fees : g # l.fee => Tells(g)'
    <3>1. extras \in [Fees -> SUBSET ExtraIds]
      BY DEF Typed, TypeOK
    <3>2. \A g \in Fees : Tells(g)
      BY <2>1 DEF Telling, Unsettled
    <3>3. \A g \in Fees : g # l.fee => extras'[g] = extras[g]
      BY <2>1, <2>2, <3>1
    <3> HIDE DEF l
    <3> QED
      BY <2>1, <2>2, <3>2, <3>3, OtherMonthsTell
  <2> QED
    BY <2>1, <2>5, <2>6 DEF Telling, Unsettled
<1>3. ASSUME AddExtraFails(p) PROVE Telling(p)'
  <2>1. pc'[p] = "idle" /\ UNCHANGED ledger /\ pc[p] \notin Unsettled
    BY <1>3, FinishIs DEF AddExtraFails, Unsettled
  <2> QED
    BY <2>1, ReadingTells DEF Telling, Current
<1>4. ASSUME AddExtraSum(p) PROVE Telling(p)'
  <2>1. /\ pc[p] = "sumExtra" /\ pc'[p] = "writeStatus" /\ UNCHANGED ledger
        /\ m = [fee |-> l.fee, gen |-> l.gen, status |-> FeeStatus(l.paid, l.total + ItemSum(l))]
    BY <1>4, GotoIs DEF AddExtraSum
  <2>2. l.fee \in Fees
    BY <2>1, RunningTyped DEF LocTyped
  <2>3. Found(l) /\ l.total = fee[l.fee].total /\ l.paid = fee[l.fee].paid
    BY <2>1 DEF Telling, Current
  <2>4. l.total + ItemSum(l) = TotalDue(l.fee)
    BY <1>0, <2>2, <2>3 DEF Found, ItemSum, TotalDue, ExtraSum
  <2>5. Found(loc[p])' /\ TotalDue(loc[p].fee)' = TotalDue(l.fee) /\ m.fee = l.fee /\ m.gen = l.gen
    BY <2>1, <2>3 DEF Found, ledger, TotalDue, ExtraSum
  <2>6. m.status = FeeStatus(fee[l.fee].paid, TotalDue(l.fee))
    BY <2>1, <2>3, <2>4
  <2>7. Current(p)'
    BY <2>1, <2>5, <2>6 DEF Current, ledger
  <2> QED
    BY <2>1, <2>5, <2>7, ReadingTells DEF Telling, Unsettled
<1>5. ASSUME NEW f \in Fees, NEW e \in ExtraIds, DeleteExtra(p, f, e) PROVE Telling(p)'
  <2>1. /\ pc[p] = "idle" /\ pc'[p] = "sumLeft" /\ fee' = fee /\ m = Id(f) /\ e \in extras[f]
        /\ extras' = [extras EXCEPT ![f] = @ \ {e}]
    BY <1>5, GotoIs DEF DeleteExtra, Idle
  <2>2. fee[f].exists
    BY <2>1 DEF NothingLeft
  <2>3. Found(loc[p])' /\ m.fee = f
    BY <2>1, <2>2 DEF Found, Id
  <2>4. Current(p)'
    BY <2>1, <2>3 DEF Current
  <2>5. \A g \in Fees : g # f => Tells(g)'
    <3>1. extras \in [Fees -> SUBSET ExtraIds]
      BY DEF Typed, TypeOK
    <3>2. \A g \in Fees : Tells(g)
      BY <2>1 DEF Telling, Unsettled
    <3>3. \A g \in Fees : g # f => extras'[g] = extras[g]
      BY <2>1, <3>1
    <3> QED
      BY <2>1, <3>2, <3>3, OtherMonthsTell
  <2> QED
    BY <2>1, <2>3, <2>4, <2>5 DEF Telling, Unsettled
<1>6. ASSUME DeleteExtraSum(p) PROVE Telling(p)'
  <2>1. /\ pc[p] = "sumLeft" /\ pc'[p] = "readMonth" /\ UNCHANGED ledger
        /\ m = [fee |-> l.fee, gen |-> l.gen, extra |-> ItemSum(l)]
    BY <1>6, GotoIs DEF DeleteExtraSum
  <2>2. Found(l)
    BY <2>1 DEF Telling, Current
  <2>3. Found(loc[p])' /\ m.fee = l.fee /\ m.extra = ExtraSum(loc[p].fee)'
    BY <2>1, <2>2 DEF Found, ledger, ItemSum, ExtraSum
  <2>4. Current(p)'
    BY <2>1, <2>3 DEF Current
  <2> QED
    BY <2>1, <2>3, <2>4, ReadingTells DEF Telling, Unsettled
<1>7. ASSUME DeleteExtraRead(p) PROVE Telling(p)'
  <2>1. pc[p] = "readMonth" /\ UNCHANGED ledger
    BY <1>7 DEF DeleteExtraRead
  <2>2. l.fee \in Fees
    BY <2>1, RunningTyped DEF LocTyped
  <2>3. Found(l) /\ l.extra = ExtraSum(l.fee)
    BY <2>1 DEF Telling, Current
  <2>4. /\ pc'[p] = "writeStatus"
        /\ m = [fee |-> l.fee, gen |-> l.gen, status |-> FeeStatus(fee[l.fee].paid, fee[l.fee].total + l.extra)]
    BY <1>7, <2>3, GotoIs DEF DeleteExtraRead
  <2>5. fee[l.fee].total + l.extra = TotalDue(l.fee)
    BY <1>0, <2>2, <2>3 DEF Found, TotalDue
  <2>6. Found(loc[p])' /\ TotalDue(loc[p].fee)' = TotalDue(l.fee) /\ m.fee = l.fee
    BY <2>1, <2>3, <2>4 DEF Found, ledger, TotalDue, ExtraSum
  <2>7. m.status = FeeStatus(fee[l.fee].paid, TotalDue(l.fee))
    BY <2>4, <2>5
  <2>8. Current(p)'
    BY <2>1, <2>4, <2>6, <2>7 DEF Current, ledger
  <2> QED
    BY <2>1, <2>4, <2>6, <2>8, ReadingTells DEF Telling, Unsettled
<1>8. ASSUME WriteStatus(p) PROVE Telling(p)'
  <2>0. pc[p] = "writeStatus" /\ l.fee \in Fees /\ l.status \in Statuses /\ pc'[p] = "idle"
    BY <1>8, RunningTyped, FinishIs DEF WriteStatus, LocTyped
  <2>1. PICK f \in Fees, s \in Statuses : f = l.fee /\ s = l.status
    BY <2>0
  <2>2. Found(l) /\ s = FeeStatus(fee[f].paid, TotalDue(f))
    BY <2>0, <2>1 DEF Telling, Current
  <2>3. fee' = [fee EXCEPT ![f].status = s] /\ extras' = extras
    BY <1>8, <2>1, <2>2 DEF WriteStatus
  <2>4. \A g \in Fees : g # f => Tells(g)
    BY <2>0, <2>1 DEF Telling
  <2> HIDE DEF l
  <2>5. fee'[f] = [fee[f] EXCEPT !.status = s] /\ \A g \in Fees : g # f => fee'[g] = fee[g]
    BY <2>1, <2>3 DEF Typed, TypeOK
  <2>6. fee'[f].status = s /\ fee'[f].paid = fee[f].paid /\ fee'[f].net = fee[f].net
    BY <2>1, <2>5, MonthTyped DEF RowType
  <2>7. TotalDue(f)' = TotalDue(f)
    BY <2>1, <2>3, <2>6, BillStays
  <2>8. Tells(f)'
    BY <2>2, <2>6, <2>7 DEF Tells
  <2>9. \A g \in Fees : g # f => Tells(g)'
    BY <2>1, <2>3, <2>4, <2>5, OtherMonthsTell
  <2> QED
    BY <2>0, <2>8, <2>9, IdleTelling
<1> QED
  BY <1>1, <1>2, <1>3, <1>4, <1>5, <1>6, <1>7, <1>8

LEMMA BillsTell ==
    ASSUME Typed, Charged, NEW p \in Requests, Alone(p), Telling(p),
           \/ \E f \in Fees : GenerateRead(p, f) \/ RegenerateRead(p, f)
           \/ \E b \in scene.breakdowns : GenerateCreate(p, b)
           \/ RegenerateDelete(p)
           \/ \E f \in Fees, b \in scene.breakdowns : UpdateRead(p, f, b)
           \/ UpdateWrite(p)
    PROVE  Telling(p)'
<1> DEFINE l == loc[p]
           m == loc'[p]
<1>0. fee \in [Fees -> RowType] /\ extras \in [Fees -> SUBSET ExtraIds]
  BY DEF Typed, TypeOK
<1>1. ASSUME NEW f \in Fees, GenerateRead(p, f) \/ RegenerateRead(p, f) PROVE Telling(p)'
  <2>1. pc[p] \notin Unsettled /\ pc'[p] \in {"create", "delete"} /\ UNCHANGED ledger
    BY <1>1, GotoIs DEF GenerateRead, RegenerateRead, Idle, Unsettled
  <2>2. Current(p)'
    BY <2>1 DEF Current
  <2> QED
    BY <2>1, <2>2, ReadingTells DEF Telling
<1>2. ASSUME NEW b \in scene.breakdowns, GenerateCreate(p, b) PROVE Telling(p)'
  <2>0. l.fee \in Fees /\ pc[p] = "create" /\ pc'[p] = "idle" /\ extras' = extras
    BY <1>2, RunningTyped, FinishIs DEF GenerateCreate, LocTyped, MonthLoc
  <2>1. PICK f \in Fees : f = l.fee
    BY <2>0
  <2>2. \A h \in Fees : Tells(h)
    BY <2>0 DEF Telling, Unsettled
  <2>3. CASE ~fee[f].exists /\ HeadSum(b) > 0
    <3>1. fee'[f] = Row(b, fee[f].gen + 1) /\ \A h \in Fees : h # f => fee'[h] = fee[h]
      BY <1>0, <1>2, <2>1, <2>3 DEF GenerateCreate
    <3>2. fee'[f].paid = 0 /\ fee'[f].status = "UNPAID" /\ fee'[f].net = HeadSum(b)
      BY <3>1 DEF Row
    <3>3. TotalDue(f)' = HeadSum(b) + ExtraSum(f)
      BY <2>0, <3>2 DEF TotalDue, ExtraSum
    <3>4. HeadSum(b) + ExtraSum(f) \in Nat /\ HeadSum(b) + ExtraSum(f) > 0
      BY <2>3, ScenePrices, MonthTyped
    <3>5. Tells(f)'
      BY <3>2, <3>3, <3>4, NothingPaid DEF Tells
    <3>6. \A h \in Fees : h # f => Tells(h)'
      BY <2>0, <2>2, <3>1, OtherMonthsTell
    <3> QED
      BY <2>0, <3>5, <3>6, IdleTelling
  <2>4. CASE ~(~fee[f].exists /\ HeadSum(b) > 0)
    <3>1. UNCHANGED ledger
      BY <1>2, <2>1, <2>4 DEF GenerateCreate, ledger
    <3> QED
      BY <2>0, <2>2, <3>1, LedgerStays, IdleTelling
  <2> QED
    BY <2>3, <2>4
<1>3. ASSUME RegenerateDelete(p) PROVE Telling(p)'
  <2>0. l.fee \in Fees /\ pc[p] = "delete" /\ pc'[p] \in {"create", "idle"}
    BY <1>3, RunningTyped, FinishIs, GotoIs DEF RegenerateDelete, LocTyped, MonthLoc
  <2>1. PICK f \in Fees : f = l.fee
    BY <2>0
  <2>2. \A h \in Fees : Tells(h)
    BY <2>0 DEF Telling, Unsettled
  <2>3. Current(p)'
    BY <2>0 DEF Current
  <2>4. CASE Found(l) /\ Deletable(f)
    <3>1. /\ fee' = [fee EXCEPT ![f] = NoRow(@.gen)]
          /\ extras' = [extras EXCEPT ![f] = {}]
      BY <1>3, <2>1, <2>4 DEF RegenerateDelete
    <3>2. fee'[f] = NoRow(fee[f].gen) /\ \A h \in Fees : h # f => fee'[h] = fee[h] /\ extras'[h] = extras[h]
      BY <1>0, <3>1
    <3>3. Tells(f)'
      BY <3>2 DEF Tells, NoRow
    <3>4. \A h \in Fees : h # f => Tells(h)'
      BY <2>2, <3>2, OtherMonthsTell
    <3> QED
      BY <2>3, <3>3, <3>4 DEF Telling
  <2>5. CASE ~(Found(l) /\ Deletable(f))
    <3>1. UNCHANGED ledger
      BY <1>3, <2>1, <2>5 DEF RegenerateDelete, ledger
    <3> QED
      BY <2>2, <2>3, <3>1, ReadingTells
  <2> QED
    BY <2>4, <2>5
<1>4. ASSUME NEW f \in Fees, NEW b \in scene.breakdowns, UpdateRead(p, f, b) PROVE Telling(p)'
  <2>1. /\ pc[p] = "idle" /\ pc'[p] = "updateWrite" /\ UNCHANGED ledger /\ fee[f].exists
        /\ m = [fee |-> f, gen |-> fee[f].gen, heads |-> b,
                status |-> FeeStatus(fee[f].paid, HeadSum(b) + ExtraSum(f))]
    BY <1>4, GotoIs DEF UpdateRead, Idle
  <2>2. Found(loc[p])' /\ m.fee = f /\ m.heads = b
    BY <2>1 DEF Found, ledger
  <2>3. m.status = FeeStatus(fee'[m.fee].paid, HeadSum(m.heads) + ExtraSum(f)) /\ ExtraSum(loc[p].fee)' = ExtraSum(f)
    BY <2>1, <2>2 DEF ledger, ExtraSum
  <2>4. Current(p)'
    BY <2>1, <2>2, <2>3 DEF Current, HeadSum
  <2> QED
    BY <2>1, <2>4, ReadingTells DEF Telling, Unsettled
<1>5. ASSUME UpdateWrite(p) PROVE Telling(p)'
  <2>0. l.fee \in Fees /\ l.heads \in Prices /\ l.status \in Statuses /\ pc[p] = "updateWrite" /\ pc'[p] = "idle"
        /\ extras' = extras
    BY <1>5, RunningTyped, FinishIs DEF UpdateWrite, LocTyped
  <2>1. PICK f \in Fees, b \in Prices, s \in Statuses : f = l.fee /\ b = l.heads /\ s = l.status
    BY <2>0
  <2>2. Found(l) /\ s = FeeStatus(fee[f].paid, HeadSum(b) + ExtraSum(f))
    BY <2>0, <2>1 DEF Telling, Current
  <2>3. \A h \in Fees : Tells(h)
    BY <2>0 DEF Telling, Unsettled
  <2>4. fee' = [fee EXCEPT ![f].heads = b, ![f].total = HeadSum(b), ![f].net = HeadSum(b), ![f].status = s]
    BY <1>5, <2>1, <2>2 DEF UpdateWrite
  <2> DEFINE n == HeadSum(b)
  <2> HIDE DEF l, n
  <2>5. fee'[f] = [fee[f] EXCEPT !.heads = b, !.total = n, !.net = n, !.status = s]
        /\ \A h \in Fees : h # f => fee'[h] = fee[h]
    BY <1>0, <2>4 DEF n
  <2>6. fee'[f].paid = fee[f].paid /\ fee'[f].status = s /\ fee'[f].net = n
    BY <1>0, <2>5 DEF RowType
  <2>7. TotalDue(f)' = n + ExtraSum(f)
    BY <2>0, <2>6 DEF TotalDue, ExtraSum
  <2>8. Tells(f)'
    BY <2>2, <2>6, <2>7 DEF Tells, n
  <2>9. \A h \in Fees : h # f => Tells(h)'
    BY <2>0, <2>3, <2>5, OtherMonthsTell
  <2> QED
    BY <2>0, <2>8, <2>9, IdleTelling
<1> QED
  BY <1>1, <1>2, <1>3, <1>4, <1>5

\* The handlers that StatusTellsDue leaves out are not in the scene.
LEMMA NotAlone ==
    ASSUME Typed, NEW p \in Requests, Alone(p)
    PROVE  /\ \A f \in Fees, b \in scene.breakdowns : ~RecalculateRead(p, f, b)
           /\ \A from, to \in Fees : ~CarryRead(p, from, to)
           /\ ~RecalculateWrite(p) /\ ~CarryTxn(p) /\ ~CarryFails(p)
BY DEF Alone, Typed, InScene, Allows, RecalculateRead, CarryRead, RecalculateWrite, CarryTxn, CarryTo, CarryFails, Idle

LEMMA AloneStep ==
    ASSUME Typed, RowsSound, NothingLeft, Charged, AloneTells, [Next]_vars
    PROVE  AloneTells'
<1>0. scene' = scene
  BY StepKinds
<1> SUFFICES ASSUME NEW p \in Requests, Alone(p) PROVE Telling(p)'
  BY <1>0 DEF AloneTells, Alone
<1>1. Telling(p)
  BY DEF AloneTells
<1>2. CASE UNCHANGED vars
  BY <1>1, <1>2 DEF vars, Telling, Current, Tells, Found, TotalDue, ExtraSum
<1>3. ASSUME NEW q \in Requests, PaymentNext(q) \/ FeeNext(q) PROVE Telling(p)'
  <2>1. q \in scene.staff
    <3>1. pc[q] # "idle" => q \in scene.staff
      BY RunningTyped
    <3>2. CASE PaymentNext(q)
      BY <3>1, <3>2, BatchesIdle DEF PaymentNext, Idle, PayRead, PayTxn, PayGone, RevertRead, RevertTxn, RevertAgain
    <3>3. CASE FeeNext(q)
      BY <3>1, <3>3 DEF FeeNext, Idle, AddExtraRead, AddExtraInsert, AddExtraFails,
           AddExtraSum, DeleteExtra, DeleteExtraSum, DeleteExtraRead, WriteStatus, GenerateRead,
           RegenerateRead, GenerateCreate, RegenerateDelete, UpdateRead, RecalculateRead, UpdateWrite,
           RecalculateWrite, CarryRead, CarryTxn, CarryTo, CarryFails
    <3> QED
      BY <1>3, <3>2, <3>3
  <2>2. q = p
    BY <2>1 DEF Alone
  <2>3. CASE PaymentNext(p)
    BY <1>1, <2>3, PaymentTells
  <2>4. CASE FeeNext(p)
    <3>1. \/ \E f \in Fees : AddExtraRead(p, f)
          \/ \E e \in ExtraIds : AddExtraInsert(p, e)
          \/ AddExtraFails(p) \/ AddExtraSum(p)
          \/ \E f \in Fees, e \in ExtraIds : DeleteExtra(p, f, e)
          \/ DeleteExtraSum(p) \/ DeleteExtraRead(p) \/ WriteStatus(p)
          \/ \E f \in Fees : GenerateRead(p, f) \/ RegenerateRead(p, f)
          \/ \E b \in scene.breakdowns : GenerateCreate(p, b)
          \/ RegenerateDelete(p)
          \/ \E f \in Fees, b \in scene.breakdowns : UpdateRead(p, f, b)
          \/ UpdateWrite(p)
      BY <2>4, NotAlone DEF FeeNext
    <3>2. CASE \/ \E f \in Fees : AddExtraRead(p, f)
               \/ \E e \in ExtraIds : AddExtraInsert(p, e)
               \/ AddExtraFails(p) \/ AddExtraSum(p)
               \/ \E f \in Fees, e \in ExtraIds : DeleteExtra(p, f, e)
               \/ DeleteExtraSum(p) \/ DeleteExtraRead(p) \/ WriteStatus(p)
      BY <1>1, <3>2, ExtrasTell
    <3>3. CASE \/ \E f \in Fees : GenerateRead(p, f) \/ RegenerateRead(p, f)
               \/ \E b \in scene.breakdowns : GenerateCreate(p, b)
               \/ RegenerateDelete(p)
               \/ \E f \in Fees, b \in scene.breakdowns : UpdateRead(p, f, b)
               \/ UpdateWrite(p)
      BY <1>1, <3>3, BillsTell
    <3> QED
      BY <3>1, <3>2, <3>3
  <2> QED
    BY <1>3, <2>2, <2>3, <2>4
<1> QED
  BY <1>2, <1>3 DEF Next

-----------------------------------------------------------------------------
(* The heads, and the order of a waterfall.                                 *)

LEMMA HeadsStep ==
    ASSUME Typed, Receives \/ Reverts \/ Edits, ~scene.repeats
    PROVE  \A f \in Fees, k \in Keys \ Unnumbered : ~OverAllocates(f, k)
<1> SUFFICES ASSUME NEW f \in Fees, NEW k \in Keys, k \notin Unnumbered
             PROVE  ~OverAllocates(f, k)
  OBVIOUS
<1>4. SUFFICES ASSUME Allocated(payments', f, k) > Allocated(payments, f, k)
               PROVE  ~(Allocated(payments', f, k) > PriceLimit(f, k))
  BY DEF OverAllocates, PriceLimit
<1>5. PriceLimit(f, k) \in Nat
  BY AmountsAssumption DEF PriceLimit, Typed, TypeOK, RowType
<1>0. Allocated(payments, f, k) \in Nat
  BY SumsNat DEF Typed, TypeOK
<1>1. CASE Receives
  <2>1. payments' \in Seq(PaymentType)
    BY <1>1 DEF Receives, Extends
  <2>2. Allocated(payments', f, k) \in Nat
    BY <2>1, SumsNat
  <2>3. Allocated(payments', f, k) <= PriceLimit(f, k)
    BY <1>0, <1>1, <1>4, <2>2 DEF Receives
  <2> QED
    BY <1>5, <2>2, <2>3
<1>2. CASE Reverts
  <2>1. PICK i \in DOMAIN payments : payments' = Reverted(i)
    BY <1>2 DEF Reverts
  <2>2. Reverted(i) \in Seq(PaymentType)
    BY <2>1, RevertedSums
  <2>3. Allocated(payments', f, k) \in Nat
    BY <2>1, <2>2, SumsNat
  <2>4. Allocated(payments', f, k) <= Allocated(payments, f, k)
    BY <2>1, RevertedSums
  <2> QED
    BY <1>0, <1>4, <2>3, <2>4
<1>3. CASE Edits
  BY <1>0, <1>3, <1>4 DEF Edits
<1> QED
  BY <1>1, <1>2, <1>3

\* When a month is reached, the older ones have taken all they owe.
LEMMA OlderTakeAll ==
    ASSUME Typed, NEW a \in Amounts, NEW f \in WaterfallLocked, NEW g \in WaterfallLocked,
           Share(f, a) > 0, g < f
    PROVE  Share(g, a) = DueIn(g)
<1> DEFINE Older(h) == {x \in WaterfallLocked : x < h}
           due == [x \in Fees |-> DueIn(x)]
<1>0. a \in Nat
  BY AmountsPositive
<1>1. /\ WaterfallLocked \in SUBSET Fees /\ IsFiniteSet(WaterfallLocked)
      /\ \A h \in Fees : DueIn(h) \in Nat
      /\ \A S \in SUBSET WaterfallLocked : DueOf(S) \in Nat
  BY <1>0, ShareNat
<1>2. f \in Nat /\ g \in Nat /\ \A x \in WaterfallLocked : x \in Nat
  BY <1>1, FeesAssumption
<1>3. Older(g) \cup {g} \in SUBSET Older(f) /\ g \notin Older(g) /\ Older(f) \in SUBSET WaterfallLocked
  <2>1. \A x \in Older(g) : x \in WaterfallLocked /\ x \in Nat /\ x < g
    BY <1>2
  <2>2. \A x \in Older(g) \cup {g} : x \in WaterfallLocked /\ x < f
    BY <1>2, <2>1
  <2>3. \A x \in Older(g) \cup {g} : x \in Older(f)
    BY <2>2
  <2>4. g \notin Older(g)
    BY <1>2
  <2>5. Older(f) \in SUBSET WaterfallLocked
    OBVIOUS
  <2> HIDE DEF Older
  <2> QED
    BY <2>3, <2>4, <2>5
<1>4. IsFiniteSet(Older(g)) /\ IsFiniteSet(Older(f)) /\ Older(g) \in SUBSET WaterfallLocked
  BY <1>1, FS_Subset
<1>5. \A x \in Older(f) : due[x] \in Nat
  BY <1>1
<1>6. /\ DueOf(Older(f)) = SumFunctionOnSet(due, Older(f)) /\ DueOf(Older(g)) = SumFunctionOnSet(due, Older(g))
      /\ due[g] = DueIn(g)
  BY <1>1 DEF DueOf
<1>7. Share(f, a) = MinOf(DueIn(f), MaxOf(0, a - DueOf(Older(f))))
      /\ Share(g, a) = MinOf(DueIn(g), MaxOf(0, a - DueOf(Older(g))))
  BY DEF Share
<1>8. DueOf(Older(f)) \in Nat /\ DueOf(Older(g)) \in Nat /\ DueIn(f) \in Nat /\ DueIn(g) \in Nat
  BY <1>1, <1>3, <1>4
<1> HIDE DEF Older, due
<1>9. SumFunctionOnSet(due, Older(g) \cup {g}) = SumFunctionOnSet(due, Older(g)) + due[g]
  <2>1. \A x \in Older(g) \cup {g} : due[x] \in Int
    BY <1>3, <1>5
  <2> QED
    BY <1>3, <1>4, <2>1, SumAdd
<1>10. SumFunctionOnSet(due, Older(g) \cup {g}) <= SumFunctionOnSet(due, Older(f))
  BY <1>3, <1>4, <1>5, SumNat
<1>11. a > DueOf(Older(f))
  BY <1>0, <1>7, <1>8 DEF MinOf, MaxOf
<1>12. a - DueOf(Older(g)) > DueIn(g)
  BY <1>0, <1>6, <1>8, <1>9, <1>10, <1>11
<1> QED
  BY <1>0, <1>7, <1>8, <1>12 DEF MinOf, MaxOf

LEMMA WaterfallStep ==
    ASSUME Typed, NEW p \in Requests, NEW a \in Amounts, Waterfall(p, a),
           NEW f \in WaterfallLocked, fee'[f].paid > fee[f].paid,
           NEW g \in WaterfallLocked, g < f
    PROVE  fee'[g].paid >= TotalDue(g)
<1>0. a \in Nat /\ WaterfallLocked \in SUBSET Fees
  BY AmountsPositive DEF WaterfallLocked
<1>1. ASSUME NEW h \in Fees
      PROVE  /\ h \in Covered(a) => fee'[h].paid = fee[h].paid + Share(h, a)
             /\ h \notin Covered(a) => fee'[h] = fee[h]
  <2>1. h \in Covered(a) => fee'[h] = [fee[h] EXCEPT !.paid = fee[h].paid + Share(h, a),
                                         !.status = PaidStatus(fee[h].paid + Share(h, a), TotalDue(h))]
    BY DEF Waterfall
  <2>2. h \notin Covered(a) => fee'[h] = fee[h]
    BY DEF Waterfall
  <2> QED
    BY <2>1, <2>2, MonthTyped DEF RowType
<1>2. f \in Covered(a)
  BY <1>0, <1>1, MonthTyped
<1>3. Share(g, a) = DueIn(g)
  BY <1>2, OlderTakeAll DEF Covered
<1>4. fee[g].paid \in Nat /\ TotalDue(g) \in Nat /\ DueIn(g) = MaxOf(0, TotalDue(g) - fee[g].paid)
  BY <1>0, MonthTyped DEF DueIn, Remaining
<1>5. CASE g \in Covered(a)
  <2>1. fee'[g].paid = fee[g].paid + DueIn(g)
    BY <1>0, <1>1, <1>3, <1>5
  <2> QED
    BY <1>4, <2>1 DEF MaxOf
<1>6. CASE g \notin Covered(a)
  <2>1. fee'[g].paid = fee[g].paid
    BY <1>0, <1>1, <1>6
  <2>2. ~(DueIn(g) > 0)
    BY <1>3, <1>6 DEF Covered
  <2> QED
    BY <1>4, <2>1, <2>2 DEF MaxOf
<1> QED
  BY <1>5, <1>6

-----------------------------------------------------------------------------
(* The theorems.                                                            *)

LEMMA InvariantInit == Init => IInv
BY InitSound DEF IInv

LEMMA InvariantStep == IInv /\ [Next]_vars => IInv'
<1> SUFFICES ASSUME IInv, [Next]_vars PROVE IInv'
  OBVIOUS
<1>0. Typed /\ RowsSound /\ NothingLeft /\ FromArchived /\ CarriesAddUp /\ Charged /\ AloneTells
  BY DEF IInv
<1>1. Typed' /\ (Receives \/ Reverts \/ Edits) /\ scene' = scene
  BY <1>0, StepKinds
<1>2. RowsSound'
  BY <1>0, <1>1, RowsStep
<1>3. NothingLeft'
  BY <1>0, <1>1, NothingLeftStep
<1>4. FromArchived' /\ CarriesAddUp'
  BY <1>0, <1>1, CarriesStep
<1>5. Charged'
  BY <1>0, <1>1, ChargedStep
<1>6. AloneTells'
  BY <1>0, AloneStep
<1> QED
  BY <1>1, <1>2, <1>3, <1>4, <1>5, <1>6 DEF IInv

\* Typed, RowsSound, NothingLeft, FromArchived, CarriesAddUp, Charged and AloneTells hold in
\* every state, however the handlers of fee.routes.ts interleave.
THEOREM InvariantHolds == Spec => []IInv
BY InvariantInit, InvariantStep, PTL DEF Spec

\* The ledger is well typed (no handler drives paidAmount below zero), a payment
\* is reverted once however its reverts race, and carried arrears stay charged: exactly
\* what the carry rows say while no month they come from is regenerated, at least that
\* otherwise.
THEOREM LedgerIsSound == Spec => []LedgerSound
<1>1. IInv => LedgerSound
  BY DEF IInv, Typed, RowsSound, RevertedAtMostOnce, LedgerSound
<1> QED
  BY <1>1, InvariantHolds, PTL

\* When requests run one at a time, every month says what it owes.
THEOREM StatusIsTrue == Spec => []StatusTellsDue
<1>1. IInv => StatusTellsDue
  BY DEF IInv, AloneTells, Alone, Telling, Unsettled, Tells, StatusTellsDue
<1> QED
  BY <1>1, InvariantHolds, PTL

\* paidAmount is the sum of the payments that stand, whichever handlers race; no
\* client selects one month twice in one allocate request.
THEOREM PaidIsReceived == ASSUME ~DupSelection PROVE Spec => []PaidMatchesPayments
<1>1. Init => PaidIsSum
  BY InitSound
<1>2. IInv /\ PaidIsSum /\ [Next]_vars => PaidIsSum'
  BY StepKinds, PaidStep DEF IInv
<1>3. IInv /\ PaidIsSum => PaidMatchesPayments
  BY DEF IInv, RowsSound, PaidIsSum, PaidMatchesPayments
<1> QED
  BY <1>1, <1>2, <1>3, InvariantHolds, PTL DEF Spec

\* The allocations that stand against a month never exceed what it received.
THEOREM AllocatedIsPaid == ASSUME ~DupSelection PROVE Spec => []AllocatedWithinPaid
<1>1. IInv /\ PaidMatchesPayments => AllocatedWithinPaid
  <2> SUFFICES ASSUME IInv, PaidMatchesPayments, NEW f \in Fees
               PROVE  SumFunctionOnSet([k \in Keys |-> Allocated(payments, f, k)], Keys) <= fee[f].paid
    BY DEF AllocatedWithinPaid
  <2>1. fee[f].paid = LiveSum(payments, f)
    BY DEF PaidMatchesPayments
  <2>2. Typed /\ RowsSound
    BY DEF IInv
  <2> QED
    BY <2>1, <2>2, AllocatedLeqLive
<1> QED
  BY <1>1, InvariantHolds, PaidIsReceived, PTL

\* A waterfall settles the oldest months first, and no allocation takes an extra item,
\* or a head that has an id, beyond its price, when requests name each in one line.
THEOREM AllocationsInOrder == Spec => AllocatedInOrder
<1>1. IInv /\ [Next]_vars =>
        [~scene.repeats => \A f \in Fees, k \in Keys \ Unnumbered : ~OverAllocates(f, k)]_vars
  BY StepKinds, HeadsStep DEF IInv
<1>2. IInv /\ [Next]_vars =>
        [\A p \in Requests, a \in Amounts : Waterfall(p, a) =>
           \A f \in WaterfallLocked : fee'[f].paid > fee[f].paid =>
             \A g \in WaterfallLocked : g < f => fee'[g].paid >= TotalDue(g)]_vars
  BY WaterfallStep DEF IInv
<1>3. Spec => HeadsNeverOverAllocated
  BY <1>1, InvariantHolds, PTL DEF Spec, HeadsNeverOverAllocated
<1>4. Spec => WaterfallOldestFirst
  BY <1>2, InvariantHolds, PTL DEF Spec, WaterfallOldestFirst
<1> QED
  BY <1>3, <1>4 DEF AllocatedInOrder
=============================================================================
