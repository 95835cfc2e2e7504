------------------------ MODULE PaymentRequestsProofs ------------------------
(***************************************************************************)
(* Proofs about PaymentRequests for any number of callers, keys, payers and *)
(* calls.  The inductive invariant adds to OneOpPerKey what a decided call  *)
(* knows: the operation it will report is one of its own key and scope.     *)
(***************************************************************************)
EXTENDS PaymentRequests, TLAPS

\* The decision l has taken: a failure, or an operation of its own.
DecisionFits(l) ==
    \/ l.op = 0 /\ l.answer \notin Answered
    \/ /\ l.op \in DOMAIN ops
       /\ IdOf(ops[l.op]) = IdOf(l)
       /\ ScopeOf(ops[l.op]) = ScopeOf(l)

DecisionsFit == \A c \in Callers : pc[c] = "respond" => DecisionFits(loc[c])

IInv == TypeOK /\ OneOpPerKey /\ DecisionsFit

LEMMA InitIInv == Init => IInv
<1> SUFFICES ASSUME Init PROVE IInv
  OBVIOUS
<1>1. TypeOK
  BY BoundsAssumption DEF Init, TypeOK, Labels, Ids, Scopes
<1>2. OneOpPerKey
  BY DEF Init, OneOpPerKey
<1>3. DecisionsFit
  BY DEF Init, DecisionsFit
<1> QED
  BY <1>1, <1>2, <1>3 DEF IInv

\* A step that only moves the call of c keeps the invariant when the new locals
\* have their type and a decision fits.
LEMMA LocalStep ==
    ASSUME IInv, NEW c \in Callers, NEW label \in Labels, NEW l \in CallType \cup {NoCall},
           Goto(c, label, l), UNCHANGED <<ops, due, acked>>, calls' \in Nat,
           label # "idle" => l \in CallType,
           label = "respond" => DecisionFits(l)
    PROVE  IInv'
<1>1. TypeOK'
  BY DEF IInv, TypeOK, Goto
<1>2. OneOpPerKey'
  BY DEF IInv, OneOpPerKey
<1>3. DecisionsFit'
  BY DEF IInv, TypeOK, DecisionsFit, DecisionFits, Goto
<1> QED
  BY <1>1, <1>2, <1>3 DEF IInv

\* A decision keeps the invariant when it is a failure or an operation of the
\* call's own key and scope.
LEMMA DecideStep ==
    ASSUME IInv, NEW c \in Callers, pc[c] # "idle", NEW answer \in Answers, NEW n \in Nat,
           Decide(c, answer, n), UNCHANGED <<ops, due, calls, acked>>,
           \/ n = 0 /\ answer \notin Answered
           \/ /\ n \in DOMAIN ops
              /\ IdOf(ops[n]) = IdOf(loc[c])
              /\ ScopeOf(ops[n]) = ScopeOf(loc[c])
    PROVE  IInv'
<1> DEFINE l == [loc[c] EXCEPT !.answer = answer, !.op = n]
<1>1. loc[c] \in CallType
  BY DEF IInv, TypeOK
<1>2. /\ l \in CallType
      /\ l.kind = loc[c].kind /\ l.key = loc[c].key /\ l.payer = loc[c].payer
      /\ l.answer = answer /\ l.op = n
  BY <1>1 DEF CallType
<1>3. DecisionFits(l)
  BY <1>2 DEF DecisionFits, IdOf, ScopeOf
<1>4. Goto(c, "respond", l)
  BY DEF Decide
<1>5. calls' \in Nat
  BY DEF IInv, TypeOK
<1> HIDE DEF l
<1> QED
  BY <1>2, <1>3, <1>4, <1>5, LocalStep DEF Labels

LEMMA GuardStep ==
    ASSUME IInv, NEW c \in Callers, Guard(c)
    PROVE  IInv'
<1>0. /\ pc[c] = "guard" /\ loc[c] \in CallType /\ calls' \in Nat
      /\ UNCHANGED <<ops, due, calls, acked>>
  BY DEF Guard, IInv, TypeOK
<1>1. ASSUME Goto(c, "receipt", loc[c]) PROVE IInv'
  BY <1>0, <1>1, LocalStep DEF Labels
<1>2. ASSUME NEW n \in Holders(loc[c]), SameScope(ops[n], loc[c]), Decide(c, "replayed", n)
      PROVE  IInv'
  <2>1. n \in DOMAIN ops /\ IdOf(ops[n]) = IdOf(loc[c]) /\ ScopeOf(ops[n]) = ScopeOf(loc[c])
    BY <1>2 DEF Holders, SameKey, SameScope
  <2>2. n \in Nat
    BY <2>1 DEF IInv, TypeOK
  <2> QED
    BY <1>0, <1>2, <2>1, <2>2, DecideStep DEF Answers
<1>3. ASSUME Decide(c, "otherOperation", 0) PROVE IInv'
  BY <1>0, <1>3, DecideStep DEF Answers, Answered
<1>4. CASE GuardOperation(c)
  BY <1>1, <1>2, <1>3, <1>4 DEF GuardOperation
<1>5. CASE GuardSingle(c)
  BY <1>1, <1>2, <1>5 DEF GuardSingle
<1>6. CASE GuardFamily(c)
  BY <1>1, <1>2, <1>6 DEF GuardFamily
<1> QED
  BY <1>4, <1>5, <1>6 DEF Guard

LEMMA CatchStep ==
    ASSUME IInv, NEW c \in Callers, Catch(c)
    PROVE  IInv'
<1>0. /\ pc[c] = "catch" /\ loc[c] \in CallType
      /\ UNCHANGED <<ops, due, calls, acked>>
  BY DEF Catch, IInv, TypeOK
<1>1. ASSUME NEW answer \in {"rejected", "failed", "otherOperation"}, Decide(c, answer, 0)
      PROVE  IInv'
  BY <1>0, <1>1, DecideStep DEF Answers, Answered
<1>2. ASSUME NEW n \in Holders(loc[c]), SameScope(ops[n], loc[c]), Decide(c, "replayed", n)
      PROVE  IInv'
  <2>1. n \in DOMAIN ops /\ IdOf(ops[n]) = IdOf(loc[c]) /\ ScopeOf(ops[n]) = ScopeOf(loc[c])
    BY <1>2 DEF Holders, SameKey, SameScope
  <2>2. n \in Nat
    BY <2>1 DEF IInv, TypeOK
  <2> QED
    BY <1>0, <1>2, <2>1, <2>2, DecideStep DEF Answers
<1>3. Failure(loc[c]) \in {"rejected", "failed", "otherOperation"}
  BY DEF Failure
<1>4. CASE CatchOperation(c)
  <2>1. CASE Holders(loc[c]) = {} /\ Decide(c, Failure(loc[c]), 0)
    BY <1>1, <1>3, <2>1
  <2>2. ASSUME NEW n \in Holders(loc[c]),
               IF SameScope(ops[n], loc[c]) THEN Decide(c, "replayed", n)
               ELSE Decide(c, IF loc[c].err = "key" THEN "otherOperation" ELSE Failure(loc[c]), 0)
        PROVE  IInv'
    BY <1>1, <1>2, <1>3, <2>2
  <2> QED
    BY <1>4, <2>1, <2>2 DEF CatchOperation
<1>5. CASE CatchSingle(c)
  BY <1>1, <1>2, <1>3, <1>5 DEF CatchSingle
<1>6. CASE CatchFamily(c)
  BY <1>1, <1>2, <1>3, <1>6 DEF CatchFamily
<1> QED
  BY <1>4, <1>5, <1>6 DEF Catch

LEMMA CommitStep ==
    ASSUME IInv, NEW c \in Callers, Commit(c)
    PROVE  IInv'
<1> DEFINE l == loc[c]
           d == [l EXCEPT !.answer = "created", !.op = Len(ops) + 1]
<1>1. /\ l \in CallType /\ ops \in Seq(OpType) /\ Len(ops) \in Nat
      /\ ops' = Append(ops, Op(l)) /\ acked' = acked /\ calls' = calls
      /\ pc' = [pc EXCEPT ![c] = "respond"] /\ loc' = [loc EXCEPT ![c] = d]
      /\ \A n \in DOMAIN ops : ~SameKey(ops[n], l)
  BY DEF Commit, Pay, Decide, Goto, KeyTaken, Holders, IInv, TypeOK
<1>2. Op(l) \in OpType /\ d \in CallType
  <2>1. Op(l) \in OpType
    BY <1>1 DEF CallType, OpType, Op
  <2>2. Len(ops) + 1 \in Nat
    BY <1>1
  <2> QED
    BY <1>1, <2>1, <2>2 DEF CallType, Answers
<1>3. /\ ops' \in Seq(OpType) /\ Len(ops') = Len(ops) + 1 /\ DOMAIN ops' = 1..Len(ops')
      /\ ops'[Len(ops')] = Op(l)
      /\ \A n \in DOMAIN ops : n \in DOMAIN ops' /\ ops'[n] = ops[n]
      /\ \A n \in DOMAIN ops' : n \in DOMAIN ops \/ n = Len(ops')
  BY <1>1, <1>2
<1>4. TypeOK'
  <2>1. due' \in [Payers -> Nat]
    BY <1>1 DEF Commit, Pay, IInv, TypeOK, CallType
  <2> QED
    BY <1>1, <1>2, <1>3, <2>1 DEF IInv, TypeOK, Labels
<1>5. OneOpPerKey'
  BY <1>1, <1>3 DEF IInv, OneOpPerKey, SameKey, IdOf, Op
<1>6. DecisionsFit'
  <2> SUFFICES ASSUME NEW a \in Callers, pc'[a] = "respond" PROVE DecisionFits(loc[a])'
    BY DEF DecisionsFit
  <2>1. CASE a = c
    <3>1. loc'[a] = d /\ d.op = Len(ops') /\ Len(ops') \in DOMAIN ops'
      BY <1>1, <1>3, <2>1 DEF IInv, TypeOK, CallType
    <3>2. /\ d.kind = l.kind /\ d.key = l.key /\ d.payer = l.payer
          /\ Op(l).kind = l.kind /\ Op(l).key = l.key /\ Op(l).payer = l.payer
      BY <1>1 DEF CallType, Op
    <3> HIDE DEF d, l
    <3> QED
      BY <1>3, <3>1, <3>2 DEF DecisionFits, IdOf, ScopeOf
  <2>2. CASE a # c
    BY <1>1, <1>3, <2>2 DEF DecisionsFit, DecisionFits, IInv, TypeOK
  <2> QED
    BY <2>1, <2>2
<1> QED
  BY <1>4, <1>5, <1>6 DEF IInv

\* Age and Revert touch one operation, and neither its key nor its scope.
LEMMA OpIdentityKept ==
    ASSUME IInv, NEW n \in DOMAIN ops, Age(n) \/ Revert(n)
    PROVE  /\ DOMAIN ops' = DOMAIN ops
           /\ \A m \in DOMAIN ops : /\ ops'[m].kind = ops[m].kind /\ ops'[m].key = ops[m].key
                                    /\ ops'[m].payer = ops[m].payer /\ ops'[m].seq = ops[m].seq
           /\ ops' \in Seq(OpType)
           /\ due' \in [Payers -> Nat]
<1>0. ops \in Seq(OpType) /\ ops[n] \in OpType /\ due \in [Payers -> Nat]
  BY DEF IInv, TypeOK
<1>1. PICK v \in OpType : /\ v.kind = ops[n].kind /\ v.key = ops[n].key
                          /\ v.payer = ops[n].payer /\ v.seq = ops[n].seq
                          /\ ops' = [ops EXCEPT ![n] = v]
  <2>1. /\ [ops[n] EXCEPT !.old = TRUE] \in OpType
        /\ [ops[n] EXCEPT !.live = FALSE] \in OpType
    BY <1>0 DEF OpType
  <2> QED
    BY <1>0, <2>1 DEF Age, Revert, OpType
<1>2. ops' \in Seq(OpType) /\ DOMAIN ops' = DOMAIN ops
  BY <1>0, <1>1
<1>3. ops[n].payer \in Payers
  BY <1>0 DEF OpType
<1>4. due' \in [Payers -> Nat]
  BY <1>0, <1>3 DEF Age, Revert
<1> QED
  BY <1>0, <1>1, <1>2, <1>4

\* Age and Revert change neither the key nor the scope of an operation.
LEMMA OpStep ==
    ASSUME IInv, NEW n \in DOMAIN ops, Age(n) \/ Revert(n)
    PROVE  IInv'
<1>1. /\ DOMAIN ops' = DOMAIN ops
      /\ \A m \in DOMAIN ops : /\ ops'[m].kind = ops[m].kind /\ ops'[m].key = ops[m].key
                               /\ ops'[m].payer = ops[m].payer
      /\ ops' \in Seq(OpType)
      /\ due' \in [Payers -> Nat]
  BY OpIdentityKept
<1>2. TypeOK'
  BY <1>1 DEF Age, Revert, IInv, TypeOK
<1>3. OneOpPerKey'
  BY <1>1 DEF IInv, OneOpPerKey, IdOf
<1>4. DecisionsFit'
  <2> SUFFICES ASSUME NEW a \in Callers, pc'[a] = "respond" PROVE DecisionFits(loc[a])'
    BY DEF DecisionsFit
  <2>1. loc' = loc /\ DecisionFits(loc[a])
    BY DEF Age, Revert, IInv, DecisionsFit
  <2> QED
    BY <1>1, <2>1 DEF DecisionFits, IdOf, ScopeOf
<1> QED
  BY <1>2, <1>3, <1>4 DEF IInv

LEMMA NextIInv == IInv /\ [Next]_vars => IInv'
<1> SUFFICES ASSUME IInv, [Next]_vars PROVE IInv'
  OBVIOUS
<1>1. ASSUME NEW c \in Callers, NEW kind \in Kinds, NEW key \in Keys \cup {NoKey},
             NEW t \in Payers, Call(c, kind, key, t)
      PROVE  IInv'
  <2> DEFINE l == [kind |-> kind, key |-> key, payer |-> t, attempt |-> 0, seq |-> 0,
                   since |-> Len(ops), err |-> "none", answer |-> "none", op |-> 0]
             label == IF key = NoKey THEN "receipt" ELSE "guard"
  <2>1. l \in CallType
    BY DEF CallType, Answers, IInv, TypeOK
  <2>2. label \in Labels /\ label # "respond" /\ calls' \in Nat
    BY <1>1 DEF Labels, Call, IInv, TypeOK
  <2>3. Goto(c, label, l) /\ UNCHANGED <<ops, due, acked>>
    BY <1>1 DEF Call
  <2> HIDE DEF l, label
  <2> QED
    BY <2>1, <2>2, <2>3, LocalStep
<1>2. ASSUME NEW c \in Callers, Serve(c) PROVE IInv'
  <2>1. CASE Guard(c)
    BY <2>1, GuardStep
  <2>2. CASE ReadReceipt(c)
    <3>1. PICK last \in {0} \cup Issued(loc[c].kind) :
                Goto(c, "txn", [loc[c] EXCEPT !.seq = last + 1])
      BY <2>2 DEF ReadReceipt
    <3>2. last + 1 \in Nat
      <4>1. \A n \in DOMAIN ops : ops[n] \in OpType
        BY DEF IInv, TypeOK
      <4>2. \A n \in DOMAIN ops : ops[n].seq \in Nat
        BY <4>1 DEF OpType
      <4>3. last \in Nat
        BY <4>2 DEF Issued
      <4> QED
        BY <4>3
    <3>3. [loc[c] EXCEPT !.seq = last + 1] \in CallType
      <4>1. loc[c] \in CallType
        BY <2>2 DEF ReadReceipt, IInv, TypeOK
      <4> QED
        BY <3>2, <4>1 DEF CallType
    <3>4. UNCHANGED <<ops, due, acked>> /\ calls' \in Nat
      BY <2>2 DEF ReadReceipt, IInv, TypeOK
    <3> QED
      BY <3>1, <3>3, <3>4, LocalStep DEF Labels
  <2>3. CASE Commit(c)
    BY <2>3, CommitStep
  <2>4. CASE Retry(c)
    <3>1. loc[c] \in CallType /\ UNCHANGED <<ops, due, acked>> /\ calls' \in Nat
      BY <2>4 DEF Retry, IInv, TypeOK
    <3>2. \A err \in {"receipt", "key"} :
             /\ [loc[c] EXCEPT !.attempt = @ + 1] \in CallType
             /\ [loc[c] EXCEPT !.attempt = @ + 1, !.err = err] \in CallType
      <4>1. loc[c].attempt + 1 \in Nat
        BY <3>1 DEF CallType
      <4> QED
        BY <3>1, <4>1 DEF CallType
    <3>3. PICK err \in {"receipt", "key"} :
             \/ Goto(c, "receipt", [loc[c] EXCEPT !.attempt = @ + 1])
             \/ Goto(c, "catch", [loc[c] EXCEPT !.attempt = @ + 1, !.err = err])
      BY <2>4 DEF Retry
    <3>4. CASE Goto(c, "receipt", [loc[c] EXCEPT !.attempt = @ + 1])
      BY <3>1, <3>2, <3>4, LocalStep DEF Labels
    <3>5. CASE Goto(c, "catch", [loc[c] EXCEPT !.attempt = @ + 1, !.err = err])
      BY <3>1, <3>2, <3>5, LocalStep DEF Labels
    <3> QED
      BY <3>3, <3>4, <3>5
  <2>5. CASE NothingOwed(c)
    <3>1. [loc[c] EXCEPT !.err = "owed"] \in CallType
      BY <2>5 DEF NothingOwed, IInv, TypeOK, CallType
    <3>2. /\ Goto(c, "catch", [loc[c] EXCEPT !.err = "owed"])
          /\ UNCHANGED <<ops, due, acked>> /\ calls' \in Nat
      BY <2>5 DEF NothingOwed, IInv, TypeOK
    <3> QED
      BY <3>1, <3>2, LocalStep DEF Labels
  <2>6. CASE Catch(c)
    BY <2>6, CatchStep
  <2>7. CASE Respond(c)
    <3>1. loc[c] \in CallType
      BY <2>7 DEF Respond, IInv, TypeOK
    <3>2. acked' \subseteq Ids \X Scopes
      <4>1. loc[c].key # NoKey => IdOf(loc[c]) \in Ids
        BY <3>1 DEF IdOf, Ids, Ledger, CallType
      <4>2. ScopeOf(loc[c]) \in Scopes
        BY <3>1, KindsAssumption DEF ScopeOf, Scopes, Ledger, CallType
      <4> QED
        BY <2>7, <4>1, <4>2 DEF Respond, IInv, TypeOK
    <3>3. TypeOK'
      BY <2>7, <3>2 DEF Respond, Goto, IInv, TypeOK, Labels
    <3>4. OneOpPerKey' /\ DecisionsFit'
      BY <2>7 DEF Respond, Goto, IInv, TypeOK, OneOpPerKey, DecisionsFit, DecisionFits
    <3> QED
      BY <3>3, <3>4 DEF IInv
  <2> QED
    BY <1>2, <2>1, <2>2, <2>3, <2>4, <2>5, <2>6, <2>7 DEF Serve
<1>3. ASSUME NEW c \in Callers, Lose(c) PROVE IInv'
  <2>1. Goto(c, "idle", NoCall) /\ UNCHANGED <<ops, due, acked>> /\ calls' \in Nat
    BY <1>3 DEF Lose, IInv, TypeOK
  <2> QED
    BY <2>1, LocalStep DEF Labels
<1>4. ASSUME NEW n \in DOMAIN ops, Age(n) \/ Revert(n) PROVE IInv'
  BY <1>4, OpStep
<1>5. CASE UNCHANGED vars
  BY <1>5 DEF vars, IInv, TypeOK, OneOpPerKey, DecisionsFit, DecisionFits
<1> QED
  BY <1>1, <1>2, <1>3, <1>4, <1>5 DEF Next

LEMMA InvariantHolds == Spec => []IInv
BY InitIInv, NextIInv, PTL DEF Spec

\* Operations, balances, calls and answers keep their types for any number of
\* callers, calls and attempts.
THEOREM TypeCorrect == Spec => []TypeOK
BY InvariantHolds, PTL DEF IInv

\* However many callers race and retry with one key, one operation is committed
\* for it in its ledger.
THEOREM KeyMovesMoneyOnce == Spec => []OneOpPerKey
BY InvariantHolds, PTL DEF IInv

\* A success answer never speaks of another route's or payer's operation.
THEOREM NeverTheWrongResult == Spec => []AnswerIsOwn
<1>1. IInv => AnswerIsOwn
  BY DEF IInv, DecisionsFit, DecisionFits, AnswerIsOwn, TypeOK
<1> QED
  BY <1>1, InvariantHolds, PTL

-----------------------------------------------------------------------------
(* Failures.  A keyed call looks for its key again before it reports one;   *)
(* every attempt of a call without a key was overtaken by a commit.         *)

\* Where a call without a key stands in its attempts: each was lost to an
\* operation committed since the call began, and a number that is taken when it
\* comes to its transaction was taken by one more.
RaceFits(label, l) ==
    label # "idle" /\ l.key = NoKey =>
        /\ Len(ops) - l.since >= l.attempt
        /\ label = "txn" /\ ReceiptTaken(l) => Len(ops) - l.since > l.attempt
        /\ label = "catch" /\ l.err = "receipt" => l.attempt >= MaxAttempts

RacesFit == \A c \in Callers : RaceFits(pc[c], loc[c])

LEMMA LocalRace ==
    ASSUME IInv, RacesFit, NEW c \in Callers, NEW label, NEW l,
           Goto(c, label, l), ops' = ops, RaceFits(label, l)
    PROVE  RacesFit'
<1> SUFFICES ASSUME NEW a \in Callers PROVE RaceFits(pc[a], loc[a])'
  BY DEF RacesFit
<1>1. CASE a = c
  <2>1. pc'[a] = label /\ loc'[a] = l
    BY <1>1 DEF Goto, IInv, TypeOK
  <2> QED
    BY <2>1 DEF RaceFits, ReceiptTaken
<1>2. CASE a # c
  <2>1. pc'[a] = pc[a] /\ loc'[a] = loc[a] /\ RaceFits(pc[a], loc[a])
    BY <1>2 DEF Goto, IInv, TypeOK, RacesFit
  <2> QED
    BY <2>1 DEF RaceFits, ReceiptTaken
<1> QED
  BY <1>1, <1>2

\* A decision leaves the attempts alone.
LEMMA DecideRace ==
    ASSUME IInv, RacesFit, NEW c \in Callers, pc[c] # "idle", NEW answer, NEW n,
           Decide(c, answer, n), ops' = ops
    PROVE  RacesFit'
<1> DEFINE l == [loc[c] EXCEPT !.answer = answer, !.op = n]
<1>1. loc[c] \in CallType /\ RaceFits(pc[c], loc[c])
  BY DEF IInv, TypeOK, RacesFit
<1>2. l.key = loc[c].key /\ l.since = loc[c].since /\ l.attempt = loc[c].attempt
  BY <1>1 DEF CallType
<1>3. Goto(c, "respond", l)
  BY DEF Decide
<1> HIDE DEF l
<1>4. RaceFits("respond", l)
  BY <1>1, <1>2 DEF RaceFits
<1> QED
  BY <1>3, <1>4, LocalRace

\* The number that is read is above every issued one of its series.
LEMMA ReadRace ==
    ASSUME IInv, RacesFit, NEW c \in Callers, ReadReceipt(c)
    PROVE  RacesFit'
<1>1. PICK last \in {0} \cup Issued(loc[c].kind) :
          /\ \A n \in Issued(loc[c].kind) : n <= last
          /\ Goto(c, "txn", [loc[c] EXCEPT !.seq = last + 1])
  BY DEF ReadReceipt
<1> DEFINE l == [loc[c] EXCEPT !.seq = last + 1]
<1>2. /\ loc[c] \in CallType /\ RaceFits(pc[c], loc[c]) /\ pc[c] = "receipt"
      /\ ops' = ops /\ \A n \in DOMAIN ops : ops[n].seq \in Nat
  <2>1. \A n \in DOMAIN ops : ops[n] \in OpType
    BY DEF IInv, TypeOK
  <2>2. \A n \in DOMAIN ops : ops[n].seq \in Nat
    BY <2>1 DEF OpType
  <2> QED
    BY <2>2 DEF ReadReceipt, IInv, TypeOK, RacesFit
<1>3. /\ l.key = loc[c].key /\ l.since = loc[c].since /\ l.attempt = loc[c].attempt
      /\ l.kind = loc[c].kind /\ l.seq = last + 1
  BY <1>2 DEF CallType
<1>4. last \in Nat
  BY <1>2 DEF Issued
<1> HIDE DEF l
<1>5. ~ReceiptTaken(l)
  <2> SUFFICES ASSUME NEW n \in DOMAIN ops, SameShape(ops[n].kind, l.kind), ops[n].seq = l.seq
               PROVE  FALSE
    BY DEF ReceiptTaken
  <2>1. ops[n].seq \in Issued(loc[c].kind)
    BY <1>3 DEF Issued, SameShape, Series
  <2> QED
    BY <1>1, <1>3, <1>4, <2>1
<1>6. RaceFits("txn", l)
  BY <1>2, <1>3, <1>5 DEF RaceFits
<1> QED
  BY <1>1, <1>2, <1>6, LocalRace DEF l

\* A commit is the race that the other calls may lose.
LEMMA CommitRace ==
    ASSUME IInv, RacesFit, NEW c \in Callers, Commit(c)
    PROVE  RacesFit'
<1> DEFINE d == [loc[c] EXCEPT !.answer = "created", !.op = Len(ops) + 1]
<1>1. /\ loc[c] \in CallType /\ ops \in Seq(OpType) /\ Len(ops) \in Nat
      /\ ops' = Append(ops, Op(loc[c])) /\ Goto(c, "respond", d)
  BY DEF Commit, Pay, Decide, IInv, TypeOK
<1>2. Len(ops') = Len(ops) + 1
  BY <1>1
<1> SUFFICES ASSUME NEW a \in Callers PROVE RaceFits(pc[a], loc[a])'
  BY DEF RacesFit
<1>3. CASE a = c
  <2>1. pc'[a] = "respond" /\ loc'[a] = d
    BY <1>1, <1>3 DEF Goto, IInv, TypeOK
  <2>2. d.key = loc[c].key /\ d.since = loc[c].since /\ d.attempt = loc[c].attempt
    BY <1>1 DEF CallType
  <2>3. RaceFits("txn", loc[c]) /\ loc[c].since \in Nat /\ loc[c].attempt \in Nat
    BY <1>1 DEF Commit, RacesFit, CallType
  <2> HIDE DEF d
  <2> QED
    BY <1>1, <1>2, <2>1, <2>2, <2>3 DEF RaceFits
<1>4. CASE a # c
  <2>1. pc'[a] = pc[a] /\ loc'[a] = loc[a] /\ RaceFits(pc[a], loc[a])
    BY <1>1, <1>4 DEF Goto, IInv, TypeOK, RacesFit
  <2>2. pc[a] # "idle" => loc[a].since \in Nat /\ loc[a].attempt \in Nat
    BY DEF IInv, TypeOK, CallType
  <2> QED
    BY <1>1, <1>2, <2>1, <2>2 DEF RaceFits
<1> QED
  BY <1>3, <1>4

\* Only a number that is taken sends a call without a key to its next attempt.
LEMMA RetryRace ==
    ASSUME IInv, RacesFit, NEW c \in Callers, Retry(c)
    PROVE  RacesFit'
<1> DEFINE l == loc[c]
           again == [l EXCEPT !.attempt = @ + 1]
<1>1. /\ l \in CallType /\ RaceFits("txn", l) /\ ops' = ops /\ Len(ops) \in Nat
  BY DEF Retry, IInv, TypeOK, RacesFit
<1>2. PICK err \in {"receipt", "key"} :
          /\ err = "receipt" => ReceiptTaken(l)
          /\ err = "key" => KeyTaken(l)
          /\ IF l.attempt < MaxAttempts - 1 THEN Goto(c, "receipt", again)
             ELSE Goto(c, "catch", [again EXCEPT !.err = err])
  BY <1>1 DEF Retry, CallType
<1>3. l.key = NoKey => ~KeyTaken(l)
  BY DEF KeyTaken, Holders, SameKey
<1>4. l.key = NoKey => Len(ops) - l.since > l.attempt
  BY <1>1, <1>2, <1>3 DEF RaceFits
<1>5. /\ again.key = l.key /\ again.since = l.since /\ again.attempt = l.attempt + 1
      /\ l.since \in Nat /\ l.attempt \in Nat /\ again \in CallType
  BY <1>1 DEF CallType
<1> HIDE DEF l, again
<1>6. CASE l.attempt < MaxAttempts - 1
  <2>1. RaceFits("receipt", again)
    BY <1>1, <1>4, <1>5 DEF RaceFits
  <2> QED
    BY <1>1, <1>2, <1>6, <2>1, LocalRace
<1>7. CASE ~(l.attempt < MaxAttempts - 1)
  <2> DEFINE gone == [again EXCEPT !.err = err]
  <2>1. gone.key = l.key /\ gone.since = l.since /\ gone.attempt = l.attempt + 1
    BY <1>5 DEF CallType
  <2>2. l.attempt + 1 >= MaxAttempts
    BY <1>5, <1>7, BoundsAssumption
  <2> HIDE DEF gone
  <2>3. RaceFits("catch", gone)
    BY <1>1, <1>4, <1>5, <2>1, <2>2 DEF RaceFits
  <2> QED
    BY <1>1, <1>2, <1>7, <2>3, LocalRace DEF gone
<1> QED
  BY <1>6, <1>7

LEMMA InitRaces == Init => RacesFit
BY DEF Init, RacesFit, RaceFits

LEMMA NextRaces == IInv /\ RacesFit /\ [Next]_vars => RacesFit'
<1> SUFFICES ASSUME IInv, RacesFit, [Next]_vars PROVE RacesFit'
  OBVIOUS
<1>1. ASSUME NEW c \in Callers, NEW kind \in Kinds, NEW key \in Keys \cup {NoKey},
             NEW t \in Payers, Call(c, kind, key, t)
      PROVE  RacesFit'
  <2> DEFINE l == [kind |-> kind, key |-> key, payer |-> t, attempt |-> 0, seq |-> 0,
                   since |-> Len(ops), err |-> "none", answer |-> "none", op |-> 0]
             label == IF key = NoKey THEN "receipt" ELSE "guard"
  <2>1. Goto(c, label, l) /\ ops' = ops
    BY <1>1 DEF Call
  <2>2. l.since = Len(ops) /\ l.attempt = 0 /\ label \notin {"txn", "catch"} /\ Len(ops) \in Nat
    BY DEF IInv, TypeOK
  <2> HIDE DEF l, label
  <2>3. RaceFits(label, l)
    BY <2>2 DEF RaceFits
  <2> QED
    BY <2>1, <2>3, LocalRace
<1>2. ASSUME NEW c \in Callers, Serve(c) PROVE RacesFit'
  <2>1. CASE Guard(c)
    <3>0. pc[c] = "guard" /\ ops' = ops /\ RaceFits(pc[c], loc[c])
      BY <2>1 DEF Guard, RacesFit
    <3>1. ASSUME Goto(c, "receipt", loc[c]) PROVE RacesFit'
      <4>1. RaceFits("receipt", loc[c])
        BY <3>0 DEF RaceFits
      <4> QED
        BY <3>0, <3>1, <4>1, LocalRace
    <3>2. ASSUME NEW answer, NEW n, Decide(c, answer, n) PROVE RacesFit'
      BY <3>0, <3>2, DecideRace
    <3> QED
      BY <2>1, <3>1, <3>2 DEF Guard, GuardOperation, GuardSingle, GuardFamily
  <2>2. CASE ReadReceipt(c)
    BY <2>2, ReadRace
  <2>3. CASE Commit(c)
    BY <2>3, CommitRace
  <2>4. CASE Retry(c)
    BY <2>4, RetryRace
  <2>5. CASE NothingOwed(c)
    <3> DEFINE l == [loc[c] EXCEPT !.err = "owed"]
    <3>1. /\ loc[c] \in CallType /\ RaceFits("txn", loc[c]) /\ ops' = ops
          /\ Goto(c, "catch", l)
      BY <2>5 DEF NothingOwed, IInv, TypeOK, RacesFit
    <3>2. /\ l.key = loc[c].key /\ l.since = loc[c].since /\ l.attempt = loc[c].attempt
          /\ l.err = "owed"
      BY <3>1 DEF CallType
    <3> HIDE DEF l
    <3>3. RaceFits("catch", l)
      BY <3>1, <3>2 DEF RaceFits
    <3> QED
      BY <3>1, <3>3, LocalRace
  <2>6. CASE Catch(c)
    <3>1. pc[c] = "catch" /\ ops' = ops
      BY <2>6 DEF Catch
    <3>2. ASSUME NEW answer, NEW n, Decide(c, answer, n) PROVE RacesFit'
      BY <3>1, <3>2, DecideRace
    <3> QED
      BY <2>6, <3>2 DEF Catch, CatchOperation, CatchSingle, CatchFamily
  <2>7. CASE Respond(c)
    <3>1. RaceFits("idle", NoCall)
      BY DEF RaceFits
    <3> QED
      BY <2>7, <3>1, LocalRace DEF Respond
  <2> QED
    BY <1>2, <2>1, <2>2, <2>3, <2>4, <2>5, <2>6, <2>7 DEF Serve
<1>3. ASSUME NEW c \in Callers, Lose(c) PROVE RacesFit'
  <2>1. RaceFits("idle", NoCall)
    BY DEF RaceFits
  <2> QED
    BY <1>3, <2>1, LocalRace DEF Lose
<1>4. ASSUME NEW n \in DOMAIN ops, Age(n) \/ Revert(n) PROVE RacesFit'
  <2>1. /\ DOMAIN ops' = DOMAIN ops /\ pc' = pc /\ loc' = loc /\ ops \in Seq(OpType)
        /\ \A m \in DOMAIN ops : ops'[m].kind = ops[m].kind /\ ops'[m].seq = ops[m].seq
        /\ ops' \in Seq(OpType)
    BY <1>4, OpIdentityKept DEF Age, Revert, IInv, TypeOK
  <2>2. Len(ops') = Len(ops)
    BY <2>1
  <2> SUFFICES ASSUME NEW a \in Callers PROVE RaceFits(pc[a], loc[a])'
    BY DEF RacesFit
  <2>3. RaceFits(pc[a], loc[a])
    BY DEF RacesFit
  <2>4. ReceiptTaken(loc[a])' => ReceiptTaken(loc[a])
    BY <2>1 DEF ReceiptTaken
  <2> QED
    BY <2>1, <2>2, <2>3, <2>4 DEF RaceFits
<1>5. CASE UNCHANGED vars
  BY <1>5 DEF vars, RacesFit, RaceFits, ReceiptTaken
<1> QED
  BY <1>1, <1>2, <1>3, <1>4, <1>5 DEF Next

\* A failure is reported only where the look-up found no operation of the call's
\* own key and scope: the key has one holder, and that one is of another scope.
LEMMA FailureStep ==
    ASSUME IInv, NEW c \in Callers, Catch(c), loc[c].kind # "single",
           loc'[c].answer \in {"rejected", "failed"}
    PROVE  ~\E n \in DOMAIN ops : SameKey(ops[n], loc[c]) /\ SameScope(ops[n], loc[c])
<1> DEFINE l == loc[c]
<1>1. l \in CallType /\ l.kind \in Kinds
  BY DEF Catch, IInv, TypeOK, CallType
<1>2. Ledger(l.kind) # "payments"
  BY <1>1, KindsAssumption DEF Ledger
<1>3. ASSUME NEW answer, NEW n, Decide(c, answer, n) PROVE answer \in {"rejected", "failed"}
  BY <1>1, <1>3 DEF Decide, Goto, IInv, TypeOK, CallType
<1>4. \A n \in Holders(l) : n \in DOMAIN ops /\ SameKey(ops[n], l)
  BY DEF Holders
<1>5. \A m, n \in Holders(l) : m = n
  BY <1>4 DEF IInv, OneOpPerKey, SameKey, IdOf
<1>6. SUFFICES \A n \in Holders(l) : ~SameScope(ops[n], l)
  BY DEF Holders
<1>7. ASSUME NEW n, Decide(c, "replayed", n) PROVE FALSE
  BY <1>3, <1>7
<1>8. CASE CatchOperation(c)
  BY <1>5, <1>7, <1>8 DEF CatchOperation
<1>9. CASE CatchFamily(c)
  BY <1>7, <1>9 DEF CatchFamily
<1> QED
  BY <1>2, <1>8, <1>9 DEF Catch

\* A failure means that the request had no effect, and a receipt number that could
\* not be had means that every attempt lost a race: for any number of callers,
\* calls and attempts.
THEOREM FailuresEarned == Spec => FailuresAreEarned
<1>1. IInv /\ [Next]_vars =>
         [\A c \in Callers :
            Catch(c) /\ loc[c].kind # "single" /\ loc'[c].answer \in {"rejected", "failed"} =>
              ~\E n \in DOMAIN ops : SameKey(ops[n], loc[c]) /\ SameScope(ops[n], loc[c])]_vars
  BY FailureStep
<1>2. IInv /\ RacesFit => EachRetryLostARace
  <2> SUFFICES ASSUME IInv, RacesFit, NEW c \in Callers, pc[c] = "catch",
                      loc[c].err = "receipt", loc[c].key = NoKey
               PROVE  Len(ops) - loc[c].since >= MaxAttempts
    BY DEF EachRetryLostARace
  <2>1. /\ Len(ops) \in Nat /\ loc[c].since \in Nat /\ loc[c].attempt \in Nat
        /\ RaceFits("catch", loc[c])
    BY DEF IInv, TypeOK, CallType, RacesFit
  <2> QED
    BY <2>1, BoundsAssumption DEF RaceFits
<1> QED
  BY <1>1, <1>2, InvariantHolds, InitRaces, NextRaces, PTL
     DEF Spec, FailuresAreEarned, FailureMeansNoEffect

-----------------------------------------------------------------------------
(* The refinement of ExactlyOnce.                                          *)

LEMMA InitRefines == Init => Promise!Init
BY DEF Init, Promise!Init, Effects

\* A commit of a keyed call performs its effect; of a call without a key, none.
LEMMA CommitRefines ==
    ASSUME IInv, IInv', NEW c \in Callers, Commit(c)
    PROVE  Promise!Perform \/ UNCHANGED <<Effects, acked>>
<1> DEFINE l == loc[c]
<1>0. PICK new \in Nat : new = Len(ops) + 1
  BY DEF IInv, TypeOK
<1>1. /\ l \in CallType /\ ops \in Seq(OpType) /\ ops' \in Seq(OpType)
      /\ ops' = Append(ops, Op(l)) /\ acked' = acked
      /\ \A n \in DOMAIN ops : ~SameKey(ops[n], l)
  BY DEF Commit, Pay, Decide, KeyTaken, Holders, IInv, TypeOK
<1>2. /\ ops'[new] = Op(l) /\ new \in DOMAIN ops'
      /\ \A n \in DOMAIN ops : n \in DOMAIN ops' /\ ops'[n] = ops[n]
      /\ \A n \in DOMAIN ops' : n \in DOMAIN ops \/ n = new
  BY <1>0, <1>1
<1>3. /\ Op(l).kind = l.kind /\ Op(l).key = l.key /\ Op(l).payer = l.payer
  BY DEF Op
<1> HIDE DEF l
<1>4. \A n \in DOMAIN ops : EffectOf(n)' = EffectOf(n)
  BY <1>2 DEF EffectOf
<1>5. CASE l.key = NoKey
  <2>1. Effects' = Effects
    BY <1>2, <1>3, <1>4, <1>5 DEF Effects
  <2> QED
    BY <1>1, <2>1
<1>6. CASE l.key # NoKey
  <2> DEFINE e == EffectOf(new)'
  <2>1. Effects' = Effects \cup {e}
    BY <1>2, <1>3, <1>4, <1>6 DEF Effects
  <2>2. \A d \in Effects : d.id # e.id
    BY <1>1, <1>2, <1>3, <1>6 DEF Effects, EffectOf, SameKey, IdOf
  <2>3. e \in [id : Ids, scope : Scopes, nth : Nat]
    <3>1. l.key \in Keys /\ l.payer \in Payers /\ l.kind \in Kinds
      BY <1>1, <1>6 DEF CallType
    <3>2. IdOf(Op(l)) \in Ids
      BY <1>3, <3>1 DEF IdOf, Ids, Ledger
    <3>3. ScopeOf(Op(l)) \in Scopes
      BY <1>3, <3>1 DEF ScopeOf, Scopes, Ledger
    <3> QED
      BY <1>1, <1>2, <3>2, <3>3 DEF EffectOf
  <2> HIDE DEF e
  <2> QED
    BY <1>1, <2>1, <2>2, <2>3 DEF Promise!Perform, Promise!Effect
<1> QED
  BY <1>5, <1>6

\* An answer that is delivered acknowledges an effect of its own key.
LEMMA RespondRefines ==
    ASSUME IInv, NEW c \in Callers, Respond(c)
    PROVE  Promise!Ack \/ UNCHANGED <<Effects, acked>>
<1> DEFINE l == loc[c]
<1>1. Effects' = Effects
  BY DEF Respond, Effects, EffectOf
<1>2. CASE ~(l.op # 0 /\ l.key # NoKey)
  BY <1>1, <1>2 DEF Respond
<1>3. CASE l.op # 0 /\ l.key # NoKey
  <2>1. /\ l.op \in DOMAIN ops /\ IdOf(ops[l.op]) = IdOf(l)
        /\ ScopeOf(ops[l.op]) = ScopeOf(l)
    BY <1>3 DEF Respond, IInv, DecisionsFit, DecisionFits
  <2>2. ops[l.op].key = l.key
    BY <2>1 DEF IdOf
  <2>3. EffectOf(l.op) \in Effects
    BY <1>3, <2>1, <2>2 DEF Effects
  <2>4. acked' = acked \cup {<<EffectOf(l.op).id, EffectOf(l.op).scope>>}
    BY <1>3, <2>1 DEF Respond, EffectOf
  <2> QED
    BY <1>1, <2>3, <2>4 DEF Promise!Ack
<1> QED
  BY <1>2, <1>3

LEMMA StepRefines == IInv /\ IInv' /\ [Next]_vars => [Promise!Next]_<<Effects, acked>>
<1> SUFFICES ASSUME IInv, IInv', [Next]_vars
             PROVE  Promise!Next \/ UNCHANGED <<Effects, acked>>
  OBVIOUS
<1>1. ASSUME UNCHANGED <<ops, acked>> PROVE UNCHANGED <<Effects, acked>>
  BY <1>1 DEF Effects, EffectOf
<1>2. ASSUME NEW c \in Callers, Serve(c) PROVE Promise!Next \/ UNCHANGED <<Effects, acked>>
  <2>1. CASE Commit(c)
    BY <2>1, CommitRefines DEF Promise!Next
  <2>2. CASE Respond(c)
    BY <2>2, RespondRefines DEF Promise!Next
  <2>3. CASE Guard(c) \/ ReadReceipt(c) \/ Retry(c) \/ NothingOwed(c) \/ Catch(c)
    BY <1>1, <2>3 DEF Guard, ReadReceipt, Retry, NothingOwed, Catch
  <2> QED
    BY <1>2, <2>1, <2>2, <2>3 DEF Serve
<1>3. ASSUME NEW n \in DOMAIN ops, Age(n) \/ Revert(n)
      PROVE  UNCHANGED <<Effects, acked>>
  <2>1. /\ DOMAIN ops' = DOMAIN ops /\ acked' = acked
        /\ \A m \in DOMAIN ops : /\ ops'[m].kind = ops[m].kind /\ ops'[m].key = ops[m].key
                                 /\ ops'[m].payer = ops[m].payer
    BY <1>3, OpIdentityKept DEF Age, Revert
  <2>2. \A m \in DOMAIN ops : EffectOf(m)' = EffectOf(m)
    BY <2>1 DEF EffectOf, IdOf, ScopeOf
  <2> QED
    BY <2>1, <2>2 DEF Effects
<1>4. ASSUME NEW c \in Callers, NEW kind \in Kinds, NEW key \in Keys \cup {NoKey},
             NEW t \in Payers, Call(c, kind, key, t)
      PROVE  UNCHANGED <<Effects, acked>>
  BY <1>1, <1>4 DEF Call
<1>5. ASSUME NEW c \in Callers, Lose(c) PROVE UNCHANGED <<Effects, acked>>
  BY <1>1, <1>5 DEF Lose
<1>6. CASE UNCHANGED vars
  BY <1>1, <1>6 DEF vars
<1> QED
  BY <1>2, <1>3, <1>4, <1>5, <1>6 DEF Next

\* The payment routes implement ExactlyOnce for any number of racing callers.
THEOREM PaymentsExactlyOnce == Spec => PromiseKept
<1>1. Init => Promise!Init
  BY InitRefines
<1>2. IInv /\ IInv' /\ [Next]_vars => [Promise!Next]_<<Effects, acked>>
  BY StepRefines
<1> QED
  BY <1>1, <1>2, InvariantHolds, PTL DEF Spec, PromiseKept, Promise!Spec

=============================================================================
