--------------------------- MODULE PaymentRequests ---------------------------
(***************************************************************************)
(* How fee.routes.ts runs a payment request: the look-up of its idempotency *)
(* key, the receipt number read and retried on a unique violation, the      *)
(* transaction, and the convergence onto a same-key winner when it fails.   *)
(*                                                                         *)
(* There are three key ledgers: payments.idempotencyKey (single payments),  *)
(* payment_operations (waterfall and allocate) and family_payments (the two *)
(* family routes); each has a unique index.  A caller that loses an answer  *)
(* may call again with the same key.  What a payment does to the fees is    *)
(* module FeeLedger; here a payment takes one unit off what its payer owes. *)
(***************************************************************************)
EXTENDS Integers, Sequences

CONSTANTS
    Callers,      \* concurrent HTTP callers
    Keys,         \* idempotency keys clients mint
    NoKey,        \* a request without a key
    Payers,       \* the fee, student or family a request names
    Kinds,        \* the routes the callers of a run use
    MaxAttempts,  \* maxAttempts of the two receipt generators (10)
    MaxCalls,     \* bound: calls made
    Owed,         \* units each payer owes at first
    NoCall        \* the locals of a caller that is not calling

ASSUME KeysAssumption == NoKey \notin Keys
ASSUME KindsAssumption ==
    Kinds \subseteq {"single", "waterfall", "allocate", "family", "familyAllocate"}
ASSUME BoundsAssumption ==
    MaxAttempts \in Nat \ {0} /\ MaxCalls \in Nat /\ Owed \in Nat

VARIABLES
    ops,     \* committed payment operations, in order of commit
    due,     \* due[t]: units payer t still owes
    calls,   \* number of calls made
    pc,      \* pc[c]: the next step of the call of c
    loc,     \* loc[c]: the call's locals
    acked    \* history: <<id, scope>> of every success answer delivered

vars == <<ops, due, calls, pc, loc, acked>>

\* The ledger a route keeps its keys in, and what must match on a replay.
Ledger(kind) ==
    IF kind = "single" THEN "payments"
    ELSE IF kind \in {"waterfall", "allocate"} THEN "payment_operations"
    ELSE "family_payments"

IdOf(r) == <<Ledger(r.kind), r.key>>
ScopeOf(r) == IF Ledger(r.kind) = "payment_operations" THEN <<r.kind, r.payer>>
              ELSE <<Ledger(r.kind), r.payer>>

SameKey(o, l) == l.key # NoKey /\ IdOf(o) = IdOf(l)
SameScope(o, l) == ScopeOf(o) = ScopeOf(l)

\* Operations with the key of call l in its ledger; at most one (OneOpPerKey).
Holders(l) == {n \in DOMAIN ops : SameKey(ops[n], l)}

\* Receipt numbers.  Single payments and the batches draw RCP numbers from the
\* payments table, the family routes FMP numbers from family_payments.
Series(kind) == IF Ledger(kind) = "family_payments" THEN "FMP" ELSE "RCP"

\* Mutant: the last four characters of a suffixed number are taken for its
\* sequence number, so the receipts of a batch do not count.
IssuedUnsuffixed(kind) ==
    {ops[n].seq : n \in {m \in DOMAIN ops :
        Series(ops[m].kind) = Series(kind) /\ Ledger(ops[m].kind) # "payment_operations"}}

Issued(kind) == {ops[n].seq : n \in {m \in DOMAIN ops : Series(ops[m].kind) = Series(kind)}}

\* A single payment stores the base number, a batch the base with -1, -2, ...:
\* the unique index only sees two of the same shape.
SameShape(k1, k2) == Ledger(k1) = Ledger(k2)
ReceiptTaken(l) ==
    \E n \in DOMAIN ops : SameShape(ops[n].kind, l.kind) /\ ops[n].seq = l.seq
KeyTaken(l) == Holders(l) # {}

Init ==
    /\ ops = <<>>
    /\ due = [t \in Payers |-> Owed]
    /\ calls = 0
    /\ pc = [c \in Callers |-> "idle"]
    /\ loc = [c \in Callers |-> NoCall]
    /\ acked = {}

Goto(c, label, l) ==
    /\ pc' = [pc EXCEPT ![c] = label]
    /\ loc' = [loc EXCEPT ![c] = l]

\* The handler has its answer: "created" or "replayed" about operation n, or
\* one of the failures (n = 0).
Decide(c, answer, n) ==
    Goto(c, "respond", [loc[c] EXCEPT !.answer = answer, !.op = n])

-----------------------------------------------------------------------------
(* One call.                                                               *)

Call(c, kind, key, t) ==
    /\ pc[c] = "idle"
    /\ calls < MaxCalls
    /\ calls' = calls + 1
    /\ Goto(c, IF key = NoKey THEN "receipt" ELSE "guard",
            [kind |-> kind, key |-> key, payer |-> t, attempt |-> 0, seq |-> 0,
             since |-> Len(ops), err |-> "none", answer |-> "none", op |-> 0])
    /\ UNCHANGED <<ops, due, acked>>

\* Mutant: the route and the student of the key are not compared.
GuardOperationAnyScope(c) ==
    \/ /\ Holders(loc[c]) = {}
       /\ Goto(c, "receipt", loc[c])
    \/ \E n \in Holders(loc[c]) : Decide(c, "replayed", n)

\* findOperationReplay: a key of another route or student is answered 409.
GuardOperation(c) ==
    LET l == loc[c]
    IN  \/ /\ Holders(l) = {}
           /\ Goto(c, "receipt", l)
        \/ \E n \in Holders(l) :
             IF SameScope(ops[n], l) THEN Decide(c, "replayed", n)
             ELSE Decide(c, "otherOperation", 0)

\* The single-payment guard: same fee, not reverted, younger than five minutes
\* (an older one is not replayed here; its unique key stops it later).
GuardSingle(c) ==
    LET l == loc[c]
    IN  \/ /\ \A n \in Holders(l) : SameScope(ops[n], l) /\ ops[n].live => ops[n].old
           /\ Goto(c, "receipt", l)
        \/ \E n \in Holders(l) :
             /\ SameScope(ops[n], l) /\ ops[n].live /\ ~ops[n].old
             /\ Decide(c, "replayed", n)

\* findFamilyPaymentReplay looks for the key within the family.
GuardFamily(c) ==
    LET l == loc[c]
        found == {n \in Holders(l) : SameScope(ops[n], l)}
    IN  \/ /\ found = {}
           /\ Goto(c, "receipt", l)
        \/ \E n \in found : Decide(c, "replayed", n)

Guard(c) ==
    /\ pc[c] = "guard"
    /\ \/ Ledger(loc[c].kind) = "payment_operations" /\ GuardOperation(c)
       \/ Ledger(loc[c].kind) = "payments" /\ GuardSingle(c)
       \/ Ledger(loc[c].kind) = "family_payments" /\ GuardFamily(c)
    /\ UNCHANGED <<ops, due, calls, acked>>

\* generateReceiptNumber, generateFamilyReceiptNumber: the next number is read
\* outside the transaction that uses it.
ReadReceipt(c) ==
    /\ pc[c] = "receipt"
    /\ \E last \in {0} \cup Issued(loc[c].kind) :
         /\ \A n \in Issued(loc[c].kind) : n <= last
         /\ Goto(c, "txn", [loc[c] EXCEPT !.seq = last + 1])
    /\ UNCHANGED <<ops, due, calls, acked>>

\* A single payment is taken whatever is owed; the other routes refuse one.
Payable(l) == l.kind = "single" \/ due[l.payer] > 0

Op(l) == [kind |-> l.kind, key |-> l.key, payer |-> l.payer, seq |-> l.seq,
          live |-> TRUE, old |-> FALSE]

\* Mutant: an overpaid single payment drives the balance below zero.
PayBelowZero(c) ==
    /\ ops' = Append(ops, Op(loc[c]))
    /\ due' = [due EXCEPT ![loc[c].payer] = @ - 1]
    /\ Decide(c, "created", Len(ops) + 1)
    /\ UNCHANGED <<calls, acked>>

Pay(c) ==
    LET l == loc[c]
    IN  /\ ops' = Append(ops, Op(l))
        /\ due' = [due EXCEPT ![l.payer] = IF @ > 0 THEN @ - 1 ELSE 0]
        /\ Decide(c, "created", Len(ops) + 1)
        /\ UNCHANGED <<calls, acked>>

\* Mutant: the idempotency row is not written in the payment's transaction.
CommitWithoutKey(c) ==
    /\ pc[c] = "txn"
    /\ Payable(loc[c])
    /\ ~ReceiptTaken(loc[c])
    /\ Pay(c)

Commit(c) ==
    /\ pc[c] = "txn"
    /\ Payable(loc[c])
    /\ ~ReceiptTaken(loc[c])
    /\ ~KeyTaken(loc[c])
    /\ Pay(c)

\* P2002 on either index: the next attempt, or the handler's catch block.
\* familyAllocate inserts its header before it looks at what is owed.
Retry(c) ==
    LET l == loc[c]
    IN  /\ pc[c] = "txn"
        /\ Payable(l) \/ l.kind = "familyAllocate"
        /\ \E err \in {"receipt", "key"} :
             /\ err = "receipt" => ReceiptTaken(l)
             /\ err = "key" => KeyTaken(l)
             /\ IF l.attempt < MaxAttempts - 1
                THEN Goto(c, "receipt", [l EXCEPT !.attempt = @ + 1])
                ELSE Goto(c, "catch", [l EXCEPT !.attempt = @ + 1, !.err = err])
        /\ UNCHANGED <<ops, due, calls, acked>>

\* Nothing is owed (any more): the handler throws a 400 inside the transaction.
NothingOwed(c) ==
    /\ pc[c] = "txn"
    /\ ~Payable(loc[c])
    /\ Goto(c, "catch", [loc[c] EXCEPT !.err = "owed"])
    /\ UNCHANGED <<ops, due, calls, acked>>

\* The answer of a failed request that did not converge.
Failure(l) == IF l.err = "owed" THEN "rejected" ELSE "failed"

\* findOperationReplay on a key conflict, replayIfCompleted otherwise (which
\* swallows the 409 of another scope).
CatchOperation(c) ==
    LET l == loc[c]
    IN  \/ /\ Holders(l) = {}
           /\ Decide(c, Failure(l), 0)
        \/ \E n \in Holders(l) :
             IF SameScope(ops[n], l) THEN Decide(c, "replayed", n)
             ELSE Decide(c, IF l.err = "key" THEN "otherOperation" ELSE Failure(l), 0)

\* Only a key conflict is looked up again, and only a live payment is a winner.
CatchSingle(c) ==
    LET l == loc[c]
        winner == {n \in Holders(l) : l.err = "key" /\ SameScope(ops[n], l) /\ ops[n].live}
    IN  \/ /\ winner = {}
           /\ Decide(c, Failure(l), 0)
        \/ \E n \in winner : Decide(c, "replayed", n)

CatchFamily(c) ==
    LET l == loc[c]
        found == {n \in Holders(l) : SameScope(ops[n], l)}
    IN  \/ /\ found = {}
           /\ Decide(c, Failure(l), 0)
        \/ \E n \in found : Decide(c, "replayed", n)

\* Mutant: the failure is reported as it is.
CatchNoReplay(c) ==
    /\ pc[c] = "catch"
    /\ Decide(c, Failure(loc[c]), 0)
    /\ UNCHANGED <<ops, due, calls, acked>>

Catch(c) ==
    /\ pc[c] = "catch"
    /\ \/ Ledger(loc[c].kind) = "payment_operations" /\ CatchOperation(c)
       \/ Ledger(loc[c].kind) = "payments" /\ CatchSingle(c)
       \/ Ledger(loc[c].kind) = "family_payments" /\ CatchFamily(c)
    /\ UNCHANGED <<ops, due, calls, acked>>

\* The answer reaches the caller ...
Respond(c) ==
    LET l == loc[c]
    IN  /\ pc[c] = "respond"
        /\ acked' = IF l.op # 0 /\ l.key # NoKey
                    THEN acked \cup {<<IdOf(l), ScopeOf(l)>>} ELSE acked
        /\ Goto(c, "idle", NoCall)
        /\ UNCHANGED <<ops, due, calls>>

\* ... or does not: the connection or the process is lost at any point of the
\* call, a transaction not yet committed is rolled back.
Lose(c) ==
    /\ pc[c] # "idle"
    /\ Goto(c, "idle", NoCall)
    /\ UNCHANGED <<ops, due, calls, acked>>

-----------------------------------------------------------------------------
(* The rest of the system: time and reverts (module FeeLedger).             *)

\* Five minutes have passed since a single payment.
Age(n) ==
    /\ ops[n].kind = "single" /\ ~ops[n].old
    /\ ops' = [ops EXCEPT ![n].old = TRUE]
    /\ UNCHANGED <<due, calls, pc, loc, acked>>

\* An admin reverts the payments of an operation.
Revert(n) ==
    /\ ops[n].live
    /\ ops' = [ops EXCEPT ![n].live = FALSE]
    /\ due' = [due EXCEPT ![ops[n].payer] = @ + 1]
    /\ UNCHANGED <<calls, pc, loc, acked>>

Serve(c) ==
    \/ Guard(c) \/ ReadReceipt(c) \/ Commit(c) \/ Retry(c) \/ NothingOwed(c)
    \/ Catch(c) \/ Respond(c)

Next ==
    \/ \E c \in Callers :
         \/ \E kind \in Kinds, key \in Keys \cup {NoKey}, t \in Payers : Call(c, kind, key, t)
         \/ Serve(c)
         \/ Lose(c)
    \/ \E n \in DOMAIN ops : Age(n) \/ Revert(n)

Spec == Init /\ [][Next]_vars

-----------------------------------------------------------------------------
(* Properties.                                                             *)

Labels == {"idle", "guard", "receipt", "txn", "catch", "respond"}
Answers == {"none", "created", "replayed", "otherOperation", "rejected", "failed"}
Answered == {"created", "replayed"}
CallType == [kind : Kinds, key : Keys \cup {NoKey}, payer : Payers, attempt : Nat,
             seq : Nat, since : Nat, err : {"none", "receipt", "key", "owed"},
             answer : Answers, op : Nat]
OpType == [kind : Kinds, key : Keys \cup {NoKey}, payer : Payers, seq : Nat,
           live : BOOLEAN, old : BOOLEAN]
Ids == {"payments", "payment_operations", "family_payments"} \X Keys
Scopes == {"waterfall", "allocate", "payments", "family_payments"} \X Payers

\* Calls, operations and answers keep their types; a call has locals exactly
\* while it runs.
TypeOK ==
    /\ ops \in Seq(OpType)
    /\ due \in [Payers -> Nat]
    /\ calls \in Nat
    /\ pc \in [Callers -> Labels]
    /\ loc \in [Callers -> CallType \cup {NoCall}]
    /\ \A c \in Callers : pc[c] # "idle" => loc[c] \in CallType
    /\ acked \subseteq Ids \X Scopes

\* Retried, doubled and racing calls with one key move money once.
OneOpPerKey ==
    \A m, n \in DOMAIN ops :
        m # n /\ ops[m].key # NoKey => IdOf(ops[m]) # IdOf(ops[n])

\* A success answer names an operation of the caller's own key, route and payer:
\* "never the wrong student's result".
AnswerIsOwn ==
    \A c \in Callers : pc[c] = "respond" /\ loc[c].answer \in Answered =>
        /\ loc[c].op \in DOMAIN ops
        /\ IdOf(ops[loc[c].op]) = IdOf(loc[c])
        /\ ScopeOf(ops[loc[c].op]) = ScopeOf(loc[c])

\* A keyed batch or family call is never told it failed when, at that moment, an
\* operation with its key and scope has been committed: it converges onto it.
FailureMeansNoEffect ==
    [][\A c \in Callers :
         Catch(c) /\ loc[c].kind # "single" /\ loc'[c].answer \in {"rejected", "failed"} =>
            ~\E n \in DOMAIN ops : SameKey(ops[n], loc[c]) /\ SameScope(ops[n], loc[c])]_vars

\* A call runs out of attempts on receipt numbers only if as many operations
\* were committed while it tried: it loses races, it never blocks itself.
EachRetryLostARace ==
    \A c \in Callers : pc[c] = "catch" /\ loc[c].err = "receipt" /\ loc[c].key = NoKey =>
        Len(ops) - loc[c].since >= MaxAttempts

\* A call fails only if it had no effect, and gives up on receipt numbers only if
\* it lost a race in every attempt.
FailuresAreEarned == FailureMeansNoEffect /\ []EachRetryLostARace

\* The effects of the keyed operations, as ExactlyOnce counts them.
EffectOf(n) == [id |-> IdOf(ops[n]), scope |-> ScopeOf(ops[n]), nth |-> n]
Effects == {EffectOf(n) : n \in {m \in DOMAIN ops : ops[m].key # NoKey}}

Promise == INSTANCE ExactlyOnce WITH effects <- Effects

\* The keyed routes implement ExactlyOnce: one effect for a key, and answers that
\* speak of it, through doubled, lost, failed and racing calls.
PromiseKept == Promise!Spec
=============================================================================
