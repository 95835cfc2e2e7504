----------------------------- MODULE MCFeeLedger -----------------------------
(* Small instances of FeeLedger: the months of one family and the scenes in  *)
(* which they are paid, edited and carried forward.                          *)
EXTENDS FeeLedger, TLC

CONSTANTS h1, custom

\* The plain structure, one with its head raised, and a student's own amount.
Plain == [h \in Heads |-> IF h = h1 THEN 1 ELSE 0]
Raised == [Plain EXCEPT ![h1] = 2]
Own == [h \in Heads |-> IF h = custom THEN 2 ELSE 0]
AllBreakdowns == {Plain, Raised, Own}
\* The requests are interchangeable: the scenes name all of them or each alone.
RequestSymmetry == Permutations(Requests)

Payers == {"pay", "waterfall", "allocate", "familyAllocate", "familyPay", "revert"}
Payments == [staff |-> Requests, handlers |-> Payers, months |-> {1, 2}, archived |-> {},
             breakdowns |-> {Plain}, repeats |-> FALSE, maxPayments |-> 3, maxCarried |-> 0]
Edits == [Payments EXCEPT !.months = {1}, !.breakdowns = {Plain, Raised}, !.maxPayments = 2,
            !.handlers = {"pay", "revert", "extras", "generate", "regenerate",
                          "update", "recalculate"}]
Alone(p) == [Edits EXCEPT !.staff = {p}, !.maxPayments = 3,
               !.handlers = Payers \cup {"extras", "generate", "regenerate", "update"}]
Arrears == [Payments EXCEPT !.archived = {1}, !.maxPayments = 1, !.maxCarried = 2,
              !.handlers = {"carry", "pay", "revert", "extras"}]
Regenerated == [Arrears EXCEPT !.handlers = {"carry", "pay", "revert", "regenerate"}]
\* A month of a student's own amount, whose only head has no id, and months whose
\* heads are named twice.
Customs == [Payments EXCEPT !.months = {1}, !.breakdowns = {Own}, !.maxPayments = 2,
              !.handlers = {"allocate", "familyAllocate", "revert"}]
Twice == [Customs EXCEPT !.breakdowns = {Plain, Raised}, !.repeats = TRUE]

AllScenes == {Payments, Edits, Arrears, Regenerated, Customs, Twice} \cup {Alone(p) : p \in Requests}
RepricedArrears == {[Arrears EXCEPT !.breakdowns = {Plain, Raised}, !.handlers = {"carry", "update"}]}
RegeneratedArrears == {Regenerated}
OwnAmounts == {Customs}
NamedTwice == {Twice}
=============================================================================
