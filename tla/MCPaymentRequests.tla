--------------------------- MODULE MCPaymentRequests ---------------------------
(* Small instances of PaymentRequests. *)
EXTENDS PaymentRequests, TLC

\* Callers, keys and payers are interchangeable (used where no liveness is checked).
Symmetric == Permutations(Callers) \cup Permutations(Keys) \cup Permutations(Payers)

\* The payer of a family route is a family and that of the others a student, and
\* they share no key ledger and no receipt series: what mixes them is left out.
FamilyKinds == {"family", "familyAllocate"}
OneLedgerGroup ==
    LET used == {ops[n].kind : n \in DOMAIN ops} \cup {loc[c].kind : c \in {d \in Callers : pc[d] # "idle"}}
    IN  used \subseteq FamilyKinds \/ used \cap FamilyKinds = {}
=============================================================================
