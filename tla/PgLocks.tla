-------------------------------- MODULE PgLocks --------------------------------
(***************************************************************************)
(* The row locks of PostgreSQL that the handlers' transactions take.  A     *)
(* lock is [row, by, mode] with one of the modes                            *)
(*   "keyShare"     the check of a foreign key that refers to the row        *)
(*   "noKeyUpdate"  an UPDATE that leaves the key columns alone              *)
(*   "update"       SELECT ... FOR UPDATE                                    *)
(* A transaction keeps its locks until it commits or rolls back, and waits  *)
(* while another one holds a lock that conflicts.  A cycle of waiting       *)
(* transactions is broken by rolling one of them back.                      *)
(***************************************************************************)
EXTENDS FiniteSets

Conflict(m1, m2) ==
    \/ m1 = "update" \/ m2 = "update"
    \/ m1 = "noKeyUpdate" /\ m2 = "noKeyUpdate"

\* The transactions that p has to wait for before it gets mode on row.
Blockers(locks, row, p, mode) ==
    {l.by : l \in {k \in locks : k.row = row /\ k.by # p /\ Conflict(k.mode, mode)}}

Free(locks, row, p, mode) == Blockers(locks, row, p, mode) = {}
Take(locks, row, p, mode) == locks \cup {[row |-> row, by |-> p, mode |-> mode]}
Release(locks, p) == {l \in locks : l.by # p}

\* waits[p]: the transactions p is waiting for.  A set of transactions that all
\* wait for one another, with nothing to spare.
Stuck(waits, S) == \A p \in S : waits[p] \cap S # {}
InCycle(waits, p) ==
    /\ waits[p] # {}
    /\ \E S \in SUBSET DOMAIN waits :
        /\ p \in S
        /\ Stuck(waits, S)
        /\ \A T \in SUBSET S : T # {} /\ Stuck(waits, T) => T = S
=============================================================================
