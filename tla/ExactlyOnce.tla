----------------------------- MODULE ExactlyOnce -----------------------------
(***************************************************************************)
(* What a keyed payment request promises its caller: the money moves at     *)
(* most once for one key, and a success answer speaks of that one effect,   *)
(* for the very scope (route and payer) the caller asked about.             *)
(***************************************************************************)
EXTENDS Naturals

CONSTANTS Ids,     \* identities of requests: a key in one key ledger
          Scopes   \* what a request pays for

VARIABLES effects,  \* the effects performed, [id, scope, nth] each
          acked     \* <<id, scope>> of the success answers delivered

Effect == [id : Ids, scope : Scopes, nth : Nat]

Init == effects = {} /\ acked = {}

Perform ==
    \E e \in effects' :
        /\ e \in Effect
        /\ \A d \in effects : d.id # e.id
        /\ effects' = effects \cup {e}
        /\ UNCHANGED acked

Ack ==
    \E e \in effects :
        /\ acked' = acked \cup {<<e.id, e.scope>>}
        /\ UNCHANGED effects

Next == Perform \/ Ack

Spec == Init /\ [][Next]_<<effects, acked>>
=============================================================================
