----------------------------- MODULE AppendOnly -----------------------------
(***************************************************************************)
(* What strategy/proposal_store.py ("append-only by proposal id") and      *)
(* research/validation_plan_store.py ("Append-only persistence") promise:  *)
(* keys are added, and what a key was given stays.                         *)
(***************************************************************************)
VARIABLE store

Init == store = [k \in {} |-> k]

Append ==
    /\ DOMAIN store \subseteq DOMAIN store'
    /\ \A k \in DOMAIN store : store'[k] = store[k]

Spec == Init /\ [][Append]_store
=============================================================================
