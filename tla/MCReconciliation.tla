-------------------------- MODULE MCReconciliation --------------------------
(***************************************************************************)
(* Host reconciliation on small instances.  `focus` splits the runs in two: *)
(*   repair   several passes and a repair request, with VMs and containers; *)
(*   adopt    one pass, two decisions, a create or delete under way and a   *)
(*            failing step, with containers and bridges.                    *)
(***************************************************************************)
EXTENDS Reconciliation, TLC

VARIABLE focus

Started == {p \in Passes : pass[p].pc # "none"}
Quarantined == {i \in QIds : quar[i] # NoQuar}

\* What the other half of the runs is about does not exist in this one.
Inside == \/ focus = "repair" /\ (rec \cup host) \cap Bridges = {}
          \/ focus = "adopt" /\ (rec \cup host) \cap Vms = {}
                             /\ Cardinality(Started) <= 1 /\ Cardinality(Quarantined) <= 2

MCInit == focus \in {"repair", "adopt"} /\ RInit /\ Inside

MCNext == /\ UNCHANGED focus
          /\ RNext
          /\ Inside'
          /\ IF focus = "repair" THEN UNCHANGED <<dec, work, faults>> ELSE UNCHANGED req

MCSpec == MCInit /\ [][MCNext]_<<rvars, focus>>

\* Operations, requests and decisions are interchangeable (safety runs only).
ReconcileSymmetry == Permutations(Passes) \cup Permutations(Reqs) \cup Permutations(Deciders)
=============================================================================
