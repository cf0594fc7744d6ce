----------------------------- MODULE MCCampaign -----------------------------
(* Campaign for TLC: the processes of the pool are interchangeable.        *)
EXTENDS Campaign, TLC

Symmetry == Permutations(Worker)
=============================================================================
