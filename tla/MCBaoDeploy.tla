---------------------------- MODULE MCBaoDeploy ----------------------------
(* Instances of BaoDeploy for TLC. *)
EXTENDS BaoDeploy, TLC

Symmetry == Permutations(Operators) \cup Permutations(Clusters)

=============================================================================
