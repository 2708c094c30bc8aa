---------------------------- MODULE MCNodeDrain ----------------------------
(* Instances of NodeDrain for TLC. *)
EXTENDS NodeDrain, TLC

(* Operators and workers are interchangeable; the control plane and the    *)
(* pods are not.                                                           *)
Symmetry == Permutations(Operators) \cup Permutations(Workers)

=============================================================================
