-------------------------- MODULE MCTenantManager --------------------------
(* Instances of TenantManager for TLC. *)
EXTENDS TenantManager, TLC

(* Operators are interchangeable, and so are tenant names. *)
Symmetry == Permutations(Operators) \cup Permutations(Names)

=============================================================================
