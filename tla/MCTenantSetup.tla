--------------------------- MODULE MCTenantSetup ----------------------------
(* Instances of TenantSetup for TLC. *)
EXTENDS TenantSetup, TLC

Symmetry == Permutations(Requests) \cup Permutations(Employees)
=============================================================================
