------------------------- MODULE MCEmployeeAccounts -------------------------
(* Instances of EmployeeAccounts for TLC. *)
EXTENDS EmployeeAccounts, TLC

Symmetry == Permutations(Calls) \cup Permutations(People \ {Founder})
=============================================================================
