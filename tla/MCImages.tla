------------------------------ MODULE MCImages -------------------------------
(* Instances of Images for TLC. *)
EXTENDS Images, TLC

Paths == {<<>>, <<"bucket">>}

Symmetry == Permutations(Calls) \cup Permutations(Files)
=============================================================================
