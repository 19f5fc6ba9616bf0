-------------------------- MODULE MCConnectionPool --------------------------
(* Instances of ConnectionPool for TLC.  Calls and connections are model   *)
(* values without symmetry, because a liveness property is checked.        *)
EXTENDS ConnectionPool
=============================================================================
