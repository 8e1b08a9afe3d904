------------------------------ MODULE MCOracle ------------------------------
(* One oracle run and two forks. *)
EXTENDS Oracle
CONSTANTS p1, p2
=============================================================================
