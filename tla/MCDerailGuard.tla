--------------------------- MODULE MCDerailGuard ---------------------------
(* A line of two letters or more counts, and two in a row trip. *)
EXTENDS DerailGuard
CONSTANTS a, b
=============================================================================
