----------------------------- MODULE MCSession -----------------------------
(* Two sessions on one port, of a turn each, with two workers. *)
EXTENDS Session
CONSTANTS w1, w2
=============================================================================
