------------------------------- MODULE MCSweep -------------------------------
(* A sweep of two models over a ladder of two cases. *)
EXTENDS Sweep
=============================================================================
