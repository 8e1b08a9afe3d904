----------------------------- MODULE MCDispatch -----------------------------
(* A short run of the loop inside every way of dispatching it. *)
EXTENDS Dispatch, TLC

CONSTANTS f1, f2, f2_lf, a, b, prose

Score(p, f, e, k) == [passed |-> p, failed |-> f, errors |-> e, skipped |-> k]

TaskReplies == {a, b, prose}
TaskExtract == (a :> f1) @@ (b :> f2) @@ (prose :> NoFrame)
(* f2 has CRLF line ends, which the read back translates. *)
TaskReadText == (f1 :> f1) @@ (f2 :> f2_lf)
TaskScores == {Score(0,0,0,0), Score(1,0,0,0), Score(2,0,0,0)}
=============================================================================
