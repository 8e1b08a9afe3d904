------------------------------- MODULE MCLoop -------------------------------
(***************************************************************************)
(* Loop on small instances.                                                *)
(***************************************************************************)
EXTENDS Loop, TLC

CONSTANTS f1, f2, a, b, stray

Score(p, f, e, k) == [passed |-> p, failed |-> f, errors |-> e, skipped |-> k]

TaskReplies == {a, b, stray}
TaskExtract == (a :> f1) @@ (b :> f2) @@ (stray :> Outside)

(* No verdict collects more than expected. *)
PinnedScores == {Score(0,0,0,0), Score(1,0,1,0), Score(2,0,0,0)}

(* A verdict that does. *)
OverScores == {Score(0,0,0,0), Score(1,1,0,0), Score(2,0,0,0), Score(3,0,0,0)}
=============================================================================
