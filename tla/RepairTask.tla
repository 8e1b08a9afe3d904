----------------------------- MODULE RepairTask -----------------------------
(***************************************************************************)
(* What one implementation task promises its caller, with nothing of how   *)
(* the loop gets there: files are tried and judged one at a time, nothing  *)
(* is tried once a file is green, and the task settles on a file that no   *)
(* tried file beats, "done" exactly when that file is green.               *)
(***************************************************************************)
EXTENDS Naturals

CONSTANTS
  Files,
  Scores,
  Passed(_),      \* how many tests a score passed
  Green(_),       \* the score is the done signal
  None

VARIABLES
  tried,          \* the <<file, score>> pairs judged so far
  kept,           \* the file the caller is left with, None if none was tried
  verdict         \* "open", "done", "failed" or "raised"

Init ==
  /\ tried = {}
  /\ kept = None
  /\ verdict = "open"

(* A file is written and judged. *)
Try(f, s) ==
  /\ verdict = "open"
  /\ \A t \in tried : ~Green(t[2])
  /\ tried' = tried \cup {<<f, s>>}
  /\ UNCHANGED <<kept, verdict>>

(* The task ends without a file to offer. *)
SettleEmpty ==
  /\ verdict = "open" /\ tried = {}
  /\ verdict' = "failed"
  /\ UNCHANGED <<tried, kept>>

(* The task ends on t, which no tried file beats. *)
Settle(t) ==
  /\ verdict = "open"
  /\ \A u \in tried : Passed(u[2]) <= Passed(t[2])
  /\ (\E u \in tried : Green(u[2])) => Green(t[2])
  /\ kept' = t[1]
  /\ verdict' = IF Green(t[2]) THEN "done" ELSE "failed"
  /\ UNCHANGED tried

(* A harness fault ends the task with no verdict on any file. *)
Abandon ==
  /\ verdict = "open"
  /\ verdict' = "raised"
  /\ UNCHANGED <<tried, kept>>

Next ==
  \/ \E f \in Files, s \in Scores : Try(f, s)
  \/ SettleEmpty
  \/ \E t \in tried : Settle(t)
  \/ Abandon

Spec == Init /\ [][Next]_<<tried, kept, verdict>>
=============================================================================
