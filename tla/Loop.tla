-------------------------------- MODULE Loop --------------------------------
(***************************************************************************)
(* The red -> green orchestrator of claude_local (loop.py), with the parts *)
(* it drives: the snapshot store (snapshot.py), the oracle's score         *)
(* (runner.py), the reply parser and the single-file writer (edits.py) and *)
(* the choice of the next prompt tail (prompt.py).                         *)
(*                                                                         *)
(* One behaviour is one call of Loop.run for one task.  A generation is    *)
(* what ModelClient.generate returns: the reply text and how the stream    *)
(* ended.  That a generation is never both faulted and derailed is the     *)
(* property FaultExcludesDerail of module Generation.                      *)
(***************************************************************************)
EXTENDS Integers, Sequences

CONSTANTS
  Replies,        \* the reply texts a model may send
  Files,          \* the payloads those replies frame
  Extract,        \* reply -> its payload, NoFrame, or Outside
  NoFrame,        \* extract_file found no whole-file frame
  Outside,        \* framed, but at a path other than the permitted one
  Scores,         \* the scores the oracle may report
  ExpectedTests,  \* TaskSpec.expected_tests
  MaxAttempts,    \* Budget.max_attempts
  Seed,           \* what a caller-supplied worktree may hold at the path
  None            \* Python's None; also an absent file

VARIABLES
  pc,             \* the point Loop.run has reached
  plan_first,     \* TaskSpec.plan_first
  file,           \* the bytes at the permitted path of the worktree
  entries,        \* SnapshotStore._entries
  total_calls,    \* ModelClient.total_calls
  results,        \* the generations of the attempts so far
  last_attempt,   \* _ScoredAttempt of the last attempt, or None
  nudge,          \* rung of the ladder the next repair brief carries; 0 is ""
  reframe,        \* the reply the correction quotes, or None for ""
  stalls, best_passed, misses,
  tail,           \* the volatile tail of the generation in flight
  nudged,         \* what _next_tail said about that tail
  progress,       \* the AttemptProgress events given to on_attempt
  outcome         \* the LoopResult, or None

vars == <<pc, plan_first, file, entries, total_calls, results, last_attempt,
          nudge, reframe, stalls, best_passed, misses, tail, nudged, progress,
          outcome>>

plateau == <<best_passed, misses>>
escalation == <<nudge, reframe, stalls>>

-----------------------------------------------------------------------------
(* Values. *)

NUDGE_LADDER == 2       \* rungs of prompt._NUDGE_LADDER
PLATEAU_ATTEMPTS == 2

ScoreType == [passed : Nat, failed : Nat, errors : Nat, skipped : Nat]
Generations == [text : Replies, end : {"clean", "fault", "derail"}]
ScoredAttempts == [source : Files, score : Scores]
Statuses == {"done", "derailed", "exhausted", "blocked", "faulted"}

(* SandboxKilled: the implementation died without a verdict. *)
zero_verdict == [passed |-> 0, failed |-> 0, errors |-> 0, skipped |-> 0]

ASSUME ConstantsAssumption ==
  /\ Extract \in [Replies -> Files \cup {NoFrame, Outside}]
  /\ NoFrame \notin Files /\ Outside \notin Files
  /\ Scores \subseteq ScoreType /\ zero_verdict \in Scores
  /\ ExpectedTests \in Nat \ {0}
  /\ MaxAttempts \in Nat \ {0}
  /\ None \notin Files /\ None \notin Replies /\ None \notin Nat /\ Seed \notin Files

ASSUME NoneAssumption ==
  None \notin ScoredAttempts /\ None \notin Scores /\ None \notin Generations

-----------------------------------------------------------------------------
(* runner.TestScore: passed and collected are derived from the JUnit counts. *)

collected(s) == s.passed + s.failed + s.errors
is_valid(s) == collected(s) = ExpectedTests
is_green(s) == is_valid(s) /\ s.failed = 0 /\ s.errors = 0

(* MUTANT: the sign of passed is lost, so fewer passing tests rank first. *)
ranks_before_unsigned(e, f) ==
  \/ e.score.passed < f.score.passed
  \/ e.score.passed = f.score.passed /\ e.index <= f.index

(* snapshot._rank_key: lexicographic, smaller is better. *)
ranks_before(e, f) ==
  \/ e.score.passed > f.score.passed
  \/ /\ e.score.passed = f.score.passed
     /\ \/ e.score.errors < f.score.errors
        \/ /\ e.score.errors = f.score.errors
           /\ \/ e.score.failed < f.score.failed
              \/ e.score.failed = f.score.failed /\ e.index <= f.index

Recorded(es) == {es[i] : i \in DOMAIN es}

(* SnapshotStore.best, for a store with at least one entry. *)
best(es) == CHOOSE e \in Recorded(es) : \A f \in Recorded(es) : ranks_before(e, f)

(* MUTANT: the restore is forgotten. *)
restore_best_skipped(es, f) == f

(* restore_best: a no-op on an empty store, otherwise the best capture. *)
restore_best(es, f) == IF es = <<>> THEN f ELSE best(es).file

-----------------------------------------------------------------------------
(* The volatile tail. *)

Tails ==
  [kind : {"empty"}, nudge : {0}]
    \cup [kind : {"reframe"}, quoted : Replies, nudge : {0}]
    \cup [kind : {"repair"}, source : Files, score : Scores, nudge : 0..NUDGE_LADDER]

empty_tail == [kind |-> "empty", nudge |-> 0]

(* prompt.reframe_for: the correction quotes the reply back. *)
reframe_for(text) == [kind |-> "reframe", quoted |-> text, nudge |-> 0]

(* prompt.distill_feedback: the file last written, how it failed, a nudge. *)
repair_brief(attempt, n) ==
  [kind |-> "repair", source |-> attempt.source, score |-> attempt.score, nudge |-> n]

(* MUTANT: the flag is read off the pending rung, not off the tail. *)
next_tail_flag_apart(attempt, n, r) ==
  IF attempt = None
    THEN <<IF r = None THEN empty_tail ELSE reframe_for(r), n # 0>>
    ELSE <<repair_brief(attempt, n), n # 0>>

(* The next tail, and whether it carried an escalation. *)
next_tail(attempt, n, r) ==
  IF attempt = None
    THEN <<IF r = None THEN empty_tail ELSE reframe_for(r), FALSE>>
    ELSE <<repair_brief(attempt, n), n # 0>>

(* MUTANT: one rung too many. *)
nudge_for_extra_rung(k) == IF k < 1 \/ k > NUDGE_LADDER + 1 THEN None ELSE k

(* MUTANT: the last rung is offered again and again. *)
nudge_for_forever(k) == IF k < 1 THEN None ELSE IF k > NUDGE_LADDER THEN NUDGE_LADDER ELSE k

(* prompt.nudge_for: the rung for the k-th stall, None past the last one. *)
nudge_for(k) == IF k < 1 \/ k > NUDGE_LADDER THEN None ELSE k

(* _escalation: 0 (no nudge) while the model moves. *)
escalation_for(stalled, k) == IF stalled THEN nudge_for(k) ELSE 0

(* _correction: the reply to quote back, or None to end the run. *)
correction(g, corrected) ==
  IF g.end # "clean" \/ corrected THEN None ELSE g.text

-----------------------------------------------------------------------------
(* A green best outranks every cause; the causes rank fault, derail, block. *)
classify_terminal(best_score, faulted, derailed, blocked) ==
  IF best_score # None /\ is_green(best_score) THEN "done"
  ELSE IF faulted THEN "faulted"
  ELSE IF derailed THEN "derailed"
  ELSE IF blocked THEN "blocked"
  ELSE "exhausted"

(* MUTANT: fault and derail are passed in each other's place. *)
terminal_status_swapped(final, scored, best_score) ==
  classify_terminal(best_score,
                    final # None /\ final.end = "derail",
                    final # None /\ final.end = "fault",
                    final # None /\ final.end = "clean" /\ ~scored)

(* The cause is read off the last attempt, whose absence names none. *)
terminal_status(final, scored, best_score) ==
  classify_terminal(best_score,
                    final # None /\ final.end = "fault",
                    final # None /\ final.end = "derail",
                    final # None /\ final.end = "clean" /\ ~scored)

Last(s) == s[Len(s)]

-----------------------------------------------------------------------------
Init ==
  /\ pc = "plan"
  /\ plan_first \in BOOLEAN
  /\ file \in {None, Seed}
  /\ entries = <<>>
  /\ total_calls = 0
  /\ results = <<>>
  /\ last_attempt = None
  /\ nudge = 0 /\ reframe = None /\ stalls = 0
  /\ best_passed = -1 /\ misses = 0
  /\ tail = empty_tail /\ nudged = FALSE
  /\ progress = <<>>
  /\ outcome = None

(* Loop._plan and the two writes before the first attempt.  A plan the model *)
(* failed to produce degrades to no plan: every ending continues alike.      *)
Plan ==
  /\ pc = "plan"
  /\ total_calls' = IF plan_first THEN total_calls + 1 ELSE total_calls
  /\ pc' = "attempt"
  /\ UNCHANGED <<plan_first, file, entries, results, last_attempt, escalation,
                 plateau, tail, nudged, progress, outcome>>

(* The head of one iteration: choose the tail, generate, keep the result. *)
Generate ==
  /\ pc = "attempt"
  /\ Len(results) < MaxAttempts
  /\ LET next == next_tail(last_attempt, nudge, reframe)
     IN  tail' = next[1] /\ nudged' = next[2]
  /\ total_calls' = total_calls + 1
  /\ \E g \in Generations : results' = Append(results, g)
  /\ pc' = "apply"
  /\ UNCHANGED <<plan_first, file, entries, last_attempt, escalation, plateau,
                 progress, outcome>>

(* BackendUnavailable from the plan call or from an attempt is never caught. *)
(* total_calls is counted at entry, so it survives the raise.                *)
GenerateRaises ==
  /\ \/ pc = "plan" /\ plan_first
     \/ pc = "attempt" /\ Len(results) < MaxAttempts
  /\ total_calls' = total_calls + 1
  /\ pc' = "raised"
  /\ UNCHANGED <<plan_first, file, entries, results, last_attempt, escalation,
                 plateau, tail, nudged, progress, outcome>>

Usable(g) == g.end = "clean" /\ Extract[g.text] \in Files

(* _score_attempt, first half: the frame is parsed and written. *)
Apply ==
  /\ pc = "apply"
  /\ Usable(Last(results))
  /\ file' = Extract[Last(results).text]
  /\ pc' = "oracle"
  /\ UNCHANGED <<plan_first, entries, total_calls, results, last_attempt,
                 escalation, plateau, tail, nudged, progress, outcome>>

(* MUTANT: a refused attempt leaves the previous scored one in place. *)
Refuse_keeps_last ==
  /\ pc = "apply"
  /\ ~Usable(Last(results))
  /\ pc' = "resolve"
  /\ UNCHANGED <<plan_first, file, entries, total_calls, results, last_attempt,
                 escalation, plateau, tail, nudged, progress, outcome>>

(* _score_attempt, the early returns: a fault, a derail, no frame, or a path *)
(* that is not the permitted one.  Nothing is written and nothing scored.    *)
Refuse ==
  /\ pc = "apply"
  /\ ~Usable(Last(results))
  /\ last_attempt' = None
  /\ pc' = "resolve"
  /\ UNCHANGED <<plan_first, file, entries, total_calls, results, escalation,
                 plateau, tail, nudged, progress, outcome>>

(* runner.run and SnapshotStore.record.  An attempt killed in the sandbox    *)
(* scores the zero verdict.                                                  *)
RunOracle ==
  /\ pc = "oracle"
  /\ \E s \in Scores :
       /\ entries' = Append(entries, [index |-> Len(results) - 1, score |-> s, file |-> file])
       /\ last_attempt' = [source |-> Extract[Last(results).text], score |-> s]
  /\ pc' = "resolve"
  /\ UNCHANGED <<plan_first, file, total_calls, results, escalation, plateau,
                 tail, nudged, progress, outcome>>

(* OracleError (no report, or a malformed one) and SandboxUnavailable        *)
(* propagate: no snapshot, no restore, no LoopResult.                        *)
OracleRaises ==
  /\ pc = "oracle"
  /\ pc' = "raised"
  /\ UNCHANGED <<plan_first, file, entries, total_calls, results, last_attempt,
                 escalation, plateau, tail, nudged, progress, outcome>>

-----------------------------------------------------------------------------
(* The rest of the iteration: fold the verdict into the plateau, report the  *)
(* attempt, and decide between another attempt and the exit.                 *)

repeats_previous ==
  Len(results) > 1 /\ results[Len(results)].text = results[Len(results) - 1].text

(* _Plateau.record: the miss streak after a verdict. *)
misses_after(s) == IF s.passed > best_passed THEN 0 ELSE misses + 1
best_passed_after(s) == IF s.passed > best_passed THEN s.passed ELSE best_passed

(* on_attempt(AttemptProgress(...)); blocked is the residue of the causes. *)
Report(score, plateaued) ==
  progress' = Append(progress,
    [attempt |-> Len(results),
     score |-> score,
     repeats_previous |-> repeats_previous,
     plateaued |-> plateaued,
     nudged |-> nudged,
     blocked |-> score = None /\ Last(results).end = "clean"])

(* No verdict: the correction is spent at most once, and a fault or a derail *)
(* earns none.                                                               *)
ResolveUnscored ==
  /\ pc = "resolve" /\ last_attempt = None
  /\ Report(None, misses >= PLATEAU_ATTEMPTS)
  /\ LET c == correction(Last(results), reframe # None)
     IN  IF c = None THEN pc' = "finish" /\ UNCHANGED reframe
                     ELSE pc' = "attempt" /\ reframe' = c
  /\ UNCHANGED <<plan_first, file, entries, total_calls, results, last_attempt,
                 nudge, stalls, plateau, tail, nudged, outcome>>

(* MUTANT: a green verdict does not stop the run. *)
ResolveScored_no_stop ==
  /\ pc = "resolve" /\ last_attempt # None
  /\ Report(last_attempt.score, FALSE)
  /\ misses' = misses_after(last_attempt.score)
  /\ best_passed' = best_passed_after(last_attempt.score)
  /\ pc' = "attempt"
  /\ UNCHANGED <<plan_first, file, entries, total_calls, results, last_attempt,
                 escalation, tail, nudged, outcome>>

(* A verdict: stop on green, climb the ladder on a stall, stop past its end. *)
ResolveScored ==
  /\ pc = "resolve" /\ last_attempt # None
  /\ LET s == last_attempt.score
         plateaued == misses_after(s) >= PLATEAU_ATTEMPTS
         stalled == repeats_previous \/ plateaued
         climbed == IF stalled THEN stalls + 1 ELSE stalls
         n == escalation_for(stalled, climbed)
     IN  /\ misses' = misses_after(s) /\ best_passed' = best_passed_after(s)
         /\ Report(s, plateaued)
         /\ IF is_green(s)
              THEN pc' = "finish" /\ UNCHANGED <<stalls, nudge>>
              ELSE /\ stalls' = climbed
                   /\ IF n = None THEN pc' = "finish" /\ UNCHANGED nudge
                                  ELSE pc' = "attempt" /\ nudge' = n
  /\ UNCHANGED <<plan_first, file, entries, total_calls, results, last_attempt,
                 reframe, tail, nudged, outcome>>

(* The for loop runs out of attempts. *)
SpendBudget ==
  /\ pc = "attempt" /\ Len(results) = MaxAttempts
  /\ pc' = "finish"
  /\ UNCHANGED <<plan_first, file, entries, total_calls, results, last_attempt,
                 escalation, plateau, tail, nudged, progress, outcome>>

(* Loop._finish: restore the best attempt, classify the end, total the cost. *)
Finish ==
  /\ pc = "finish"
  /\ file' = restore_best(entries, file)
  /\ LET best_score == IF entries = <<>> THEN None ELSE best(entries).score
         final == IF results = <<>> THEN None ELSE Last(results)
     IN  outcome' = [status |-> terminal_status(final, last_attempt # None, best_score),
                     best_score |-> best_score,
                     fault |-> final # None /\ final.end = "fault",
                     derail |-> final # None /\ final.end = "derail",
                     plan_first |-> plan_first,
                     total_calls |-> total_calls,
                     attempts |-> Len(results)]
  /\ pc' = "returned"
  /\ UNCHANGED <<plan_first, entries, total_calls, results, last_attempt,
                 escalation, plateau, tail, nudged, progress>>

(* The call is over; deadlock freedom of everything before it is checked.    *)
Ended == pc \in {"returned", "raised"} /\ UNCHANGED vars

Next ==
  \/ Plan \/ Generate \/ GenerateRaises
  \/ Apply \/ Refuse
  \/ RunOracle \/ OracleRaises
  \/ ResolveUnscored \/ ResolveScored \/ SpendBudget
  \/ Finish
  \/ Ended

Spec == Init /\ [][Next]_vars

-----------------------------------------------------------------------------
(* Properties. *)

Entries == [index : Nat, score : Scores, file : Files]
Events == [attempt : Nat, score : Scores \cup {None}, repeats_previous : BOOLEAN,
           plateaued : BOOLEAN, nudged : BOOLEAN, blocked : BOOLEAN]
Outcomes == [status : Statuses, best_score : Scores \cup {None}, fault : BOOLEAN,
             derail : BOOLEAN, plan_first : BOOLEAN, total_calls : Nat, attempts : Nat]

(* The state of Loop.run and its collaborators is well typed. *)
TypeOK ==
  /\ pc \in {"plan", "attempt", "apply", "oracle", "resolve", "finish", "returned", "raised"}
  /\ plan_first \in BOOLEAN
  /\ file \in Files \cup {None, Seed}
  /\ entries \in Seq(Entries)
  /\ total_calls \in Nat
  /\ results \in Seq(Generations)
  /\ last_attempt \in ScoredAttempts \cup {None}
  /\ nudge \in 0..NUDGE_LADDER
  /\ reframe \in Replies \cup {None}
  /\ stalls \in 0..(NUDGE_LADDER + 1)
  /\ best_passed \in Nat \cup {-1}
  /\ misses \in Nat
  /\ tail \in Tails
  /\ nudged \in BOOLEAN
  /\ progress \in Seq(Events)
  /\ outcome \in Outcomes \cup {None}

Greens == {e \in Recorded(entries) : is_green(e.score)}

(* A green oracle run is never lost: once any attempt scored green, the run  *)
(* that returns reports DONE and leaves a green attempt's file on disk       *)
(* (loop._finish, snapshot.restore_best).                                    *)
GreenIsKept ==
  (pc = "returned" /\ Greens # {})
    => outcome.status = "done" /\ \E e \in Greens : file = e.file

(* DONE is only said of code that passed: the file on disk is one the oracle *)
(* scored green in this run, never the seed or a later regression.           *)
DoneIsOnDisk ==
  (pc = "returned" /\ outcome.status = "done") => \E e \in Greens : file = e.file

(* The run never ends worse than the best state it reached: what restore_best *)
(* leaves on disk passed as many tests as any attempt of the run.             *)
BestIsRestored ==
  (pc = "returned" /\ entries # <<>>)
    => \E e \in Recorded(entries) :
         /\ file = e.file
         /\ \A f \in Recorded(entries) : f.score.passed <= e.score.passed

(* A repair brief shows the model its latest work: the file of the attempt    *)
(* just before, still on disk, with that file's own verdict; a correction     *)
(* quotes the reply just before, and that reply wrote nothing (_next_tail).   *)
TailIsFresh ==
  pc = "apply" =>
    LET n == Len(results)
        previous == results[n - 1]
    IN  /\ tail.kind = "empty" <=> n = 1
        /\ tail.kind = "reframe" => previous.text = tail.quoted /\ ~Usable(previous)
        /\ tail.kind = "repair" =>
             /\ Usable(previous) /\ Extract[previous.text] = tail.source
             /\ file = tail.source
             /\ Last(entries).score = tail.score

(* A stall is real: every reported escalation follows a scored attempt that  *)
(* repeated its predecessor or plateaued, and a scored repeat repeats an     *)
(* answer that was itself scored, so no rung is spent on a reply that        *)
(* reached no oracle (_escalation, AttemptProgress).                         *)
StallsAreReal ==
  \A i \in DOMAIN progress :
    /\ progress[i].nudged =>
         /\ i > 1
         /\ progress[i-1].score # None
         /\ progress[i-1].repeats_previous \/ progress[i-1].plateaued
    /\ (progress[i].repeats_previous /\ progress[i].score # None)
         => i > 1 /\ progress[i-1].score # None

(* The ladder and the single correction end the run whatever the budget: the *)
(* attempts spent are bounded by the best score reached, not by max_attempts.*)
AttemptsBounded == Len(results) <= 2 * (best_passed + 1) + NUDGE_LADDER + 2

(* The result says what happened: fault and derail_reason are set exactly    *)
(* when the status is the one they explain, blocked is said of a last        *)
(* attempt that reported it, and each attempt and the plan, if one was asked *)
(* for, cost one call and nothing else did (_terminal_status, LoopResult).   *)
ResultIsTrue ==
  pc = "returned" =>
    /\ outcome.fault <=> outcome.status = "faulted"
    /\ outcome.derail <=> outcome.status = "derailed"
    /\ outcome.status = "blocked" => progress[Len(progress)].blocked
    /\ outcome.attempts = Len(progress)
    /\ outcome.total_calls = outcome.attempts + (IF plan_first THEN 1 ELSE 0)

(* A green oracle stops the run: no generation is bought after it. *)
NoWorkAfterGreen == [][Greens # {} => UNCHANGED <<results, total_calls>>]_vars

(* The refinement mapping: what a caller of the run can tell. *)
Tried == {<<e.file, e.score>> : e \in Recorded(entries)}
Kept == IF pc = "returned" /\ entries # <<>> THEN file ELSE None
Verdict ==
  IF pc = "raised" THEN "raised"
  ELSE IF pc # "returned" THEN "open"
  ELSE IF outcome.status = "done" THEN "done" ELSE "failed"

passed_of(s) == s.passed

Promise == INSTANCE RepairTask
             WITH Passed <- passed_of, Green <- is_green,
                  tried <- Tried, kept <- Kept, verdict <- Verdict

(* The whole run implements the abstract task: nothing is tried after a green *)
(* verdict, and the run settles on a file no tried file beats, done exactly   *)
(* when that file is green.                                                   *)
KeepsPromise == Promise!Spec
=============================================================================
