------------------------------ MODULE Benchmark ------------------------------
(***************************************************************************)
(* One benchmark process: benchmarks.run over the driver and the scorer.   *)
(* The cases run in order; a harness fault cuts the ladder short but the   *)
(* cases that finished are still scored, linted and written, and the exit  *)
(* code ranks a broken host above a failed case.  What is caught nowhere   *)
(* ends the process with a traceback, and the finished cases with it.      *)
(*                                                                         *)
(* A case is one call of implement (module Dispatch), here only its end.   *)
(* The scorecard directory outlives the process.                           *)
(***************************************************************************)
EXTENDS Naturals, Sequences, FiniteSets

CONSTANTS
  Cases,           \* how many cases the ladder has
  None

ASSUME CasesAssumption == Cases \in Nat \ {0}
ASSUME NoneAssumption == None \notin Nat

VARIABLES
  stage,           \* one of Stages
  run,             \* which launch this process belongs to
  results,         \* the statuses of the cases that finished
  interruption,    \* BenchmarkInterrupted was caught
  artifact_faults, \* the artifacts the host refused
  exit_code,       \* None while it runs or when a signal ended it
  cards            \* the scorecards on disk

bench == <<stage, run, results, interruption, artifact_faults, exit_code>>
bench_vars == <<bench, cards>>

(* An orphaned process runs on without the script that waited for it.       *)
Stages == {"idle", "ladder", "score", "style", "code", "card", "report", "exited", "died",
           "orphaned"}

Running == stage \notin {"idle", "exited", "died", "orphaned"}

cases_passed == Cardinality({i \in DOMAIN results : results[i] = "done"})

(* What a whole scorecard of this process says, and a torn one. *)
scorecard(whole) ==
  [run |-> run, cases |-> IF whole THEN results ELSE <<>>, whole |-> whole]

-----------------------------------------------------------------------------
BenchmarkInit ==
  /\ stage = "idle" /\ run = 0
  /\ results = <<>> /\ interruption = FALSE /\ artifact_faults = {}
  /\ exit_code = None /\ cards = {}

(* The process starts, for launch r. *)
Start(r) ==
  /\ ~Running
  /\ stage' = "ladder" /\ run' = r
  /\ results' = <<>> /\ interruption' = FALSE /\ artifact_faults' = {}
  /\ exit_code' = None
  /\ UNCHANGED cards

(* Before any case ran: arguments that do not parse, an empty id, a case     *)
(* nobody knows.                                                             *)
RefuseUsage ==
  /\ stage = "ladder" /\ results = <<>>
  /\ stage' = "exited" /\ exit_code' = 2
  /\ UNCHANGED <<run, results, interruption, artifact_faults, cards>>

(* run_cases: implement returned and the result is kept. *)
FinishCase ==
  /\ stage = "ladder" /\ Len(results) < Cases
  /\ \E status \in {"done", "failed"} : results' = Append(results, status)
  /\ UNCHANGED <<stage, run, interruption, artifact_faults, exit_code, cards>>

(* MUTANT: the fault leaves bare and takes the finished cases with it. *)
FaultInCase_bare ==
  /\ stage = "ladder" /\ Len(results) < Cases
  /\ interruption' = TRUE
  /\ stage' = "exited" /\ exit_code' = 3
  /\ UNCHANGED <<run, results, artifact_faults, cards>>

(* A backend, sandbox or oracle fault: BenchmarkInterrupted carries the      *)
(* finished cases on, or ends the process if there are none.                 *)
FaultInCase ==
  /\ stage = "ladder" /\ Len(results) < Cases
  /\ interruption' = TRUE
  /\ IF results = <<>>
       THEN stage' = "exited" /\ exit_code' = 3
       ELSE stage' = "score" /\ exit_code' = None
  /\ UNCHANGED <<run, results, artifact_faults, cards>>

(* Any other exception of a case, an OSError of its worktree say, is a       *)
(* traceback: exit code 1, and the cases that finished are lost.             *)
EscapeCase ==
  /\ stage = "ladder" /\ Len(results) < Cases
  /\ stage' = "exited" /\ exit_code' = 1
  /\ UNCHANGED <<run, results, interruption, artifact_faults, cards>>

EndLadder ==
  /\ stage = "ladder" /\ Len(results) = Cases
  /\ stage' = "score"
  /\ UNCHANGED <<run, results, interruption, artifact_faults, exit_code, cards>>

ScoreCases ==
  /\ stage = "score"
  /\ stage' = "style"
  /\ UNCHANGED <<run, results, interruption, artifact_faults, exit_code, cards>>

(* The cases disagree on their configuration, the rules card was edited      *)
(* between two of them: _held_constant raises and nothing catches it.        *)
ScoreRaises ==
  /\ stage = "score" /\ Len(results) > 1
  /\ stage' = "exited" /\ exit_code' = 1
  /\ UNCHANGED <<run, results, interruption, artifact_faults, cards>>

(* The produced code is linted in a scratch tree. *)
CountStyle ==
  /\ stage = "style"
  /\ stage' = "code"
  /\ UNCHANGED <<run, results, interruption, artifact_faults, exit_code, cards>>

(* No linter, a linter that would not judge, or output that does not parse:  *)
(* collected, and the count stays absent.                                    *)
RefuseStyle ==
  /\ stage = "style"
  /\ artifact_faults' = artifact_faults \cup {"style"}
  /\ stage' = "code"
  /\ UNCHANGED <<run, results, interruption, exit_code, cards>>

(* The produced code is kept if asked for; a refusal is collected. *)
WriteCode ==
  /\ stage = "code"
  /\ artifact_faults' \in {artifact_faults, artifact_faults \cup {"code"}}
  /\ stage' = "card"
  /\ UNCHANGED <<run, results, interruption, exit_code, cards>>

WriteCard ==
  /\ stage = "card"
  /\ cards' = cards \cup {scorecard(TRUE)}
  /\ stage' = "report"
  /\ UNCHANGED <<run, results, interruption, artifact_faults, exit_code>>

(* The directory cannot be made, or the write fails half way and leaves the  *)
(* file it opened.                                                           *)
RefuseCard ==
  /\ stage = "card"
  /\ cards' \in {cards, cards \cup {scorecard(FALSE)}}
  /\ artifact_faults' = artifact_faults \cup {"scorecard"}
  /\ stage' = "report"
  /\ UNCHANGED <<run, results, interruption, exit_code>>

(* main's exit code, with _report_harness_faults. *)
exit_status == IF interruption \/ artifact_faults # {} THEN 3
               ELSE IF cases_passed = Len(results) THEN 0 ELSE 1

ReportAndExit ==
  /\ stage = "report"
  /\ stage' = "exited" /\ exit_code' = exit_status
  /\ UNCHANGED <<run, results, interruption, artifact_faults, cards>>

(* A process that is killed in the middle of its scorecard leaves it torn. *)
cards_cut == IF stage = "card" THEN {cards, cards \cup {scorecard(FALSE)}} ELSE {cards}

(* A signal ends the process. *)
Die ==
  /\ Running
  /\ stage' = "died" /\ exit_code' = None /\ cards' \in cards_cut
  /\ UNCHANGED <<run, results, interruption, artifact_faults>>

BenchmarkStep ==
  \/ RefuseUsage \/ FinishCase \/ FaultInCase \/ EscapeCase \/ EndLadder
  \/ ScoreCases \/ ScoreRaises \/ CountStyle \/ RefuseStyle \/ WriteCode \/ WriteCard \/ RefuseCard \/ ReportAndExit

-----------------------------------------------------------------------------
(* The property of one benchmark. *)

(* What each exit code of a benchmark with finished cases stands on (main,   *)
(* INV-016).  Zero is a whole ladder that passed, and its scorecard.  Three, *)
(* a broken host, keeps the scorecard of every finished case unless the host *)
(* refused the scorecard itself.  One is ambiguous: a whole ladder with a    *)
(* failed case and its scorecard, or a traceback that left nothing at all,   *)
(* where the finished cases are lost.                                        *)
ExitIsBacked ==
  stage = "exited" =>
    /\ exit_code = 0 =>
         Len(results) = Cases /\ cases_passed = Cases /\ scorecard(TRUE) \in cards
    /\ exit_code = 3 /\ results # <<>> =>
         scorecard(TRUE) \in cards \/ "scorecard" \in artifact_faults
    /\ exit_code = 1 =>
         \/ /\ ~interruption /\ Len(results) = Cases /\ cases_passed # Cases
            /\ scorecard(TRUE) \in cards
         \/ \A card \in cards : card.run # run
=============================================================================
