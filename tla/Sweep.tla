-------------------------------- MODULE Sweep --------------------------------
(***************************************************************************)
(* The sweep over the registry: benchmark_all_models runs one              *)
(* benchmark_model script per model, each in a session of its own and      *)
(* under a ceiling; the script serves its model, runs one Benchmark        *)
(* process in its own session and tears the server down.                   *)
(*                                                                         *)
(* The server leads a third session (ModelServer.running), so the          *)
(* ceiling's kill of the script's group does not reach it, and neither     *)
(* does a signal that ends the script alone, which also leaves its         *)
(* benchmark running.  Each model has a port of its own in the registry.   *)
(* The readiness polling and the teardown in detail are ModelServer's.     *)
(***************************************************************************)
EXTENDS Benchmark

CONSTANT Models    \* how many models are swept, 1..Models in order

ASSUME ModelsAssumption == Models \in Nat

VARIABLES
  pc,              \* the sweep: launch, wait, verdict, over
  current,         \* the model it is at
  before,          \* the scorecards on disk when that model was launched
  ending,          \* how its script ended
  rows,            \* the summary
  sweep_exit,
  script,          \* the script: none, check, spawn, startup, bench, teardown, exited, killed
  script_exit,     \* how it ends: with the benchmark's code, an exception, or died by a signal
  orphans,         \* the models whose script died and left its benchmark running
  server,          \* per model: none, loading, listening on its port, or only workers of it
  held             \* the models whose port some other program holds, an old server say

sweep == <<pc, current, before, ending, rows, sweep_exit>>
chain == <<script, script_exit, orphans>>
serving == <<server, held>>
vars == <<bench_vars, sweep, chain, serving>>

Names == 1..Models
Servings == {"none", "loading", "listening", "workers"}

Init ==
  /\ BenchmarkInit
  /\ pc = "launch" /\ current = 1 /\ before = {} /\ ending = None
  /\ rows = <<>> /\ sweep_exit = None
  /\ script = "none" /\ script_exit = None /\ orphans = {}
  /\ server = [m \in Names |-> "none"] /\ held \in SUBSET Names

-----------------------------------------------------------------------------
(* benchmark_all_models.py *)

(* MUTANT: the cards on disk are listed once for the whole sweep. *)
Launch_lists_once ==
  /\ pc = "launch" /\ current <= Models
  /\ script' = "check" /\ script_exit' = None
  /\ pc' = "wait" /\ ending' = None
  /\ UNCHANGED <<bench_vars, current, before, rows, sweep_exit, orphans, serving>>

(* _bench_one up to the spawn. *)
Launch ==
  /\ pc = "launch" /\ current <= Models
  /\ before' = cards
  /\ script' = "check" /\ script_exit' = None
  /\ pc' = "wait" /\ ending' = None
  /\ UNCHANGED <<bench_vars, current, rows, sweep_exit, orphans, serving>>

(* The script ended, by itself or by a signal, a negative code like any      *)
(* other.                                                                    *)
Completed ==
  /\ pc = "wait" /\ script = "exited"
  /\ ending' = script_exit /\ pc' = "verdict"
  /\ UNCHANGED <<bench_vars, current, before, rows, sweep_exit, chain, serving>>

(* MUTANT: the wait has no timeout. *)
Ceiling_none ==
  /\ pc = "wait" /\ script = "exited"
  /\ ending' = "timed_out" /\ pc' = "verdict"
  /\ UNCHANGED <<bench_vars, current, before, rows, sweep_exit, chain, serving>>

(* MUTANT: only the direct child is killed. *)
Ceiling_child_only ==
  /\ pc = "wait" /\ script # "exited"
  /\ script' = "killed"
  /\ ending' = "timed_out" /\ pc' = "verdict"
  /\ UNCHANGED <<bench_vars, current, before, rows, sweep_exit, script_exit, orphans, serving>>

(* TimeoutExpired: the script's group is killed, the benchmark with it. *)
Ceiling ==
  /\ pc = "wait" /\ script # "exited"
  /\ script' = "killed"
  /\ stage' = (IF Running THEN "died" ELSE stage)
  /\ cards' \in cards_cut
  /\ ending' = "timed_out" /\ pc' = "verdict"
  /\ UNCHANGED <<run, results, interruption, artifact_faults, exit_code,
                 current, before, rows, sweep_exit, script_exit, orphans, serving>>

(* The script ended between the expiry and the kill: the lookup of its group *)
(* fails or finds no script in it.  An orphan the kill still reaches is one  *)
(* that never writes.                                                        *)
CeilingLate ==
  /\ pc = "wait" /\ script = "exited"
  /\ ending' = "timed_out" /\ pc' = "verdict"
  /\ UNCHANGED <<bench_vars, current, before, rows, sweep_exit, chain, serving>>

(* Any other exception in the wait leaves at once, and the script, in a      *)
(* session of its own, goes on.                                              *)
Interrupt ==
  /\ pc = "wait"
  /\ pc' = "over"
  /\ UNCHANGED <<bench_vars, current, before, ending, rows, sweep_exit, chain, serving>>

(* The row: a model is scored if a scorecard came up in its window. *)
Verdict ==
  /\ pc = "verdict"
  /\ rows' = Append(rows, [scored |-> cards \ before # {}, ending |-> ending])
  /\ current' = current + 1 /\ pc' = "launch"
  /\ UNCHANGED <<bench_vars, before, ending, sweep_exit, chain, serving>>

Summarise ==
  /\ pc = "launch" /\ current > Models
  /\ sweep_exit' = IF \A i \in DOMAIN rows : rows[i].scored THEN 0 ELSE 1
  /\ pc' = "over"
  /\ UNCHANGED <<bench_vars, current, before, ending, rows, chain, serving>>

-----------------------------------------------------------------------------
(* benchmark_model.py *)

(* The script raises: no such weights, the port is bound.  Python's exit     *)
(* code is 1, as for a failed case.                                          *)
ScriptRefuses(why) ==
  /\ script' = "exited" /\ script_exit' = why
  /\ UNCHANGED <<sweep, bench_vars, orphans, serving>>

NoWeights == script = "check" /\ ScriptRefuses("no_weights")

PortTaken == script = "check" /\ current \in held /\ ScriptRefuses("port_taken")

PortFree ==
  /\ script = "check" /\ current \notin held
  /\ script' = "spawn"
  /\ UNCHANGED <<sweep, bench_vars, script_exit, orphans, serving>>

SpawnServer ==
  /\ script = "spawn"
  /\ server' = [server EXCEPT ![current] = "loading"]
  /\ script' = "startup"
  /\ UNCHANGED <<sweep, bench_vars, script_exit, orphans, held>>

(* The server died, never became ready, or would not name its model. *)
StartupFails ==
  /\ script = "startup"
  /\ script' = "teardown" /\ script_exit' = "not_served"
  /\ UNCHANGED <<sweep, bench_vars, orphans, serving>>

(* The probe is answered; the benchmark starts against that server. *)
Ready ==
  /\ script = "startup" /\ server[current] = "listening"
  /\ Start(current)
  /\ script' = "bench"
  /\ UNCHANGED <<sweep, script_exit, orphans, serving>>

(* subprocess.run returns and its code, which decides nothing in the sweep,  *)
(* is passed on.                                                             *)
BenchmarkEnds ==
  /\ script = "bench" /\ ~Running
  /\ script' = "teardown" /\ script_exit' = "benchmark"
  /\ UNCHANGED <<sweep, bench_vars, orphans, serving>>

(* MUTANT: the server is left running. *)
Teardown_none ==
  /\ script = "teardown"
  /\ script' = "exited"
  /\ UNCHANGED <<sweep, bench_vars, script_exit, orphans, serving>>

(* The end of the running block: the leader is gone, and what it forked may  *)
(* outlive it.                                                               *)
Teardown ==
  /\ script = "teardown"
  /\ \E left \in {"none", "workers"} : server' = [server EXCEPT ![current] = left]
  /\ script' = "exited"
  /\ UNCHANGED <<sweep, bench_vars, script_exit, orphans, held>>

(* A signal ends the script: no finally clause runs, its server and its      *)
(* benchmark stay.  How far the orphaned benchmark is, is followed no more.  *)
ScriptDies ==
  /\ script \in {"check", "spawn", "startup", "bench", "teardown"}
  /\ script' = "exited" /\ script_exit' = "died"
  /\ \/ /\ Running
        /\ stage' = "orphaned" /\ orphans' = orphans \cup {current}
        /\ results' = <<>> /\ interruption' = FALSE /\ artifact_faults' = {}
     \/ ~Running /\ UNCHANGED <<stage, orphans, results, interruption, artifact_faults>>
  /\ UNCHANGED <<run, exit_code, cards, sweep, serving>>

(* An orphaned benchmark comes to its scorecard, the file of which is all    *)
(* that is told.  An orphan that ends without one never takes this step.     *)
OrphanWrites ==
  /\ \E m \in orphans :
       /\ \A card \in cards : card.run # m
       /\ cards' = cards \cup {[run |-> m, cases |-> <<>>, whole |-> FALSE]}
  /\ UNCHANGED <<bench, sweep, chain, serving>>

-----------------------------------------------------------------------------
(* The servers and the other programs, external. *)
ServerLoads ==
  /\ \E m \in Names : server[m] = "loading" /\ server' = [server EXCEPT ![m] = "listening"]
  /\ UNCHANGED <<bench_vars, sweep, chain, held>>

ServerEnds ==
  /\ \E m \in Names, left \in {"none", "workers"} :
       server[m] # "none" /\ server[m] # left /\ server' = [server EXCEPT ![m] = left]
  /\ UNCHANGED <<bench_vars, sweep, chain, held>>

PortReleased ==
  /\ \E m \in held : held' = held \ {m}
  /\ UNCHANGED <<bench_vars, sweep, chain, server>>

Sweeping == Launch \/ Completed \/ Ceiling \/ CeilingLate \/ Verdict \/ Summarise

Scripting ==
  \/ NoWeights \/ PortTaken \/ PortFree \/ SpawnServer \/ StartupFails \/ Ready
  \/ BenchmarkEnds \/ Teardown

Benchmarking == (BenchmarkStep \/ Die) /\ UNCHANGED <<sweep, chain, serving>>

Over == pc = "over" /\ UNCHANGED vars

Next ==
  \/ Sweeping \/ Interrupt \/ Scripting \/ ScriptDies \/ Benchmarking \/ OrphanWrites
  \/ ServerLoads \/ ServerEnds \/ PortReleased \/ Over

Spec == Init /\ [][Next]_vars

(* The sweep's own steps are taken, its ceiling included; the script, the    *)
(* benchmark and the server may hang anywhere.                               *)
FairSpec == Spec /\ WF_vars(Sweeping)

-----------------------------------------------------------------------------
(* Properties. *)

(* The state of the sweep and of its one chain is well typed, and only the   *)
(* script that waits for it has a benchmark running.                         *)
SweepTypeOK ==
  /\ pc \in {"launch", "wait", "verdict", "over"}
  /\ current \in 1..(Models + 1) /\ Len(rows) = current - 1
  /\ sweep_exit \in {None, 0, 1}
  /\ script \in {"none", "check", "spawn", "startup", "bench", "teardown", "exited", "killed"}
  /\ server \in [Names -> Servings] /\ held \subseteq Names /\ orphans \subseteq Names
  /\ stage \in Stages
  /\ Running => script = "bench"
  /\ Len(results) <= Cases

(* A row says scored exactly if that model's own launch left a scorecard     *)
(* file, and a zero exit of the sweep means one card per model, except for   *)
(* what an orphan does: its late card may score a later model, and may be    *)
(* missing in its own row.  The cards of no other model ever count           *)
(* (_bench_one).                                                             *)
VerdictIsOwn ==
  /\ \A i \in DOMAIN rows : rows[i].scored =>
       \E card \in cards : card.run = i \/ (card.run < i /\ card.run \in orphans)
  /\ \A card \in cards :
       card.run \in DOMAIN rows => rows[card.run].scored \/ card.run \in orphans
  /\ sweep_exit = 0 /\ orphans = {} => Names \subseteq {card.run : card \in cards}

(* A model server outlives its script's window only where the script was cut *)
(* down, by the ceiling or by a signal of its own: every other ending of a   *)
(* model, a refusal, a failed startup, a dead benchmark, has ended the       *)
(* process that holds the weights (running).  What that process forked may   *)
(* live on, as in ModelServer.                                               *)
OnlyCutScriptsLeak ==
  \A i \in DOMAIN rows :
    server[i] \in {"loading", "listening"} => rows[i].ending \in {"timed_out", "died"}

(* A model that hangs costs the sweep its ceiling and not the night: the     *)
(* sweep always ends (_PER_MODEL_CEILING_S).                                 *)
SweepEnds == <>(pc = "over")

(* benchmark_all_models.py: "Serving is therefore strictly sequential, and   *)
(* the previous model is gone before the next is read".                      *)
OneResident == \A m, n \in Names : server[m] # "none" /\ server[n] # "none" => m = n
=============================================================================
