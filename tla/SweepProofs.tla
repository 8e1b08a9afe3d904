----------------------------- MODULE SweepProofs -----------------------------
(***************************************************************************)
(* Proofs about a sweep, for any number of models and cases: what an exit  *)
(* of the benchmark rests on, and which servers outlive their script.      *)
(***************************************************************************)
EXTENDS Sweep, TLAPS

(* How a script can end, and a row. *)
Endings == {"benchmark", "no_weights", "port_taken", "not_served", "timed_out", "died", None}
Row == [scored : BOOLEAN, ending : Endings]

Active == script \in {"check", "spawn", "startup", "bench", "teardown"}

(* Where the sweep, its script and its benchmark stand to each other. *)
Place ==
  /\ SweepTypeOK
  /\ results \in Seq({"done", "failed"})
  /\ rows \in Seq(Row) /\ ending \in Endings /\ script_exit \in Endings
  /\ pc \in {"wait", "verdict"} => current \in Names
  /\ Active => pc \in {"wait", "over"} /\ current \in Names
  /\ Running => run = current
  /\ sweep_exit # None => pc = "over" /\ current = Models + 1

(* A server whose own process lives. *)
Lives(m) == server[m] \in {"loading", "listening"}

(* No server before its script spawned it, and after it only workers, unless *)
(* the script was cut down.                                                  *)
Servers ==
  /\ \A m \in Names : m > current => server[m] = "none"
  /\ pc = "launch" /\ current \in Names => server[current] = "none"
  /\ script \in {"check", "spawn"} => server[current] = "none"
  /\ pc = "wait" /\ script = "exited" /\ script_exit # "died" => ~Lives(current)
  /\ pc = "verdict" /\ ending \notin {"timed_out", "died"} => ~Lives(current)

(* The cards on disk are of launches so far, and those that came up in a     *)
(* model's window are its own or an orphan's.                                *)
Cards ==
  /\ \A card \in cards : card.run \in Nat /\ card.run <= current
  /\ pc = "launch" => \A card \in cards : card.run < current
  /\ pc \in {"wait", "verdict"} => before \subseteq cards
  /\ pc \in {"wait", "verdict"} => \A card \in before : card.run < current
  /\ pc \in {"wait", "verdict"} =>
       \A card \in cards \ before : card.run = current \/ card.run \in orphans

(* The orphans are of launches so far, and none is the process that runs.    *)
Orphaned ==
  /\ \A m \in orphans : m <= current
  /\ pc = "launch" => current \notin orphans
  /\ script \in {"check", "spawn", "startup"} => current \notin orphans
  /\ script \in {"check", "spawn", "startup"} => \A card \in cards : card.run # current
  /\ stage \notin {"idle", "orphaned"} => run \notin orphans

ChainInv == Place /\ Servers /\ Cards /\ Orphaned /\ OnlyCutScriptsLeak /\ VerdictIsOwn

(* The steps of everyone but the benchmark process. *)
Others ==
  \/ Sweeping \/ Interrupt \/ Scripting \/ ScriptDies \/ OrphanWrites
  \/ ServerLoads \/ ServerEnds \/ PortReleased

(* What a step of the benchmark process may do to the rest: it adds cards of *)
(* its own launch only, and only while it runs.                              *)
LEMMA BenchmarkEffect ==
  ASSUME Place, BenchmarkStep \/ Die
  PROVE  /\ stage' \in Stages \ {"idle", "orphaned"}
         /\ results' \in Seq({"done", "failed"}) /\ Len(results') <= Cases
         /\ run' = run /\ Running
         /\ cards \subseteq cards' /\ \A card \in cards' : card \in cards \/ card.run = run
<1> USE CasesAssumption DEF Place, SweepTypeOK, Running, Stages, scorecard
<1>1. CASE RefuseUsage
  BY <1>1 DEF RefuseUsage
<1>2. CASE FinishCase
  BY <1>2 DEF FinishCase
<1>3. CASE FaultInCase
  BY <1>3 DEF FaultInCase
<1>4. CASE EscapeCase
  BY <1>4 DEF EscapeCase
<1>5. CASE EndLadder \/ ScoreCases \/ ScoreRaises
  BY <1>5 DEF EndLadder, ScoreCases, ScoreRaises
<1>6. CASE CountStyle \/ RefuseStyle \/ WriteCode
  BY <1>6 DEF CountStyle, RefuseStyle, WriteCode
<1>7. CASE WriteCard \/ RefuseCard
  BY <1>7 DEF WriteCard, RefuseCard
<1>8. CASE ReportAndExit
  BY <1>8 DEF ReportAndExit
<1>9. CASE Die
  BY <1>9 DEF Die, cards_cut
<1> QED
  BY <1>1, <1>2, <1>3, <1>4, <1>5, <1>6, <1>7, <1>8, <1>9 DEF BenchmarkStep

(* The steps of the sweep, of the script and of the world, part by part. *)
LEMMA BenchmarkKeepsChain ==
  ASSUME ChainInv, Benchmarking
  PROVE  ChainInv'
<1>1. UNCHANGED <<sweep, chain, serving>>
  BY DEF Benchmarking
<1>2. /\ stage' \in Stages \ {"idle", "orphaned"}
      /\ results' \in Seq({"done", "failed"}) /\ Len(results') <= Cases
      /\ run' = run /\ Running
      /\ cards \subseteq cards' /\ \A card \in cards' : card \in cards \/ card.run = run
  BY BenchmarkEffect DEF Benchmarking, ChainInv
<1>3. run = current /\ current \in Nat /\ script = "bench" /\ pc \in {"wait", "over"}
  BY <1>2 DEF ChainInv, Place, SweepTypeOK, Active, Names
<1>4. Place'
  BY <1>1, <1>2, <1>3 DEF ChainInv, Place, SweepTypeOK, Active, Running, sweep, chain, serving
<1>5. Servers' /\ OnlyCutScriptsLeak'
  BY <1>1 DEF ChainInv, Servers, Lives, OnlyCutScriptsLeak, sweep, chain, serving
<1>6. Cards'
  BY <1>1, <1>2, <1>3 DEF ChainInv, Cards, sweep, chain
<1>7. Orphaned'
  BY <1>1, <1>2, <1>3 DEF ChainInv, Orphaned, Running, sweep, chain
<1>8. VerdictIsOwn'
  <2>1. DOMAIN rows = 1..(current - 1)
    BY DEF ChainInv, Place, SweepTypeOK
  <2>2. /\ rows' = rows /\ orphans' = orphans /\ cards \subseteq cards'
        /\ \A card \in cards' : card \in cards \/ card.run \notin DOMAIN rows
    BY <1>1, <1>2, <1>3, <2>1 DEF sweep, chain
  <2>3. sweep_exit' # 0
    BY <1>1, <1>3, ModelsAssumption, NoneAssumption DEF ChainInv, Place, Active, Names, sweep
  <2> QED BY <2>2, <2>3 DEF ChainInv, VerdictIsOwn
<1> QED BY <1>4, <1>5, <1>6, <1>7, <1>8 DEF ChainInv

(* The servers and the other programs touch only the ports. *)
LEMMA WorldStep ==
  ASSUME Place, ServerLoads \/ ServerEnds \/ PortReleased
  PROVE  /\ server' \in [Names -> Servings] /\ held' \subseteq Names
         /\ UNCHANGED <<bench_vars, sweep, chain>>
<1> USE DEF Servings
<1>0. server \in [Names -> Servings] /\ held \subseteq Names
  BY DEF Place, SweepTypeOK
<1>1. CASE ServerLoads
  BY <1>0, <1>1 DEF ServerLoads
<1>2. CASE ServerEnds
  BY <1>0, <1>2 DEF ServerEnds
<1>3. CASE PortReleased
  BY <1>0, <1>3 DEF PortReleased
<1> QED BY <1>1, <1>2, <1>3

LEMMA StepPlace ==
  ASSUME ChainInv, Others
  PROVE  Place'
<1> USE ModelsAssumption, NoneAssumption
    DEF ChainInv, Place, SweepTypeOK, Active, Running, Stages, Servings, Endings, Names,
        bench_vars, bench, sweep, chain, serving
<1>1. CASE Launch
  BY <1>1 DEF Launch
<1>2. CASE Completed
  BY <1>2 DEF Completed
<1>3. CASE Ceiling \/ CeilingLate
  BY <1>3 DEF Ceiling, CeilingLate
<1>4. CASE Interrupt
  BY <1>4 DEF Interrupt
<1>5. CASE Verdict
  <2>1. [scored |-> cards \ before # {}, ending |-> ending] \in Row
    BY DEF Row
  <2>2. rows' \in Seq(Row) /\ Len(rows') = Len(rows) + 1
    BY <1>5, <2>1 DEF Verdict
  <2> QED BY <1>5, <2>2 DEF Verdict
<1>6. CASE Summarise
  BY <1>6 DEF Summarise
<1>7. CASE NoWeights \/ PortTaken
  BY <1>7 DEF NoWeights, PortTaken, ScriptRefuses
<1>8. CASE PortFree
  BY <1>8 DEF PortFree
<1>9. CASE SpawnServer
  BY <1>9 DEF SpawnServer
<1>10. CASE StartupFails
  BY <1>10 DEF StartupFails
<1>11. CASE Ready
  <2>1. results' \in Seq({"done", "failed"}) /\ Len(results') <= Cases
    BY <1>11, CasesAssumption DEF Ready, Start
  <2> QED BY <1>11, <2>1 DEF Ready, Start
<1>12. CASE BenchmarkEnds
  BY <1>12 DEF BenchmarkEnds
<1>13. CASE Teardown
  BY <1>13 DEF Teardown
<1>14. CASE ServerLoads \/ ServerEnds \/ PortReleased
  <2>1. /\ server' \in [Names -> Servings] /\ held' \subseteq Names
        /\ UNCHANGED <<bench_vars, sweep, chain>>
    BY <1>14, WorldStep
  <2> QED BY <2>1
<1>15. CASE ScriptDies
  <2>1. results' = <<>> \/ results' = results
    BY <1>15 DEF ScriptDies
  <2>2. results' \in Seq({"done", "failed"}) /\ Len(results') <= Cases
    <3>1. <<>> \in Seq({"done", "failed"}) /\ Len(<<>>) <= Cases
      BY CasesAssumption
    <3>2. results \in Seq({"done", "failed"}) /\ Len(results) <= Cases
      OBVIOUS
    <3> QED BY <2>1, <3>1, <3>2
  <2> QED BY <1>15, <2>2 DEF ScriptDies
<1>16. CASE OrphanWrites
  BY <1>16 DEF OrphanWrites
<1> QED
  BY <1>1, <1>2, <1>3, <1>4, <1>5, <1>6, <1>7, <1>8, <1>9, <1>10, <1>11, <1>12, <1>13, <1>14, <1>15,
     <1>16
  DEF Others, Sweeping, Scripting

(* Only the current model has a server that may come or go, and a row is     *)
(* written once its own is settled.                                          *)
LEMMA StepServers ==
  ASSUME ChainInv, Others
  PROVE  Servers' /\ OnlyCutScriptsLeak'
<1>0. /\ DOMAIN rows = 1..(current - 1) /\ current \in Nat \ {0}
      /\ server \in [Names -> Servings]
  BY ModelsAssumption DEF ChainInv, Place, SweepTypeOK, Names
<1> USE ModelsAssumption DEF ChainInv, Servers, Lives, OnlyCutScriptsLeak, Names, Servings
<1>1. CASE Launch
  BY <1>0, <1>1 DEF Launch, serving
<1>2. CASE Completed
  BY <1>0, <1>2 DEF Completed, serving, chain
<1>3. CASE Ceiling \/ CeilingLate
  BY <1>0, <1>3 DEF Ceiling, CeilingLate, serving, chain
<1>4. CASE Interrupt
  BY <1>0, <1>4 DEF Interrupt, serving, chain
<1>5. CASE Verdict
  <2>1. /\ rows' = Append(rows, [scored |-> cards \ before # {}, ending |-> ending])
        /\ current' = current + 1 /\ pc' = "launch" /\ pc = "verdict"
        /\ server' = server /\ script' = script /\ current \in Names
    BY <1>5 DEF Verdict, serving, chain, Place
  <2>2. /\ DOMAIN rows' = 1..current
        /\ \A i \in DOMAIN rows : rows'[i] = rows[i]
        /\ rows'[current].ending = ending
    BY <1>0, <2>1 DEF Place, SweepTypeOK
  <2>3. OnlyCutScriptsLeak'
    BY <1>0, <2>1, <2>2
  <2>4. script \notin {"check", "spawn"}
    BY <2>1 DEF Place, Active
  <2> QED BY <1>0, <2>1, <2>3, <2>4
<1>6. CASE Summarise
  BY <1>0, <1>6 DEF Summarise, serving, chain
<1>7. CASE NoWeights \/ PortTaken
  BY <1>0, <1>7 DEF NoWeights, PortTaken, ScriptRefuses, serving, sweep
<1>8. CASE PortFree
  BY <1>0, <1>8 DEF PortFree, serving, sweep
<1>9. CASE SpawnServer
  BY <1>0, <1>9 DEF SpawnServer, sweep, Place, Active
<1>10. CASE StartupFails \/ BenchmarkEnds
  BY <1>0, <1>10 DEF StartupFails, BenchmarkEnds, serving, sweep, Place, Active
<1>11. CASE Ready
  BY <1>0, <1>11 DEF Ready, serving, sweep, Place, Active
<1>12. CASE Teardown
  BY <1>0, <1>12 DEF Teardown, sweep, Place, Active
<1>13. CASE ServerLoads
  BY <1>0, <1>13 DEF ServerLoads, sweep, chain, Place, Active
<1>14. CASE ServerEnds
  BY <1>0, <1>14 DEF ServerEnds, sweep, chain, Place, Active
<1>15. CASE PortReleased
  BY <1>0, <1>15 DEF PortReleased, sweep, chain
<1>16. CASE ScriptDies
  BY <1>0, <1>16 DEF ScriptDies, sweep, serving, Place, Active
<1>17. CASE OrphanWrites
  BY <1>0, <1>17 DEF OrphanWrites, sweep, chain, serving
<1> QED
  BY <1>1, <1>2, <1>3, <1>4, <1>5, <1>6, <1>7, <1>8, <1>9, <1>10, <1>11, <1>12, <1>13, <1>14, <1>15,
     <1>16, <1>17
  DEF Others, Sweeping, Scripting

(* Only the benchmark, the ceiling that tears it down and an orphan touch    *)
(* the cards, and each writes its own.                                       *)
LEMMA CardsGrow ==
  ASSUME ChainInv, Others
  PROVE  /\ cards \subseteq cards' /\ orphans \subseteq orphans'
         /\ \A card \in cards' \ cards :
              \/ card.run \in orphans
              \/ card.run = current /\ pc = "wait" /\ pc' = "verdict" /\ script \in {"bench"}
         /\ \A m \in orphans' \ orphans : m = current /\ script = "bench" /\ stage' = "orphaned"
<1>1. CASE Ceiling
  BY <1>1 DEF Ceiling, cards_cut, scorecard, Running, ChainInv, Place, SweepTypeOK
<1>2. CASE Launch \/ Completed \/ CeilingLate \/ Interrupt \/ Verdict \/ Summarise
  BY <1>2 DEF Launch, Completed, CeilingLate, Interrupt, Verdict, Summarise, bench_vars, chain
<1>3. CASE Scripting
  BY <1>3 DEF Scripting, NoWeights, PortTaken, ScriptRefuses, PortFree, SpawnServer, StartupFails,
     Ready, Start, BenchmarkEnds, Teardown, bench_vars
<1>4. CASE ScriptDies
  BY <1>4 DEF ScriptDies, ChainInv, Place, SweepTypeOK
<1>5. CASE OrphanWrites
  BY <1>5 DEF OrphanWrites, chain
<1>6. CASE ServerLoads \/ ServerEnds \/ PortReleased
  BY <1>6 DEF ServerLoads, ServerEnds, PortReleased, bench_vars, chain
<1> QED BY <1>1, <1>2, <1>3, <1>4, <1>5, <1>6 DEF Others, Sweeping

(* A card of this model's window is one that was not there before it. *)
LEMMA StepCards ==
  ASSUME ChainInv, Others
  PROVE  Cards'
<1>0. current \in Nat /\ orphans \subseteq Nat
  BY ModelsAssumption DEF ChainInv, Place, SweepTypeOK, Names
<1>1. /\ cards \subseteq cards' /\ orphans \subseteq orphans'
      /\ \A card \in cards' \ cards :
           \/ card.run \in orphans
           \/ card.run = current /\ pc = "wait" /\ pc' = "verdict"
  BY CardsGrow
<1>2. /\ \A card \in cards : card.run \in Nat /\ card.run <= current
      /\ \A m \in orphans : m <= current
      /\ pc = "launch" => (\A card \in cards : card.run < current) /\ current \notin orphans
      /\ pc \in {"wait", "verdict"} =>
           /\ before \subseteq cards
           /\ \A card \in before : card.run < current
           /\ \A card \in cards \ before : card.run = current \/ card.run \in orphans
  BY DEF ChainInv, Cards, Orphaned
<1>3. CASE Launch
  <2>1. /\ before' = cards /\ cards' = cards /\ current' = current /\ pc = "launch"
        /\ pc' = "wait"
    BY <1>3 DEF Launch, bench_vars
  <2> QED BY <1>0, <1>2, <2>1 DEF Cards
<1>4. CASE Verdict
  <2>1. cards' = cards /\ current' = current + 1 /\ pc' = "launch"
    BY <1>4 DEF Verdict, bench_vars
  <2> QED BY <1>0, <1>2, <2>1 DEF Cards
<1>5. CASE ~Launch /\ ~Verdict
  <2>1. /\ before' = before /\ current' = current
        /\ pc' = "launch" => pc = "launch"
        /\ pc' \in {"wait", "verdict"} => pc \in {"wait", "verdict"}
    BY <1>5 DEF Others, Sweeping, Completed, Ceiling, CeilingLate, Interrupt, Summarise, Scripting,
       NoWeights, PortTaken, ScriptRefuses, PortFree, SpawnServer, StartupFails, Ready,
       BenchmarkEnds, Teardown, ScriptDies, OrphanWrites, ServerLoads, ServerEnds, PortReleased,
       sweep
  <2>2. \A card \in cards' : card.run \in Nat /\ card.run <= current'
    <3>1. \A card \in cards' : card \in cards \/ card.run \in orphans \/ card.run = current
      BY <1>1
    <3>2. \A n \in orphans \cup {current} : n \in Nat /\ n <= current
      BY <1>0, <1>2
    <3> QED BY <1>2, <2>1, <3>1, <3>2
  <2>3. pc' = "launch" => \A card \in cards' : card.run < current'
    <3> SUFFICES ASSUME pc' = "launch" PROVE \A card \in cards' : card.run < current
      BY <2>1
    <3>1. \A card \in cards' : card \in cards \/ card.run \in orphans
      BY <1>1
    <3>2. \A n \in orphans : n < current
      BY <1>0, <1>2, <2>1
    <3> QED BY <1>2, <2>1, <3>1, <3>2
  <2>4. pc' \in {"wait", "verdict"} =>
          /\ before' \subseteq cards'
          /\ \A card \in before' : card.run < current'
          /\ \A card \in cards' \ before' : card.run = current' \/ card.run \in orphans'
    BY <1>1, <1>2, <2>1
  <2> QED BY <2>2, <2>3, <2>4 DEF Cards
<1> QED BY <1>3, <1>4, <1>5

LEMMA StepOrphaned ==
  ASSUME ChainInv, Others
  PROVE  Orphaned'
<1>0. current \in Nat /\ orphans \subseteq Nat /\ run' \in {run, current}
  BY ModelsAssumption DEF ChainInv, Place, SweepTypeOK, Names, Others, Sweeping, Launch, Completed,
     Ceiling, CeilingLate, Verdict, Interrupt, Summarise, Scripting, NoWeights, PortTaken,
     ScriptRefuses, PortFree, SpawnServer, StartupFails, Ready, Start, BenchmarkEnds, Teardown,
     ScriptDies, OrphanWrites, ServerLoads, ServerEnds, PortReleased, bench_vars, bench
<1> USE DEF ChainInv, Orphaned
<1>1. CASE Launch
  BY <1>0, <1>1 DEF Launch, Cards, bench_vars, bench
<1>2. CASE Completed \/ CeilingLate \/ Interrupt \/ Summarise
  BY <1>2 DEF Completed, CeilingLate, Interrupt, Summarise, bench_vars, bench, chain
<1>3. CASE Ceiling
  BY <1>3 DEF Ceiling, Running
<1>4. CASE Verdict
  <2>1. script \notin {"check", "spawn", "startup"}
    BY <1>4 DEF Verdict, Place, Active
  <2> QED BY <1>0, <1>4, <2>1 DEF Verdict, bench_vars, bench, chain
<1>5. CASE Scripting
  <2>1. CASE Ready
    BY <2>1 DEF Ready, Start, sweep
  <2>2. CASE ~Ready
    BY <1>5, <2>2 DEF Scripting, NoWeights, PortTaken, ScriptRefuses, PortFree, SpawnServer,
       StartupFails, BenchmarkEnds, Teardown, bench_vars, bench, sweep
  <2> QED BY <2>1, <2>2
<1>6. CASE ScriptDies
  <2>1. current' = current /\ pc' = pc /\ script' = "exited" /\ cards' = cards /\ run' = run
        /\ pc # "launch"
    BY <1>6 DEF ScriptDies, sweep, Place, Active
  <2>2. CASE Running
    <3>1. stage' = "orphaned" /\ orphans' = orphans \cup {current}
      BY <1>6, <2>2 DEF ScriptDies
    <3>2. \A m \in orphans' : m <= current'
      BY <1>0, <2>1, <3>1
    <3> QED BY <2>1, <3>1, <3>2
  <2>3. CASE ~Running
    BY <1>0, <1>6, <2>1, <2>3 DEF ScriptDies
  <2> QED BY <2>2, <2>3
<1>7. CASE OrphanWrites
  BY <1>7 DEF OrphanWrites, bench, sweep, chain
<1>8. CASE ServerLoads \/ ServerEnds \/ PortReleased
  BY <1>8 DEF ServerLoads, ServerEnds, PortReleased, bench_vars, bench, sweep, chain
<1> QED
  BY <1>1, <1>2, <1>3, <1>4, <1>5, <1>6, <1>7, <1>8 DEF Others, Sweeping

LEMMA StepVerdict ==
  ASSUME ChainInv, Others
  PROVE  VerdictIsOwn'
<1>0. /\ DOMAIN rows = 1..(current - 1) /\ current \in Nat \ {0}
      /\ orphans \subseteq Nat
  BY ModelsAssumption DEF ChainInv, Place, SweepTypeOK, Names
<1>1. /\ cards \subseteq cards' /\ orphans \subseteq orphans'
      /\ \A card \in cards' \ cards :
           \/ card.run \in orphans
           \/ card.run = current /\ pc = "wait" /\ pc' = "verdict"
  BY CardsGrow
<1>2. /\ \A i \in DOMAIN rows : rows[i].scored =>
           \E card \in cards : card.run = i \/ (card.run < i /\ card.run \in orphans)
      /\ \A card \in cards :
           card.run \in DOMAIN rows => rows[card.run].scored \/ card.run \in orphans
      /\ sweep_exit = 0 /\ orphans = {} => Names \subseteq {card.run : card \in cards}
  BY DEF ChainInv, VerdictIsOwn
<1>3. CASE Verdict
  <2>1. /\ rows' = Append(rows, [scored |-> cards \ before # {}, ending |-> ending])
        /\ pc = "verdict" /\ cards' = cards /\ sweep_exit' = sweep_exit /\ orphans' = orphans
    BY <1>3 DEF Verdict, bench_vars, chain
  <2>2. /\ \A card \in cards : card.run \in Nat /\ card.run <= current
        /\ \A card \in before : card.run < current
        /\ \A card \in cards \ before : card.run = current \/ card.run \in orphans
    BY <2>1 DEF ChainInv, Cards
  <2>3. /\ DOMAIN rows' = 1..current
        /\ \A i \in DOMAIN rows : rows'[i] = rows[i]
        /\ rows'[current].scored = (cards \ before # {})
    BY <1>0, <2>1 DEF ChainInv, Place, SweepTypeOK
  <2>4. sweep_exit' # 0
    BY <2>1, NoneAssumption DEF ChainInv, Place
  <2>5. \A i \in 1..current : i \in DOMAIN rows \/ i = current
    BY <1>0
  <2>6. rows'[current].scored =>
          \E card \in cards : card.run = current \/ (card.run < current /\ card.run \in orphans)
    <3>1. \A n \in orphans : n = current \/ n < current
      BY <1>0 DEF ChainInv, Orphaned
    <3>2. cards \ before # {} =>
            \E card \in cards : card.run = current \/ (card.run < current /\ card.run \in orphans)
      BY <2>2, <3>1
    <3> QED BY <2>3, <3>2, Zenon
  <2>7. \A card \in cards : card.run = current => rows'[current].scored
    <3>1. \A card \in cards : card.run = current => card \notin before
      BY <1>0, <2>2
    <3>2. \A card \in cards : card.run = current => cards \ before # {}
      BY <3>1
    <3> QED BY <2>3, <3>2, Zenon
  <2>8. \A i \in DOMAIN rows' : rows'[i].scored =>
          \E card \in cards : card.run = i \/ (card.run < i /\ card.run \in orphans)
    BY <1>2, <2>3, <2>5, <2>6
  <2>9. \A card \in cards :
          card.run \in DOMAIN rows' => rows'[card.run].scored \/ card.run \in orphans
    BY <1>2, <2>3, <2>5, <2>7
  <2> QED BY <2>1, <2>4, <2>8, <2>9 DEF VerdictIsOwn
<1>4. CASE Summarise
  <2>1. current = Models + 1 /\ rows' = rows /\ cards' = cards /\ orphans' = orphans
    BY <1>4, ModelsAssumption DEF Summarise, ChainInv, Place, SweepTypeOK, bench_vars, chain
  <2>2. sweep_exit' = 0 => \A i \in DOMAIN rows : rows[i].scored
    BY <1>4 DEF Summarise
  <2>3. DOMAIN rows = Names
    BY <1>0, <2>1, ModelsAssumption DEF Names
  <2>4. sweep_exit' = 0 /\ orphans = {} => Names \subseteq {card.run : card \in cards}
    BY <1>2, <2>2, <2>3
  <2> QED BY <1>2, <2>1, <2>4 DEF VerdictIsOwn
<1>5. CASE ~Verdict /\ ~Summarise
  <2>1. rows' = rows /\ sweep_exit' = sweep_exit
    BY <1>5 DEF Others, Sweeping, Launch, Completed, Ceiling, CeilingLate, Interrupt, Scripting,
       NoWeights, PortTaken, ScriptRefuses, PortFree, SpawnServer, StartupFails, Ready,
       BenchmarkEnds, Teardown, ScriptDies, OrphanWrites, ServerLoads, ServerEnds, PortReleased,
       sweep
  <2>2. \A card \in cards' : card \in cards \/ card.run \in orphans' \/ card.run \notin DOMAIN rows
    BY <1>0, <1>1
  <2>3. \A card \in cards' :
          card.run \in DOMAIN rows => rows[card.run].scored \/ card.run \in orphans'
    BY <1>1, <1>2, <2>2
  <2>4. \A i \in DOMAIN rows : rows[i].scored =>
          \E card \in cards' : card.run = i \/ (card.run < i /\ card.run \in orphans')
    BY <1>1, <1>2
  <2>5. sweep_exit = 0 /\ orphans' = {} => Names \subseteq {card.run : card \in cards'}
    BY <1>1, <1>2
  <2> QED BY <2>1, <2>3, <2>4, <2>5 DEF VerdictIsOwn
<1> QED BY <1>3, <1>4, <1>5

LEMMA StepChain == ChainInv /\ [Next]_vars => ChainInv'
<1> SUFFICES ASSUME ChainInv, [Next]_vars PROVE ChainInv'
  OBVIOUS
<1>1. CASE Benchmarking
  BY <1>1, BenchmarkKeepsChain
<1>2. CASE Others
  BY <1>2, StepPlace, StepServers, StepCards, StepOrphaned, StepVerdict DEF ChainInv
<1>3. CASE Over \/ UNCHANGED vars
  BY <1>3 DEF Over, vars, bench_vars, bench, sweep, chain, serving, ChainInv, Place, SweepTypeOK,
     Active, Running, Servers, Lives, Cards, Orphaned, OnlyCutScriptsLeak, VerdictIsOwn
<1> QED BY <1>1, <1>2, <1>3 DEF Next, Others

LEMMA InitChain == Init => ChainInv
<1> SUFFICES ASSUME Init PROVE ChainInv
  OBVIOUS
<1>1. Place
  BY ModelsAssumption, CasesAssumption DEF Init, BenchmarkInit, Place, SweepTypeOK, Active,
     Running, Stages, Servings, Endings, Names
<1>2. Servers /\ Cards /\ Orphaned
  BY DEF Init, BenchmarkInit, Servers, Lives, Cards, Orphaned
<1>3. OnlyCutScriptsLeak /\ VerdictIsOwn
  <2>1. DOMAIN rows = {} /\ sweep_exit # 0
    BY NoneAssumption DEF Init
  <2> QED BY <2>1 DEF OnlyCutScriptsLeak, VerdictIsOwn
<1> QED BY <1>1, <1>2, <1>3 DEF ChainInv

(* The state stays well typed, and only the script that waits for it has a   *)
(* benchmark running (_bench_one, the ceiling's kill of the whole group).    *)
THEOREM SweepTypeCorrect == Spec => []SweepTypeOK
BY InitChain, StepChain, PTL DEF Spec, ChainInv, Place

(* For any number of models, a row says scored exactly if that model's own   *)
(* launch left a scorecard, except for an orphan's late one, and without     *)
(* orphans a zero exit means one for each (_bench_one).                      *)
THEOREM VerdictsAreOwn == Spec => []VerdictIsOwn
BY InitChain, StepChain, PTL DEF Spec, ChainInv

(* For any number of models, a server outlives its script's window only      *)
(* where the ceiling or a signal cut the script down (running's teardown).   *)
THEOREM OnlyCutScriptsLeakServers == Spec => []OnlyCutScriptsLeak
BY InitChain, StepChain, PTL DEF Spec, ChainInv

-----------------------------------------------------------------------------
(* What the artifact stages know: the ladder ended or was interrupted, and   *)
(* before the exit the scorecard was written or refused.                     *)
LadderOver ==
  stage \in {"score", "style", "code", "card", "report"} => interruption \/ Len(results) = Cases

CardTried == stage = "report" => scorecard(TRUE) \in cards \/ "scorecard" \in artifact_faults

(* Up to its card a benchmark has left none, so a traceback leaves nothing.  *)
CardLess ==
  stage \in {"ladder", "score", "style", "code", "card"} => \A card \in cards : card.run # run

(* A fault of the scorecard is the last thing that is collected.             *)
ScoredWhole ==
  /\ stage \in {"ladder", "score", "style", "code", "card"} => "scorecard" \notin artifact_faults
  /\ stage = "ladder" => ~interruption

BackInv == LadderOver /\ CardTried /\ CardLess /\ ScoredWhole /\ ExitIsBacked

(* A step that keeps the cases keeps what they say. *)
LEMMA SameCases ==
  ASSUME results' = results
  PROVE  cases_passed' = cases_passed
BY DEF cases_passed

LEMMA SameCard ==
  ASSUME results' = results, run' = run
  PROVE  scorecard(TRUE)' = scorecard(TRUE)
BY DEF scorecard

(* A traceback that left nothing is one of the ways to exit with 1. *)
LEMMA TracebackIsBacked ==
  ASSUME exit_code' = 1, \A card \in cards' : card.run # run'
  PROVE  ExitIsBacked'
<1>1. exit_code' # 0 /\ exit_code' # 3
  OBVIOUS
<1> QED
  BY <1>1, Zenon DEF ExitIsBacked

(* A step of the benchmark process keeps BackInv. *)
LEMMA BenchmarkKeepsBacking ==
  ASSUME BackInv, BenchmarkStep \/ Die
  PROVE  BackInv'
<1> USE DEF BackInv, LadderOver, CardTried, CardLess, ScoredWhole, ExitIsBacked
<1>1. CASE RefuseUsage
  BY <1>1 DEF RefuseUsage
<1>2. CASE FinishCase
  BY <1>2 DEF FinishCase
<1>3. CASE FaultInCase
  <2>1. CASE results = <<>>
    BY <1>3, <2>1 DEF FaultInCase
  <2>2. CASE results # <<>>
    BY <1>3, <2>2 DEF FaultInCase
  <2> QED BY <2>1, <2>2
<1>4. CASE EscapeCase
  <2>1. /\ UNCHANGED <<run, results, interruption, artifact_faults, cards>>
        /\ stage' = "exited" /\ exit_code' = 1
        /\ \A card \in cards : card.run # run
    BY <1>4 DEF EscapeCase
  <2>2. ExitIsBacked'
    BY <2>1, TracebackIsBacked
  <2>3. LadderOver' /\ CardTried' /\ CardLess' /\ ScoredWhole'
    BY <2>1
  <2> QED BY <2>2, <2>3
<1>5. CASE EndLadder
  BY <1>5 DEF EndLadder
<1>6. CASE ScoreCases
  BY <1>6 DEF ScoreCases
<1>7. CASE ScoreRaises
  <2>1. /\ UNCHANGED <<run, results, interruption, artifact_faults, cards>>
        /\ stage' = "exited" /\ exit_code' = 1
        /\ \A card \in cards : card.run # run
    BY <1>7 DEF ScoreRaises
  <2>2. ExitIsBacked'
    BY <2>1, TracebackIsBacked
  <2>3. LadderOver' /\ CardTried' /\ CardLess' /\ ScoredWhole'
    BY <2>1
  <2> QED BY <2>2, <2>3
<1>8. CASE CountStyle
  BY <1>8 DEF CountStyle
<1>9. CASE RefuseStyle
  BY <1>9 DEF RefuseStyle
<1>10. CASE WriteCode
  BY <1>10 DEF WriteCode
<1>11. CASE WriteCard
  BY <1>11, SameCard DEF WriteCard
<1>12. CASE RefuseCard
  BY <1>12 DEF RefuseCard
<1>13. CASE ReportAndExit
  <2>1. cases_passed' = cases_passed /\ scorecard(TRUE)' = scorecard(TRUE)
    BY <1>13, SameCases, SameCard DEF ReportAndExit
  <2>2. exit_code' \in {0, 1, 3}
    BY <1>13 DEF ReportAndExit, exit_status
  <2>3. exit_code' = 0 =>
          ~interruption /\ artifact_faults = {} /\ cases_passed = Len(results)
    BY <1>13 DEF ReportAndExit, exit_status
  <2>4. exit_code' = 1 =>
          ~interruption /\ artifact_faults = {} /\ cases_passed # Len(results)
    BY <1>13 DEF ReportAndExit, exit_status
  <2>5. UNCHANGED <<results, interruption, artifact_faults, cards, run>>
        /\ stage = "report" /\ stage' = "exited"
    BY <1>13 DEF ReportAndExit
  <2>6. (interruption \/ Len(results) = Cases)
        /\ (scorecard(TRUE) \in cards \/ "scorecard" \in artifact_faults)
    BY <2>5
  <2>7. ExitIsBacked'
    BY <2>1, <2>3, <2>4, <2>5, <2>6
  <2> QED BY <2>5, <2>7
<1>14. CASE Die
  BY <1>14 DEF Die
<1> QED
  BY <1>1, <1>2, <1>3, <1>4, <1>5, <1>6, <1>7, <1>8, <1>9, <1>10, <1>11, <1>12, <1>13, <1>14
  DEF BenchmarkStep

(* The other steps leave the process alone, and an orphan's card is never    *)
(* that of the process that runs.                                            *)
LEMMA IdleKeepsBacking ==
  ASSUME BackInv, UNCHANGED bench, cards \subseteq cards',
         \A card \in cards' \ cards : card.run # run \/ stage \in {"idle", "orphaned"}
  PROVE  BackInv'
<1>1. /\ stage' = stage /\ run' = run /\ results' = results /\ interruption' = interruption
      /\ artifact_faults' = artifact_faults /\ exit_code' = exit_code
  BY DEF bench
<1> QED
  BY <1>1, SameCases, SameCard
  DEF BackInv, LadderOver, CardTried, CardLess, ScoredWhole, ExitIsBacked

(* SIGKILL never turns a running benchmark into an exited one. *)
LEMMA CeilingKeepsBacking ==
  ASSUME BackInv, Ceiling
  PROVE  BackInv'
<1>1. /\ run' = run /\ results' = results /\ interruption' = interruption
      /\ artifact_faults' = artifact_faults /\ exit_code' = exit_code
      /\ cards \subseteq cards'
  BY DEF Ceiling, cards_cut
<1>2. CASE Running
  BY <1>1, <1>2
  DEF Ceiling, BackInv, LadderOver, CardTried, CardLess, ScoredWhole, ExitIsBacked
<1>3. CASE ~Running
  <2>1. stage' = stage /\ cards' = cards
    BY <1>3 DEF Ceiling, cards_cut, Running
  <2> QED
    BY <1>1, <2>1, IdleKeepsBacking DEF bench
<1> QED BY <1>2, <1>3

LEMMA StepBacking == ChainInv /\ BackInv /\ [Next]_vars => BackInv'
<1> SUFFICES ASSUME ChainInv, BackInv, [Next]_vars PROVE BackInv'
  OBVIOUS
<1>1. CASE Ceiling
  BY <1>1, CeilingKeepsBacking
<1>2. CASE Benchmarking
  BY <1>2, BenchmarkKeepsBacking DEF Benchmarking
<1>3. CASE Ready
  <2>1. \A card \in cards : card.run # current
    BY <1>3 DEF Ready, ChainInv, Orphaned
  <2> QED
    BY <1>3, <2>1
    DEF Ready, Start, BackInv, LadderOver, CardTried, CardLess, ScoredWhole, ExitIsBacked
<1>4. CASE ScriptDies
  <2>1. CASE Running
    BY <1>4, <2>1
    DEF ScriptDies, BackInv, LadderOver, CardTried, CardLess, ScoredWhole, ExitIsBacked
  <2>2. CASE ~Running
    BY <1>4, <2>2, IdleKeepsBacking DEF ScriptDies, bench
  <2> QED BY <2>1, <2>2
<1>5. CASE OrphanWrites
  <2>1. /\ UNCHANGED bench /\ cards \subseteq cards'
        /\ \A card \in cards' \ cards : card.run \in orphans
    BY <1>5 DEF OrphanWrites
  <2>2. stage \notin {"idle", "orphaned"} => run \notin orphans
    BY DEF ChainInv, Orphaned
  <2> QED BY <2>1, <2>2, IdleKeepsBacking
<1>6. CASE UNCHANGED bench_vars
  BY <1>6, IdleKeepsBacking DEF bench_vars
<1>7. CASE \/ Launch \/ Completed \/ CeilingLate \/ Interrupt \/ Verdict \/ Summarise
           \/ ServerLoads \/ ServerEnds \/ PortReleased \/ Over
  <2>1. UNCHANGED bench_vars
    BY <1>7 DEF Launch, Completed, CeilingLate, Interrupt, Verdict, Summarise, ServerLoads,
       ServerEnds, PortReleased, Over, vars
  <2> QED BY <1>6, <2>1
<1>8. CASE Scripting /\ ~Ready
  <2>1. UNCHANGED bench_vars
    BY <1>8 DEF Scripting, NoWeights, PortTaken, ScriptRefuses, PortFree, SpawnServer,
       StartupFails, BenchmarkEnds, Teardown
  <2> QED BY <1>6, <2>1
<1> QED
  BY <1>1, <1>2, <1>3, <1>4, <1>5, <1>6, <1>7, <1>8 DEF Next, Sweeping, vars

(* Whatever the host, the cases or the other processes do, each exit code of *)
(* the benchmark stands on what it should: zero on a whole ladder that       *)
(* passed, three on every finished case, and one on a failed ladder or on a  *)
(* traceback that left nothing (benchmarks.run main).                        *)
THEOREM ExitsAreBacked == Spec => []ExitIsBacked
<1>1. Init => BackInv
  BY DEF Init, BenchmarkInit, BackInv, LadderOver, CardTried, CardLess, ScoredWhole, ExitIsBacked
<1>2. Spec => [](ChainInv /\ BackInv)
  BY <1>1, StepBacking, InitChain, StepChain, PTL DEF Spec
<1> QED
  BY <1>2, PTL DEF BackInv
-----------------------------------------------------------------------------
(* How many steps of its own the sweep is from its end: three for a model    *)
(* and one for the summary.                                                  *)
Left ==
  IF pc = "over" THEN 0
  ELSE 3 * (Models + 1 - current)
         + (CASE pc = "launch" -> 2 [] pc = "wait" -> 1 [] pc = "verdict" -> 0) - 1

(* The sweep's own steps come nearer to the end, and no script, benchmark or *)
(* server sets it back.                                                      *)
Advances ==
  /\ Sweeping => Left' < Left
  /\ ~Sweeping => Left' <= Left

(* The sweep takes at most 3 * Models + 1 steps of its own, whatever the     *)
(* models do (_bench_one, _PER_MODEL_CEILING_S).                             *)
THEOREM SweepAdvances ==
  Spec => [](Left \in 0..(3 * Models + 1)) /\ [][Advances]_vars
<1>1. ChainInv => Left \in 0..(3 * Models + 1)
  <2> SUFFICES ASSUME ChainInv PROVE Left \in 0..(3 * Models + 1) OBVIOUS
  <2>1. /\ Models \in Nat /\ current \in 1..(Models + 1) /\ pc \in {"launch", "wait", "verdict", "over"}
        /\ pc \in {"wait", "verdict"} => current <= Models
    BY ModelsAssumption DEF ChainInv, Place, SweepTypeOK, Names
  <2>2. CASE pc = "over" BY <2>1, <2>2 DEF Left
  <2>3. CASE pc = "launch" BY <2>1, <2>3 DEF Left
  <2>4. CASE pc \in {"wait", "verdict"} BY <2>1, <2>4 DEF Left
  <2> QED BY <2>1, <2>2, <2>3, <2>4
<1>2. ChainInv /\ [Next]_vars => [Advances]_vars
  <2> SUFFICES ASSUME ChainInv, Next PROVE Advances OBVIOUS
  <2>1. /\ Models \in Nat /\ current \in 1..(Models + 1) /\ pc \in {"launch", "wait", "verdict", "over"}
        /\ pc \in {"wait", "verdict"} => current <= Models
    BY ModelsAssumption DEF ChainInv, Place, SweepTypeOK, Names
  <2>2. ASSUME Sweeping PROVE Left' < Left
    <3>1. CASE Launch BY <2>1, <3>1 DEF Launch, Left
    <3>2. CASE Completed \/ Ceiling \/ CeilingLate
      BY <2>1, <3>2 DEF Completed, Ceiling, CeilingLate, Left
    <3>3. CASE Verdict BY <2>1, <3>3 DEF Verdict, Left
    <3>4. CASE Summarise BY <2>1, <3>4 DEF Summarise, Left
    <3> QED BY <2>2, <3>1, <3>2, <3>3, <3>4 DEF Sweeping
  <2>3. ASSUME ~Sweeping PROVE Left' <= Left
    <3>1. CASE Interrupt
      <4>1. Left' = 0 /\ Left \in Nat BY <2>1, <3>1 DEF Interrupt, Left
      <4> QED BY <4>1
    <3>2. CASE ~Interrupt
      <4>1. UNCHANGED <<pc, current>>
        BY <2>3, <3>2 DEF Next, Scripting, NoWeights, PortTaken, ScriptRefuses, PortFree, SpawnServer,
           StartupFails, Ready, BenchmarkEnds, Teardown, ScriptDies, OrphanWrites, Benchmarking,
           ServerLoads, ServerEnds, PortReleased, Over, vars, sweep
      <4>2. Left' = Left BY <4>1 DEF Left
      <4>3. Left \in Nat BY <1>1, ModelsAssumption
      <4> QED BY <4>2, <4>3
    <3> QED BY <3>1, <3>2
  <2> QED BY <2>2, <2>3 DEF Advances
<1> QED BY <1>1, <1>2, InitChain, StepChain, PTL DEF Spec
=============================================================================
