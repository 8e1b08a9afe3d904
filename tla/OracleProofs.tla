---------------------------- MODULE OracleProofs ----------------------------
(***************************************************************************)
(* Who is to blame for an oracle run, for any number of forks.             *)
(***************************************************************************)
EXTENDS Oracle, TLAPS

(* The leader has a return code exactly once it is gone, and the runner only *)
(* judges a leader that is.                                                  *)
LeaderKnown ==
  /\ returncode \in {None, "exit", "signal"}
  /\ Leader \in group => returncode = None
  /\ pc \in {"judge", "read", "clean", "ended"} /\ available => returncode # None
  /\ pc = "check" => returncode = None /\ group = {}

(* A report is only read for a leader that ended by itself in time, and a    *)
(* verdict is given once.                                                    *)
VerdictStands ==
  /\ outcome # None => pc \in {"clean", "ended"}
  /\ outcome \in {"score", "OracleError", "raised", "zero_verdict"} => available
  /\ pc \in {"wait", "teardown", "kill", "judge", "read", "clean"} => available
  /\ pc = "read" => ~overran /\ ~interrupted /\ returncode # "signal"

OInv == LeaderKnown /\ VerdictStands /\ BlameIsFair

LEMMA Begins == Init => OInv
BY ForksAssumption
  DEF Init, OInv, LeaderKnown, VerdictStands, BlameIsFair

(* The steps of the runner. *)
LEMMA RunKeeps == ASSUME OInv, Run \/ Interrupt PROVE OInv'
<1> USE ForksAssumption DEF OInv, LeaderKnown, VerdictStands, confined
<1>1. CASE Refuse BY <1>1 DEF Refuse, BlameIsFair
<1>2. CASE Spawn BY <1>2 DEF Spawn, BlameIsFair
<1>3. CASE Completed BY <1>3 DEF Completed, BlameIsFair
<1>4. CASE Overrun
  <2>1. outcome' = None BY <1>4 DEF Overrun
  <2>2. QED BY <1>4, <2>1 DEF Overrun, BlameIsFair
<1>5. CASE Interrupt BY <1>5 DEF Interrupt, BlameIsFair
<1>6. CASE TeardownDead BY <1>6 DEF TeardownDead, BlameIsFair
<1>7. CASE TeardownAlive BY <1>7 DEF TeardownAlive, BlameIsFair
<1>8. CASE Kill
  <2>1. outcome' = None BY <1>8 DEF Kill
  <2>2. QED BY <1>8, <2>1 DEF Kill, signalled, BlameIsFair
<1>9. CASE KillMisses BY <1>9 DEF KillMisses, BlameIsFair
<1>10. CASE Judge
  <2>1. available /\ returncode \in {"exit", "signal"} BY <1>10 DEF Judge
  <2>2. VerdictStands' BY <1>10, <2>1 DEF Judge, ending
  <2>3. BlameIsFair' BY <1>10, <2>1 DEF Judge, ending, BlameIsFair
  <2>4. QED BY <1>10, <2>1, <2>2, <2>3 DEF Judge
<1>11. CASE ReadReport
  <2>1. available /\ ~overran /\ ~interrupted /\ returncode # "signal" BY <1>11 DEF ReadReport
  <2>2. BlameIsFair' BY <1>11, <2>1 DEF ReadReport, BlameIsFair
  <2>3. QED BY <1>11, <2>1, <2>2 DEF ReadReport
<1>12. CASE Clean BY <1>12 DEF Clean, BlameIsFair
<1>13. QED
  BY <1>1, <1>2, <1>3, <1>4, <1>5, <1>6, <1>7, <1>8, <1>9, <1>10, <1>11, <1>12 DEF Run

(* The steps of the confined processes: a leader that can still end or write *)
(* has no return code, so no verdict rests on it yet.                        *)
LEMMA ConfinedKeeps == ASSUME OInv, Confined PROVE OInv'
<1> USE ForksAssumption DEF OInv, LeaderKnown, VerdictStands, BlameIsFair, runner
<1>1. CASE WriteReport BY <1>1 DEF WriteReport
<1>2. CASE LeaderEnds BY <1>2 DEF LeaderEnds
<1>3. CASE Fork BY <1>3 DEF Fork
<1>4. CASE Detach BY <1>4 DEF Detach
<1>5. CASE ForkEnds BY <1>5 DEF ForkEnds
<1>6. QED BY <1>1, <1>2, <1>3, <1>4, <1>5 DEF Confined

(* The inductive invariant of one oracle run (TestRunner.run over            *)
(* sandboxed_spawn): what the runner knows of its leader, and when.          *)
THEOREM Inductive == Spec => []OInv
<1>1. ASSUME OInv, [Next]_vars PROVE OInv'
  <2>1. CASE Run \/ Interrupt BY <1>1, <2>1, RunKeeps
  <2>2. CASE Confined BY <1>1, <2>2, ConfinedKeeps
  <2>3. CASE UNCHANGED vars
    BY <1>1, <2>3
      DEF OInv, LeaderKnown, VerdictStands, BlameIsFair, vars
  <2>4. QED BY <1>1, <2>1, <2>2, <2>3 DEF Next, Ended
<1>2. QED BY Begins, <1>1, PTL DEF Spec

(* However the code under test ends, hangs, forks, detaches or damages the   *)
(* report, a run it did not survive scores zero and nothing else             *)
(* (TestRunner.run).                                                         *)
THEOREM BlamesFairly == Spec => []BlameIsFair
<1>1. OInv => BlameIsFair BY DEF OInv
<1>2. QED BY Inductive, <1>1, PTL
=============================================================================
