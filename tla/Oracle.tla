------------------------------- MODULE Oracle -------------------------------
(***************************************************************************)
(* One oracle run: TestRunner.run (runner.py) over sandboxed_spawn         *)
(* (sandbox.py).  pytest runs the model's code in a session of its own     *)
(* under a deadline; how it ended and the report it left decide between a  *)
(* score, a zero verdict and a broken oracle.                              *)
(*                                                                         *)
(* The confined processes are external: pytest (the leader) and what the   *)
(* code under test forks.  A fork may leave the session.  The profile that *)
(* confines them is the kernel's business and not modelled.                *)
(***************************************************************************)
EXTENDS Naturals

CONSTANTS
  Forks,           \* the processes the code under test may fork
  None

VARIABLES
  pc,              \* check, wait, teardown, kill, judge, read, clean, ended
  available,       \* sandbox-exec is present
  group,           \* the live processes of the session
  detached,        \* live forks that left the session
  returncode,      \* of the leader: None while it runs, "exit" or "signal"
  overran,         \* timeout_error is set
  interrupted,     \* the wait was cut by another exception
  report,          \* the JUnit file, one of Reports
  outcome

vars == <<pc, available, group, detached, returncode, overran, interrupted, report, outcome>>

Leader == 0
ASSUME ForksAssumption ==
  /\ Leader \notin Forks
  /\ None \notin {"exit", "signal", "score", "OracleError", "raised", "zero_verdict"}

(* A file that is no XML is partial; unreadable is every file whose reading  *)
(* raises something else: bytes that are not UTF-8, a count that is not one. *)
Reports == {"none", "partial", "complete", "unreadable"}

confined == <<group, detached, returncode, report>>
runner == <<pc, available, overran, interrupted, outcome>>

-----------------------------------------------------------------------------
Init ==
  /\ pc = "check" /\ available \in BOOLEAN
  /\ group = {} /\ detached = {}
  /\ returncode = None /\ overran = FALSE /\ interrupted = FALSE
  /\ report = "none" /\ outcome = None

(* Fail closed: SandboxUnavailable. *)
Refuse ==
  /\ pc = "check" /\ ~available
  /\ pc' = "ended" /\ outcome' = "SandboxUnavailable"
  /\ UNCHANGED <<confined, available, overran, interrupted>>

Spawn ==
  /\ pc = "check" /\ available
  /\ group' = {Leader} /\ pc' = "wait"
  /\ UNCHANGED <<available, detached, returncode, overran, interrupted, report, outcome>>

(* communicate returns when the leader ends; its streams are files, so no    *)
(* fork can hold it by keeping them open.                                    *)
Completed ==
  /\ pc = "wait" /\ returncode # None
  /\ pc' = "teardown"
  /\ UNCHANGED <<confined, available, overran, interrupted, outcome>>

(* TimeoutExpired. *)
Overrun ==
  /\ pc = "wait" /\ returncode = None
  /\ overran' = TRUE /\ pc' = "teardown"
  /\ UNCHANGED <<confined, available, interrupted, outcome>>

(* Any other exception in the wait, a KeyboardInterrupt say. *)
Interrupt ==
  /\ pc = "wait" /\ returncode = None
  /\ interrupted' = TRUE /\ pc' = "teardown"
  /\ UNCHANGED <<confined, available, overran, outcome>>

(* The finally clause kills the group if its leader still runs. *)
TeardownDead ==
  /\ pc = "teardown" /\ returncode # None
  /\ pc' = "judge"
  /\ UNCHANGED <<confined, available, overran, interrupted, outcome>>

TeardownAlive ==
  /\ pc = "teardown" /\ returncode = None
  /\ pc' = "kill"
  /\ UNCHANGED <<confined, available, overran, interrupted, outcome>>

(* What is left of the leader once it was sent SIGKILL. *)
signalled == IF returncode = None THEN "signal" ELSE returncode

(* MUTANT: the leader is waited for without being killed. *)
Kill_waits ==
  /\ pc = "kill" /\ returncode # None
  /\ pc' = "judge"
  /\ UNCHANGED <<confined, available, overran, interrupted, outcome>>

(* _kill_session, its signal landing on the group, and the wait for the      *)
(* leader.                                                                   *)
Kill ==
  /\ pc = "kill"
  /\ group' = {} /\ returncode' = signalled
  /\ pc' = "judge"
  /\ UNCHANGED <<available, detached, overran, interrupted, report, outcome>>

(* The leader ended after the poll and the lookup by its pid may fail:       *)
(* ProcessLookupError is suppressed and no one is signalled.                 *)
KillMisses ==
  /\ pc = "kill" /\ returncode # None
  /\ pc' = "judge"
  /\ UNCHANGED <<confined, available, overran, interrupted, outcome>>

(* MUTANT: the return code is not read. *)
ending_unsigned == IF interrupted THEN "raised" ELSE IF overran THEN "killed" ELSE "completed"

(* How sandboxed_spawn leaves: the exception goes on, SandboxKilled, or it   *)
(* returns the tails.                                                        *)
ending ==
  IF interrupted THEN "raised"
  ELSE IF overran \/ returncode = "signal" THEN "killed"
  ELSE "completed"

(* TestRunner.run: a killed run scores zero, and a completed one without a   *)
(* report is a broken oracle.                                                *)
Judge ==
  /\ pc = "judge"
  /\ \/ ending = "raised" /\ outcome' = "raised" /\ pc' = "clean"
     \/ ending = "killed" /\ outcome' = "zero_verdict" /\ pc' = "clean"
     \/ ending = "completed" /\ report = "none" /\ outcome' = "OracleError" /\ pc' = "clean"
     \/ ending = "completed" /\ report # "none" /\ pc' = "read" /\ UNCHANGED outcome
  /\ UNCHANGED <<confined, available, overran, interrupted>>

(* The report was there.  Only ParseError is caught: a report that is gone   *)
(* again, or raises anything else, goes past OracleError.                    *)
ReadReport ==
  /\ pc = "read"
  /\ outcome' = IF report = "complete" THEN "score"
                ELSE IF report = "partial" THEN "OracleError" ELSE "raised"
  /\ pc' = "clean"
  /\ UNCHANGED <<confined, available, overran, interrupted>>

(* The temporary directory is removed on every way out.  A process that      *)
(* lives on may write into it meanwhile, and the removal raises.             *)
Clean ==
  /\ pc = "clean"
  /\ \/ UNCHANGED outcome
     \/ group \cup detached # {} /\ outcome' = "cleanup_error"
  /\ pc' = "ended"
  /\ UNCHANGED <<confined, available, overran, interrupted>>

-----------------------------------------------------------------------------
(* The confined processes, external. *)

(* The report lies in the directory every confined process may write:       *)
(* pytest writes it in more than one write, and its forks may write over it, *)
(* damage it or remove it.                                                   *)
WriteReport ==
  /\ group \cup detached # {}
  /\ report' \in Reports \ {report}
  /\ UNCHANGED <<runner, group, detached, returncode>>

(* pytest ends, or the code under test ends it: an exit, or a signal (the    *)
(* CPU cap, a fault).                                                        *)
LeaderEnds ==
  /\ Leader \in group
  /\ group' = group \ {Leader}
  /\ returncode' \in {"exit", "signal"}
  /\ UNCHANGED <<runner, detached, report>>

Fork ==
  /\ \E p \in Forks \ (group \cup detached) :
       \/ group # {} /\ group' = group \cup {p} /\ UNCHANGED detached
       \/ detached # {} /\ detached' = detached \cup {p} /\ UNCHANGED group
  /\ UNCHANGED <<runner, returncode, report>>

(* setsid. *)
Detach ==
  /\ \E p \in group \ {Leader} : group' = group \ {p} /\ detached' = detached \cup {p}
  /\ UNCHANGED <<runner, returncode, report>>

ForkEnds ==
  /\ \E p \in (group \cup detached) \ {Leader} :
       group' = group \ {p} /\ detached' = detached \ {p}
  /\ UNCHANGED <<runner, returncode, report>>

Run ==
  \/ Refuse \/ Spawn \/ Completed \/ Overrun \/ TeardownDead \/ TeardownAlive
  \/ Kill \/ KillMisses \/ Judge \/ ReadReport \/ Clean

Confined == WriteReport \/ LeaderEnds \/ Fork \/ Detach \/ ForkEnds

Ended == pc = "ended" /\ UNCHANGED vars

Next == Run \/ Interrupt \/ Confined \/ Ended

Spec == Init /\ [][Next]_vars

(* The runner takes its steps, the deadline included; neither the code under *)
(* test nor an interruption is promised.                                     *)
FairSpec == Spec /\ WF_vars(Run)

-----------------------------------------------------------------------------
(* Properties. *)

(* Exactly the runs the code under test did not survive score zero, whatever *)
(* the file says by then: a run that hung or died by a signal is never a     *)
(* broken oracle, never a score and never an error of reading its report,    *)
(* and one that ended by itself within its deadline is never a zero verdict  *)
(* (TestRunner.run, sandboxed_spawn).                                        *)
BlameIsFair ==
  LET died == overran \/ returncode = "signal" IN
  /\ outcome \in {"score", "OracleError"} => ~died /\ ~interrupted
  /\ outcome = "raised" => interrupted \/ ~died
  /\ outcome = "zero_verdict" => died /\ ~interrupted

(* Code that never terminates cannot hold the loop: every oracle run ends. *)
OracleEnds == <>(pc = "ended")

(* sandbox.py: the group is torn down "so no confined process is ever        *)
(* orphaned".                                                                *)
NoOrphan == pc = "ended" => group = {}
=============================================================================
