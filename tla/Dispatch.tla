------------------------------ MODULE Dispatch ------------------------------
(***************************************************************************)
(* One task from its envelope to its exit code: the machine CLI (cli.py),  *)
(* the composition root implement() (entrypoint.py), the loop it runs      *)
(* (module Loop), the economy record (telemetry.py) and the orchestrator   *)
(* that spawned the CLI and may admit its worktree.                        *)
(*                                                                         *)
(* The orchestrator is external: cli.py says that it reads the exit code   *)
(* and the filesystem delta, and nothing else.                             *)
(***************************************************************************)
EXTENDS Loop

CONSTANT
  ReadText       \* a file's bytes -> its text, with universal newlines

ASSUME ReadTextAssumption == DOMAIN ReadText = Files /\ \A f \in Files : ReadText[f] # None

VARIABLES
  caller,        \* "cli", or "library" for a direct call of implement
  owns_client,   \* no http_client was injected
  managed,       \* no worktree was supplied: a temp directory is used
  record_dir,    \* --record-dir: off, kept, inside (the worktree) or unwritable
  stage,         \* envelope, implement, loop, report, exited
  http,          \* the HTTP client: none, open or closed
  code,          \* Outcome.code, or None
  exit,          \* the exit code of the CLI, or None
  admitted       \* what the orchestrator copied back, or None

dispatch == <<caller, owns_client, managed, record_dir, stage, http, code, exit, admitted>>
dispatch_vars == <<vars, dispatch>>

EXIT_TRACEBACK == 1
EXIT_REJECTED_TASK == 7
EXIT_HARNESS_FAULT == 8

(* MUTANT: a partial best is reported like success. *)
exit_code_for_lenient(status) ==
  [done |-> 0, exhausted |-> 0, derailed |-> 4, blocked |-> 5, faulted |-> 6][status]

exit_code_for(status) ==
  [done |-> 0, exhausted |-> 3, derailed |-> 4, blocked |-> 5, faulted |-> 6][status]

(* Only the CLI turns an ending into an exit code. *)
exit_with(n) == exit' = IF caller = "cli" THEN n ELSE None

-----------------------------------------------------------------------------
DispatchInit ==
  /\ Init
  /\ caller \in {"cli", "library"}
  /\ owns_client \in BOOLEAN /\ managed \in BOOLEAN
  /\ caller = "cli" => owns_client /\ ~managed
  /\ record_dir \in (IF caller = "cli" THEN {"off", "kept", "inside", "unwritable"} ELSE {"off"})
  /\ managed => file = None
  /\ stage = (IF caller = "cli" THEN "envelope" ELSE "implement")
  /\ http = (IF owns_client THEN "none" ELSE "open")
  /\ code = None /\ exit = None /\ admitted = None

(* _read_envelope, _task_from_json and the server settings: TaskRejected. *)
RejectEnvelope ==
  /\ stage = "envelope"
  /\ exit_with(EXIT_REJECTED_TASK) /\ stage' = "exited"
  /\ UNCHANGED <<vars, caller, owns_client, managed, record_dir, http, code, admitted>>

AcceptEnvelope ==
  /\ stage = "envelope"
  /\ stage' = "implement"
  /\ UNCHANGED <<vars, caller, owns_client, managed, record_dir, http, code, exit, admitted>>

(* _writable_subtree refuses the shape of impl_path before anything is built. *)
RefuseShape ==
  /\ stage = "implement"
  /\ exit_with(EXIT_REJECTED_TASK) /\ stage' = "exited"
  /\ UNCHANGED <<vars, caller, owns_client, managed, record_dir, http, code, admitted>>

closed == IF owns_client THEN "closed" ELSE http

(* SnapshotStore refuses an impl_path that escapes the worktree; the finally *)
(* clause closes the client that was just made.                              *)
RefuseEscape ==
  /\ stage = "implement"
  /\ http' = closed
  /\ exit_with(EXIT_REJECTED_TASK) /\ stage' = "exited"
  /\ UNCHANGED <<vars, caller, owns_client, managed, record_dir, code, admitted>>

Wire ==
  /\ stage = "implement"
  /\ http' = "open" /\ stage' = "loop"
  /\ UNCHANGED <<vars, caller, owns_client, managed, record_dir, code, exit, admitted>>

(* loop.run. *)
RunLoop ==
  /\ stage = "loop" /\ pc \notin {"returned", "raised"}
  /\ Next
  /\ UNCHANGED dispatch

(* The managed worktree goes with its context manager. *)
scratch_removed == file' = IF managed THEN None ELSE file
LoopVarsButFile ==
  <<pc, plan_first, entries, total_calls, results, last_attempt, nudge, reframe, stalls,
    best_passed, misses, tail, nudged, progress, outcome>>

(* MUTANT: whatever is at impl_path is read back. *)
ReadBack_unscored ==
  /\ stage = "loop" /\ pc = "returned"
  /\ code' = IF file \in Files THEN ReadText[file] ELSE file
  /\ scratch_removed
  /\ http' = closed /\ stage' = "report"
  /\ UNCHANGED <<LoopVarsButFile, caller, owns_client, managed, record_dir, exit, admitted>>

(* implement reads the restored file back as text, if the loop scored any edit. *)
ReadBack ==
  /\ stage = "loop" /\ pc = "returned"
  /\ code' = IF outcome.best_score # None THEN ReadText[file] ELSE None
  /\ scratch_removed
  /\ http' = closed /\ stage' = "report"
  /\ UNCHANGED <<LoopVarsButFile, caller, owns_client, managed, record_dir, exit, admitted>>

(* MUTANT: the client is closed on the way out of a good run only. *)
Fault_leaks_client ==
  /\ stage = "loop" /\ pc = "raised"
  /\ scratch_removed
  /\ exit_with(EXIT_HARNESS_FAULT) /\ stage' = "exited"
  /\ UNCHANGED <<LoopVarsButFile, caller, owns_client, managed, record_dir, http, code, admitted>>

(* BackendUnavailable, SandboxUnavailable or OracleError. *)
Fault ==
  /\ stage = "loop" /\ pc = "raised"
  /\ scratch_removed
  /\ http' = closed
  /\ exit_with(EXIT_HARNESS_FAULT) /\ stage' = "exited"
  /\ UNCHANGED <<LoopVarsButFile, caller, owns_client, managed, record_dir, code, admitted>>

(* A ValueError of the loop is taken for a refusal of impl_path, whatever it *)
(* came from, a report that is not UTF-8 or a reply that does not encode     *)
(* when it is quoted back, and whatever was written before it.               *)
RefuseLate ==
  /\ stage = "loop" /\ pc = "raised"
  /\ scratch_removed
  /\ http' = closed
  /\ exit_with(EXIT_REJECTED_TASK) /\ stage' = "exited"
  /\ UNCHANGED <<LoopVarsButFile, caller, owns_client, managed, record_dir, code, admitted>>

(* Anything else the loop raises is a traceback. *)
Traceback ==
  /\ stage = "loop" /\ pc = "raised"
  /\ scratch_removed
  /\ http' = closed
  /\ exit_with(EXIT_TRACEBACK) /\ stage' = "exited"
  /\ UNCHANGED <<LoopVarsButFile, caller, owns_client, managed, record_dir, code, admitted>>

(* The record is written if one was asked for; a refused directory costs the *)
(* record and nothing else.                                                  *)
Report_and_exit ==
  /\ stage = "report"
  /\ exit_with(exit_code_for(outcome.status)) /\ stage' = "exited"
  /\ UNCHANGED <<vars, caller, owns_client, managed, record_dir, http, code, admitted>>

(* EXTERNAL: the orchestrator admits the delta of a zero exit, and discards  *)
(* one that holds a path nobody declared.                                    *)
Admit ==
  /\ stage = "exited" /\ exit = 0 /\ admitted = None /\ record_dir # "inside"
  /\ admitted' = file
  /\ UNCHANGED <<vars, caller, owns_client, managed, record_dir, stage, http, code, exit>>

Over == stage = "exited" /\ UNCHANGED dispatch_vars

DispatchNext ==
  \/ RejectEnvelope \/ AcceptEnvelope \/ RefuseShape \/ RefuseEscape \/ Wire
  \/ RunLoop \/ ReadBack \/ Fault \/ RefuseLate \/ Traceback
  \/ Report_and_exit \/ Admit \/ Over

DispatchSpec == DispatchInit /\ [][DispatchNext]_dispatch_vars

-----------------------------------------------------------------------------
(* Properties. *)

(* Code reaches a real working tree only if the oracle passed it in this     *)
(* run: what is admitted is a file scored green, and the code the outcome    *)
(* carries (cli.exit_code_for, implement).                                   *)
AdmittedIsGreen ==
  admitted # None => (\E e \in Greens : e.file = admitted) /\ code = ReadText[admitted]

(* The outcome's code is the best scored edit, never a file the caller had   *)
(* seeded and never an edit that no oracle run judged (Outcome.code).        *)
CodeIsScored ==
  stage = "report" =>
    /\ code # None <=> entries # <<>>
    /\ code # None => \E e \in Recorded(entries) : ReadText[e.file] = code

(* The HTTP client that implement made is closed on every way out, a refusal *)
(* or a harness fault included, and an injected one never is.                *)
ClientIsReleased ==
  stage \in {"report", "exited"} =>
    http \in (IF owns_client THEN {"none", "closed"} ELSE {"open"})

(* An exit code that names an ending of the loop, exhausted, derailed,       *)
(* blocked or faulted as well as done, is only given over a worktree that    *)
(* holds the best of the run, and the code of the outcome.  Code that no     *)
(* oracle judged, or that is not the best, is only left by a run that raised,*)
(* and 7 then says rejected task although the worktree was written.          *)
WorktreeIsSettled ==
  (stage = "exited" /\ exit \in {exit_code_for(status) : status \in Statuses})
    => \/ entries = <<>> /\ file \in {None, Seed} /\ code = None
       \/ entries # <<>> /\ file = best(entries).file /\ code = ReadText[file]
=============================================================================
