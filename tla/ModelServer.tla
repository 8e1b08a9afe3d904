----------------------------- MODULE ModelServer -----------------------------
(***************************************************************************)
(* The lifetime of a model server (model_server.py): ModelServer.running   *)
(* checks the port, spawns the server in a session of its own, polls it    *)
(* for readiness, lends it to a block, and tears the session down.         *)
(*                                                                         *)
(* The server itself (mlx_vlm) is external: its leader binds the port once *)
(* the weights are loaded, forks workers that inherit the socket, and may  *)
(* exit at any time.  The launches are consecutive uses of one port, as in *)
(* repeated benchmarks of one model: the registry gives each its own.      *)
(***************************************************************************)
EXTENDS Integers, FiniteSets

CONSTANTS
  Launches,        \* BOUND: how many times the port is used
  Workers,         \* the workers a server may fork
  Foreign,         \* a process this module does not own
  Intruders,       \* {Foreign}, or {} on a host where nothing else listens
  MaxPolls,        \* BOUND: polls within startup_timeout_s
  None

VARIABLES
  pc,              \* the point ModelServer.running has reached
  launch,          \* which use of the port this is
  alive,           \* the server processes that run, of every launch
  listening,       \* who holds the listening socket of the port
  told,            \* the processes that were sent SIGTERM
  late,            \* HISTORY: forked by a process that had been told, or by one of these
  polls,
  answered,        \* who answered the readiness probe of this launch
  early,           \* HISTORY: the teardown missed a dead leader's group and told nobody
  outcome          \* how running ended: None while it has not

vars == <<pc, launch, alive, listening, told, late, polls, answered, early, outcome>>

Leader == 0
Members == {Leader} \cup Workers
Group(n) == {n} \X Members
Processes == (1..Launches) \X Members
leader == <<launch, Leader>>

ASSUME ServerAssumption ==
  /\ Launches \in Nat \ {0} /\ MaxPolls \in Nat \ {0}
  /\ Leader \notin Workers
  /\ Intruders \subseteq {Foreign}
  /\ Foreign \notin Processes /\ None \notin Processes /\ None # Foreign

controller == <<pc, launch, polls, answered, early, outcome>>

-----------------------------------------------------------------------------
Init ==
  /\ pc = "check" /\ launch = 1
  /\ alive = {} /\ listening = {} /\ told = {} /\ late = {}
  /\ polls = 0 /\ answered = None /\ early = FALSE /\ outcome = None

(* _is_port_bound: something accepts connections already. *)
PortTaken ==
  /\ pc = "check" /\ listening # {}
  /\ pc' = "done" /\ outcome' = "PortUnavailable"
  /\ UNCHANGED <<launch, alive, listening, told, late, polls, answered, early>>

(* MUTANT: the port is not checked. *)
PortFree_unchecked ==
  /\ pc = "check"
  /\ pc' = "spawn"
  /\ UNCHANGED <<launch, alive, listening, told, late, polls, answered, early, outcome>>

PortFree ==
  /\ pc = "check" /\ listening = {}
  /\ pc' = "spawn"
  /\ UNCHANGED <<launch, alive, listening, told, late, polls, answered, early, outcome>>

(* Popen(start_new_session=True). *)
Spawn ==
  /\ pc = "spawn"
  /\ alive' = alive \cup {leader}
  /\ pc' = "poll"
  /\ UNCHANGED <<launch, listening, told, late, polls, answered, early, outcome>>

(* _await_readiness asks the process before it asks the port. *)
PollDead ==
  /\ pc = "poll" /\ leader \notin alive
  /\ pc' = "terminate" /\ outcome' = "ServerExited"
  /\ UNCHANGED <<launch, alive, listening, told, late, polls, answered, early>>

PollAlive ==
  /\ pc = "poll" /\ leader \in alive
  /\ pc' = "probe" /\ polls' = polls + 1
  /\ UNCHANGED <<launch, alive, listening, told, late, answered, early, outcome>>

(* A 200 from whoever holds the port yields the handle. *)
ProbeAnswers ==
  /\ pc = "probe"
  /\ \E p \in listening : answered' = p
  /\ pc' = "body"
  /\ UNCHANGED <<launch, alive, listening, told, late, polls, early, outcome>>

(* MUTANT: one poll too many. *)
ProbeFails_off_by_one ==
  /\ pc = "probe"
  /\ IF polls <= MaxPolls THEN pc' = "poll" /\ UNCHANGED outcome
                          ELSE pc' = "terminate" /\ outcome' = "ServerNotReady"
  /\ UNCHANGED <<launch, alive, listening, told, late, polls, answered, early>>

(* Refused, or no 200 in time: ask again until the budget is spent. *)
ProbeFails ==
  /\ pc = "probe"
  /\ IF polls < MaxPolls THEN pc' = "poll" /\ UNCHANGED outcome
                         ELSE pc' = "terminate" /\ outcome' = "ServerNotReady"
  /\ UNCHANGED <<launch, alive, listening, told, late, polls, answered, early>>

(* MUTANT: the teardown runs only when the block ends well. *)
BodyEnds_no_finally ==
  /\ pc = "body"
  /\ \/ pc' = "terminate" /\ outcome' = "ok"
     \/ pc' = "done" /\ outcome' = "raised"
  /\ UNCHANGED <<launch, alive, listening, told, late, polls, answered, early>>

(* The with block ends, by itself or with an exception. *)
BodyEnds ==
  /\ pc = "body"
  /\ pc' = "terminate" /\ outcome' \in {"ok", "raised"}
  /\ UNCHANGED <<launch, alive, listening, told, late, polls, answered, early>>

(* _terminate_session: a leader that is already dead ends the teardown. *)
TerminateDead ==
  /\ pc = "terminate" /\ leader \notin alive
  /\ early' = TRUE /\ pc' = "done"
  /\ UNCHANGED <<launch, alive, listening, told, late, polls, answered, outcome>>

TerminateAlive ==
  /\ pc = "terminate" /\ leader \in alive
  /\ pc' = "signal"
  /\ UNCHANGED <<launch, alive, listening, told, late, polls, answered, early, outcome>>

(* MUTANT: only the leader is signalled. *)
Signal_leader_only ==
  /\ pc = "signal"
  /\ told' = told \cup (alive \cap {leader})
  /\ pc' = "grace"
  /\ UNCHANGED <<launch, alive, listening, late, polls, answered, early, outcome>>

(* SIGTERM to the whole group, found through its leader, dead or alive.      *)
Signal ==
  /\ pc = "signal"
  /\ told' = told \cup (alive \cap Group(launch))
  /\ pc' = "grace"
  /\ UNCHANGED <<launch, alive, listening, late, polls, answered, early, outcome>>

(* The leader died since the poll and getpgid does not find it: the          *)
(* ProcessLookupError is suppressed and nobody is told.                      *)
SignalMisses ==
  /\ pc = "signal" /\ leader \notin alive
  /\ early' = TRUE /\ pc' = "grace"
  /\ UNCHANGED <<launch, alive, listening, told, late, polls, answered, outcome>>

(* process.wait returns as soon as the leader is gone. *)
LeaderReaped ==
  /\ pc = "grace" /\ leader \notin alive
  /\ pc' = "done"
  /\ UNCHANGED <<launch, alive, listening, told, late, polls, answered, early, outcome>>

(* process.wait gives up on a leader that lingers. *)
GraceExpires ==
  /\ pc = "grace" /\ leader \in alive
  /\ pc' = "kill"
  /\ UNCHANGED <<launch, alive, listening, told, late, polls, answered, early, outcome>>

(* MUTANT: the server is asked a second time instead of being killed. *)
Kill_asks_again ==
  /\ pc = "kill"
  /\ pc' = "grace"
  /\ UNCHANGED <<launch, alive, listening, told, late, polls, answered, early, outcome>>

(* SIGKILL to the whole group, and wait for the leader. *)
Kill ==
  /\ pc = "kill"
  /\ alive' = alive \ Group(launch)
  /\ listening' = listening \ Group(launch)
  /\ told' = told \ Group(launch)
  /\ late' = late \ Group(launch)
  /\ pc' = "done"
  /\ UNCHANGED <<launch, polls, answered, early, outcome>>

(* The leader died since the grace ran out and is not found: suppressed, and *)
(* nobody is killed.                                                         *)
KillMisses ==
  /\ pc = "kill" /\ leader \notin alive
  /\ pc' = "done"
  /\ UNCHANGED <<launch, alive, listening, told, late, polls, answered, early, outcome>>

(* The caller serves the next model on the same port. *)
Relaunch ==
  /\ pc = "done" /\ launch < Launches
  /\ launch' = launch + 1 /\ pc' = "check"
  /\ polls' = 0 /\ answered' = None /\ early' = FALSE /\ outcome' = None
  /\ UNCHANGED <<alive, listening, told, late>>

-----------------------------------------------------------------------------
(* The server, external. *)

(* The weights are loaded: the leader binds the port if it can. *)
LeaderBinds ==
  /\ leader \in alive /\ listening = {}
  /\ listening' = {leader}
  /\ UNCHANGED <<controller, alive, told, late>>

(* A server process forks a worker, which inherits the socket.  Nothing      *)
(* stops one that catches SIGTERM from forking after it was told.            *)
Forks ==
  /\ \E p \in alive, w \in Workers :
       LET child == <<p[1], w>>
       IN  /\ child \notin alive
           /\ alive' = alive \cup {child}
           /\ listening' = listening \cup (IF p \in listening THEN {child} ELSE {})
           /\ late' = late \cup (IF p \in told \cup late THEN {child} ELSE {})
  /\ UNCHANGED <<controller, told>>

(* A crash, a failed bind, an out-of-memory kill, or a SIGTERM obeyed. *)
ProcessExits ==
  /\ \E p \in alive : /\ alive' = alive \ {p}
                      /\ listening' = listening \ {p}
                      /\ told' = told \ {p}
                      /\ late' = late \ {p}
  /\ UNCHANGED controller

(* Another program takes the port, or gives it back. *)
IntruderBinds ==
  /\ listening = {} /\ Intruders # {}
  /\ listening' = {Foreign}
  /\ UNCHANGED <<controller, alive, told, late>>

IntruderLeaves ==
  /\ Foreign \in listening
  /\ listening' = listening \ {Foreign}
  /\ UNCHANGED <<controller, alive, told, late>>

Ended == pc = "done" /\ launch = Launches /\ UNCHANGED vars

(* The steps of running outside the block it lends the server to. *)
Controlling ==
  \/ PortTaken \/ PortFree \/ Spawn \/ PollDead \/ PollAlive \/ ProbeAnswers \/ ProbeFails
  \/ TerminateDead \/ TerminateAlive \/ Signal \/ SignalMisses \/ LeaderReaped
  \/ GraceExpires \/ Kill \/ KillMisses \/ Relaunch

Running == Controlling \/ BodyEnds

Server == LeaderBinds \/ Forks \/ ProcessExits

Next == Running \/ Server \/ IntruderBinds \/ IntruderLeaves \/ Ended

Spec == Init /\ [][Next]_vars

-----------------------------------------------------------------------------
(* Properties. *)

(* The state is well typed: only live processes listen or are told. *)
TypeOK ==
  /\ pc \in {"check", "spawn", "poll", "probe", "body", "terminate", "signal", "grace",
            "kill", "done"}
  /\ launch \in 1..Launches
  /\ alive \subseteq Processes
  /\ listening \subseteq alive \cup {Foreign}
  /\ told \subseteq alive /\ late \subseteq alive
  /\ polls \in 0..MaxPolls
  /\ answered \in Processes \cup {Foreign, None}
  /\ early \in BOOLEAN
  /\ outcome \in {"PortUnavailable", "ServerExited", "ServerNotReady", "ok", "raised", None}

Survivors == alive \cap Group(launch)

(* However the block ends (normally, by an exception, by a readiness timeout *)
(* or a death in startup), the spawned server's leader does not outlive it.  *)
LeaderIsGone == pc = "done" => leader \notin alive

(* Unless the teardown lost the group with its leader (it was dead when      *)
(* polled, or when its group was looked up), no process of the server is     *)
(* forgotten: whatever outlives the block was sent SIGTERM, or was forked by *)
(* a process that had been (_terminate_session).                             *)
SurvivorsWereTold == (pc = "done" /\ ~early) => Survivors \subseteq told \cup late

(* The handle is answered by the server just spawned or, if another program  *)
(* took the port after the check, by that program; never by a worker that an *)
(* earlier launch left behind on the port (running, _is_port_bound).         *)
HandleIsFresh == answered # None => answered \in Group(launch) \cup Intruders

(* Every launch is torn down and every launch gets its turn. *)
AllLaunchesEnd == <>(pc = "done" /\ launch = Launches)
=============================================================================
