--------------------------- MODULE SessionProofs ---------------------------
(***************************************************************************)
(* Proofs about ModelServer, for any number of launches and workers, and   *)
(* about the session that runs inside its block: a session implements      *)
(* ModelServer.running, so the theorems about ModelServer hold under it,   *)
(* and its own traffic stays inside.                                       *)
(***************************************************************************)
EXTENDS Session, TLAPS

-----------------------------------------------------------------------------
(* ModelServer.running. *)

(* No process exists before its launch was spawned. *)
Unborn ==
  /\ \A p \in alive : p[1] <= launch
  /\ pc \in {"check", "spawn"} => Survivors = {}

(* There is a poll left while the loop goes round. *)
PollsLeft ==
  /\ pc \in {"check", "spawn"} => polls = 0
  /\ pc = "poll" => polls < MaxPolls

(* Once the port was seen free, no earlier launch can hold it. *)
PortIsOurs ==
  /\ Foreign \in listening => Intruders = {Foreign}
  /\ pc \notin {"check", "done"} => listening \subseteq Group(launch) \cup {Foreign}
  /\ HandleIsFresh

(* After SIGTERM every process of the launch that is left was told, or was   *)
(* forked by one that had been.                                              *)
AllTold == (pc \in {"grace", "kill"} /\ ~early) => Survivors \subseteq told \cup late

IInv == TypeOK /\ Unborn /\ PollsLeft /\ PortIsOurs /\ AllTold /\ LeaderIsGone /\ SurvivorsWereTold

(* A process belongs to the launch it names. *)
LEMMA GroupMembers ==
  ASSUME NEW n \in 1..Launches
  PROVE  /\ <<n, Leader>> \in Group(n) /\ <<n, Leader>> \in Processes
         /\ \A w \in Workers : <<n, w>> \in Group(n) /\ <<n, w>> \in Processes
         /\ \A p \in Processes : p \in Group(n) <=> p[1] = n
         /\ Foreign \notin Group(n) /\ None \notin Group(n)
         /\ Group(n) \subseteq Processes
  BY ServerAssumption DEF Group, Processes, Members

(* The invariant holds before the first launch. *)
LEMMA InitIInv == Init => IInv
<1> SUFFICES ASSUME Init PROVE IInv
  OBVIOUS
<1> USE ServerAssumption DEF Init
<1>0. early \in BOOLEAN BY Zenon
<1>1. TypeOK BY <1>0 DEF TypeOK
<1>2. Unborn /\ PollsLeft BY DEF Unborn, Survivors, PollsLeft
<1>3. PortIsOurs BY DEF PortIsOurs, HandleIsFresh
<1>4. QED BY <1>1, <1>2, <1>3 DEF IInv, AllTold, LeaderIsGone, SurvivorsWereTold

(* The steps of running that only move its own point of control. *)
LEMMA ControlSteps ==
  ASSUME IInv, \/ PortTaken \/ PortFree \/ PollDead \/ PollAlive \/ ProbeAnswers \/ ProbeFails
               \/ BodyEnds \/ TerminateDead \/ TerminateAlive \/ SignalMisses \/ LeaderReaped
               \/ GraceExpires \/ KillMisses
  PROVE  IInv'
<1> USE ServerAssumption
<1> USE DEF PortTaken, PortFree, PollDead, PollAlive, ProbeAnswers, ProbeFails, BodyEnds,
            TerminateDead, TerminateAlive, SignalMisses, LeaderReaped, GraceExpires,
            KillMisses, leader, Survivors
<1>0. launch \in 1..Launches BY DEF IInv, TypeOK
<1>1. TypeOK'
  <2>1. early' \in BOOLEAN BY Zenon DEF IInv, TypeOK
  <2>2. polls' \in 0..MaxPolls BY DEF IInv, TypeOK, PollsLeft
  <2>3. QED BY <2>1, <2>2 DEF IInv, TypeOK
<1>2. Unborn' /\ PollsLeft' BY DEF IInv, TypeOK, Unborn, PollsLeft
<1>3. PortIsOurs' BY <1>0, GroupMembers DEF IInv, TypeOK, PortIsOurs, HandleIsFresh
<1>4. AllTold' BY DEF IInv, AllTold
<1>5. LeaderIsGone' BY <1>0, GroupMembers DEF IInv, Unborn, LeaderIsGone
<1>6. SurvivorsWereTold' BY DEF IInv, Unborn, AllTold, SurvivorsWereTold
<1>7. QED BY <1>1, <1>2, <1>3, <1>4, <1>5, <1>6 DEF IInv

(* The steps of running that create, signal or kill processes. *)
LEMMA ProcessSteps ==
  ASSUME IInv, Spawn \/ Signal \/ Kill
  PROVE  IInv'
<1> USE ServerAssumption
<1> USE DEF Spawn, Signal, Kill, leader, Survivors
<1>0. launch \in 1..Launches BY DEF IInv, TypeOK
<1>1. TypeOK' BY <1>0, GroupMembers DEF IInv, TypeOK
<1>2. Unborn' /\ PollsLeft' BY DEF IInv, TypeOK, Unborn, PollsLeft
<1>3. PortIsOurs' BY DEF IInv, PortIsOurs, HandleIsFresh
<1>4. AllTold' BY DEF IInv, AllTold
<1>5. LeaderIsGone' BY <1>0, GroupMembers DEF IInv, LeaderIsGone
<1>6. SurvivorsWereTold' BY DEF IInv, SurvivorsWereTold
<1>7. QED BY <1>1, <1>2, <1>3, <1>4, <1>5, <1>6 DEF IInv

(* The next launch starts with no process of its own. *)
LEMMA RelaunchStep ==
  ASSUME IInv, Relaunch
  PROVE  IInv'
<1> USE ServerAssumption
<1> USE DEF Relaunch, leader, Survivors
<1>0. launch \in 1..Launches /\ launch + 1 \in 1..Launches /\ alive \subseteq Processes
  BY DEF IInv, TypeOK
<1>1. TypeOK'
  <2>1. early' \in BOOLEAN BY Zenon
  <2>2. QED BY <1>0, <2>1 DEF IInv, TypeOK
<1>2. Unborn' /\ PollsLeft'
  <2>1. \A p \in alive : p[1] \in Int /\ p[1] <= launch
    BY <1>0 DEF IInv, Unborn, Processes
  <2>2. \A p \in Processes : p \in Group(launch + 1) <=> p[1] = launch + 1
    BY <1>0, GroupMembers
  <2>3. alive \cap Group(launch + 1) = {}
    BY <1>0, <2>1, <2>2
  <2>4. QED BY <1>0, <2>1, <2>3 DEF Unborn, PollsLeft
<1>3. PortIsOurs' BY DEF IInv, PortIsOurs, HandleIsFresh
<1>4. QED BY <1>1, <1>2, <1>3 DEF IInv, AllTold, LeaderIsGone, SurvivorsWereTold

(* The server's own steps. *)
LEMMA ServerSteps ==
  ASSUME IInv, LeaderBinds \/ Forks \/ ProcessExits \/ IntruderBinds \/ IntruderLeaves
  PROVE  IInv'
<1> USE ServerAssumption
<1> USE DEF leader, Survivors, controller
<1>0. launch \in 1..Launches /\ alive \subseteq Processes BY DEF IInv, TypeOK
<1>1. CASE LeaderBinds
  <2> USE <1>1 DEF LeaderBinds
  <2>1. PortIsOurs' BY <1>0, GroupMembers DEF IInv, PortIsOurs, HandleIsFresh
  <2>2. QED
    BY <2>1 DEF IInv, TypeOK, Unborn, PollsLeft, AllTold, LeaderIsGone, SurvivorsWereTold
<1>2. CASE Forks
  <2>0. PICK p \in alive, w \in Workers :
          LET child == <<p[1], w>>
          IN  /\ alive' = alive \cup {child}
              /\ listening' = listening \cup (IF p \in listening THEN {child} ELSE {})
              /\ late' = late \cup (IF p \in told \cup late THEN {child} ELSE {})
    BY <1>2 DEF Forks
  <2> DEFINE child == <<p[1], w>>
  <2>1. /\ alive' = alive \cup {child}
        /\ listening' = listening \cup (IF p \in listening THEN {child} ELSE {})
        /\ late' = late \cup (IF p \in told \cup late THEN {child} ELSE {})
    BY <2>0
  <2>2. UNCHANGED <<controller, told>> BY <1>2 DEF Forks
  <2>3. p[1] \in 1..Launches /\ p[1] <= launch /\ p \in Processes
    BY <1>0 DEF IInv, Unborn, Processes
  <2>4. child \in Processes /\ child # leader /\ child[1] = p[1]
    BY <1>0, <2>3, GroupMembers
  <2> HIDE DEF child
  <2>5. child \in Group(launch) <=> p \in Group(launch)
    BY <1>0, <2>3, <2>4, GroupMembers
  <2>6. TypeOK' BY <2>1, <2>2, <2>4 DEF IInv, TypeOK
  <2>7. Unborn' BY <2>1, <2>2, <2>3, <2>4, <2>5 DEF IInv, Unborn
  <2>8. PortIsOurs'
    <3>1. p # Foreign /\ child # Foreign BY <2>3, <2>4
    <3>2. QED BY <2>1, <2>2, <2>5, <3>1 DEF IInv, PortIsOurs, HandleIsFresh
  <2>9. AllTold' /\ SurvivorsWereTold'
    BY <2>1, <2>2, <2>5 DEF IInv, AllTold, SurvivorsWereTold
  <2>10. LeaderIsGone' BY <2>1, <2>2, <2>4 DEF IInv, LeaderIsGone
  <2>11. QED BY <2>2, <2>6, <2>7, <2>8, <2>9, <2>10 DEF IInv, PollsLeft
<1>3. CASE ProcessExits
  <2> USE <1>3 DEF ProcessExits
  <2>1. TypeOK' BY DEF IInv, TypeOK
  <2>2. Unborn' BY DEF IInv, Unborn
  <2>3. PortIsOurs' BY DEF IInv, PortIsOurs, HandleIsFresh
  <2>4. QED
    BY <2>1, <2>2, <2>3 DEF IInv, PollsLeft, AllTold, LeaderIsGone, SurvivorsWereTold
<1>4. CASE IntruderBinds \/ IntruderLeaves
  <2> USE <1>4 DEF IntruderBinds, IntruderLeaves
  <2>1. PortIsOurs' BY DEF IInv, PortIsOurs, HandleIsFresh
  <2>2. QED
    BY <2>1 DEF IInv, TypeOK, Unborn, PollsLeft, AllTold, LeaderIsGone, SurvivorsWereTold
<1>5. QED BY <1>1, <1>2, <1>3, <1>4

-----------------------------------------------------------------------------
(* The inductive invariant of ModelServer.running over all its launches. *)
THEOREM Inductive == Spec => []IInv
<1>1. IInv /\ [Next]_vars => IInv'
  <2> SUFFICES ASSUME IInv, [Next]_vars PROVE IInv'
    OBVIOUS
  <2>1. CASE UNCHANGED vars
    BY <2>1 DEF vars, IInv, TypeOK, Unborn, PollsLeft, PortIsOurs, AllTold, LeaderIsGone, SurvivorsWereTold,
                HandleIsFresh, Survivors, leader
  <2>2. CASE Next
    BY <2>1, <2>2, ControlSteps, ProcessSteps, RelaunchStep, ServerSteps
    DEF Next, Running, Controlling, Server, Ended
  <2>3. QED BY <2>1, <2>2
<1>2. QED BY InitIInv, <1>1, PTL DEF Spec

(* The state of running stays well typed. *)
THEOREM TypeCorrect == Spec => []TypeOK
<1>1. IInv => TypeOK BY DEF IInv
<1>2. QED BY Inductive, <1>1, PTL

(* No leader outlives its block, whatever ended it. *)
THEOREM LeaderNeverSurvives == Spec => []LeaderIsGone
<1>1. IInv => LeaderIsGone BY DEF IInv
<1>2. QED BY Inductive, <1>1, PTL

(* A teardown that does not lose the group with its leader forgets no        *)
(* process, whatever the server forks meanwhile.                             *)
THEOREM NoneForgotten == Spec => []SurvivorsWereTold
<1>1. IInv => SurvivorsWereTold BY DEF IInv
<1>2. QED BY Inductive, <1>1, PTL

(* No launch is handed a server that an earlier launch left on the port; on  *)
(* a host where nothing else listens, the handle is the spawned server's.    *)
THEOREM HandleNeverStale == Spec => []HandleIsFresh
<1>1. IInv => HandleIsFresh BY DEF IInv, PortIsOurs
<1>2. QED BY Inductive, <1>1, PTL

-----------------------------------------------------------------------------
(* The session. *)


(* What a session knows at each of its points. *)
SessionInv ==
  /\ http = "open" <=> step = "talk"
  /\ step = "talk" => pc = "body" /\ served # None
  /\ step = "left" => pc \notin {"check", "spawn", "poll", "probe"}
  /\ spoke \subseteq Group(launch) \cup Intruders
  /\ pc \in {"check", "spawn", "poll", "probe"} => step = "ask"

(* Whoever holds the port inside the block is ours or an intruder. *)
LEMMA ListenersInBody ==
  ASSUME IInv, pc = "body"
  PROVE  listening \subseteq Group(launch) \cup Intruders /\ None \notin listening
<1>1. launch \in 1..Launches BY DEF IInv, TypeOK
<1>2. listening \subseteq Group(launch) \cup {Foreign} BY DEF IInv, PortIsOurs
<1>3. Foreign \in listening => Foreign \in Intruders BY DEF IInv, PortIsOurs
<1>4. None \notin Group(launch) /\ None # Foreign BY <1>1, GroupMembers, ServerAssumption
<1>5. QED BY <1>2, <1>3, <1>4

(* Every step of a session is a step of ModelServer, or none. *)
LEMMA SessionStep == SessionNext => [Next]_vars
<1> SUFFICES ASSUME SessionNext PROVE [Next]_vars
  OBVIOUS
<1>1. CASE Around
  BY <1>1 DEF Around, Next, Running
<1>2. CASE AskRefused \/ GiveBack
  BY <1>2 DEF AskRefused, GiveBack, Next, Running
<1>3. CASE AskAnswered \/ TurnReturns \/ TurnRaises \/ LeaveBlock
  BY <1>3 DEF AskAnswered, TurnReturns, TurnRaises, LeaveBlock
<1>4. CASE World
  BY <1>4 DEF World, Next
<1>5. QED BY <1>1, <1>2, <1>3, <1>4 DEF SessionNext, Talking

(* The server's own inductive invariant holds under a session, which takes   *)
(* no step of the server's but those of running.                             *)
THEOREM ServerInvariant == SessionSpec => []IInv
<1>1. SessionInit => Init BY DEF SessionInit
<1>2. [SessionNext]_session_vars => [Next]_vars
  BY SessionStep DEF session_vars
<1>3. QED BY <1>1, <1>2, Inductive, PTL DEF SessionSpec, Spec

(* A session's client and its partners stay inside its own server. *)
THEOREM TrafficInside == SessionSpec => []TrafficStaysInside
<1>1. SessionInit => SessionInv
  BY DEF SessionInit, Init, SessionInv
<1>2. IInv /\ SessionInv /\ [SessionNext]_session_vars => SessionInv'
  <2> SUFFICES ASSUME IInv, SessionInv, [SessionNext]_session_vars PROVE SessionInv'
    OBVIOUS
  <2>1. CASE UNCHANGED session_vars
    BY <2>1 DEF session_vars, session, vars, SessionInv, Group
  <2>2. CASE Around
    <3>1. CASE pc = "done"
      BY <2>2, <3>1 DEF Around, SessionInv, Group
    <3>2. CASE pc # "done"
      <4>1. UNCHANGED session /\ Controlling BY <2>2, <3>2 DEF Around
      <4>2. UNCHANGED launch /\ pc # "body"
        BY <4>1, <3>2 DEF Controlling, PortTaken, PortFree, Spawn, PollDead, PollAlive, ProbeAnswers,
              ProbeFails, TerminateDead, TerminateAlive, Signal, SignalMisses, LeaderReaped, GraceExpires, Kill, KillMisses, Relaunch
      <4>3. pc' \in {"check", "spawn", "poll", "probe"} => pc \in {"check", "spawn", "poll", "probe"}
        BY <4>1, <3>2 DEF Controlling, PortTaken, PortFree, Spawn, PollDead, PollAlive, ProbeAnswers,
              ProbeFails, TerminateDead, TerminateAlive, Signal, SignalMisses, LeaderReaped, GraceExpires, Kill, KillMisses, Relaunch
      <4>4. QED BY <4>1, <4>2, <4>3 DEF session, SessionInv, Group
    <3>3. QED BY <3>1, <3>2
  <2>3. CASE Talking
    <3>1. CASE AskAnswered \/ TurnReturns
      <4>1. pc = "body" /\ UNCHANGED vars BY <3>1 DEF AskAnswered, TurnReturns
      <4>2. listening \subseteq Group(launch) \cup Intruders /\ None \notin listening
        BY <4>1, ListenersInBody
      <4>3. QED BY <3>1, <4>1, <4>2 DEF AskAnswered, TurnReturns, vars, SessionInv, Group
    <3>2. CASE AskRefused \/ GiveBack
      BY <3>2 DEF AskRefused, GiveBack, BodyEnds, session, SessionInv, Group
    <3>3. CASE TurnRaises \/ LeaveBlock
      BY <3>3 DEF TurnRaises, LeaveBlock, vars, SessionInv, Group
    <3>4. QED BY <2>3, <3>1, <3>2, <3>3 DEF Talking
  <2>4. CASE World
    <3>1. UNCHANGED <<session, pc, launch>>
      BY <2>4 DEF World, Server, LeaderBinds, Forks, ProcessExits, IntruderBinds, IntruderLeaves,
                  Ended, controller, vars
    <3>2. QED BY <3>1 DEF session, SessionInv, Group
  <2>5. QED BY <2>1, <2>2, <2>3, <2>4 DEF SessionNext
<1>3. IInv /\ SessionInv => TrafficStaysInside
  BY DEF IInv, PortIsOurs, SessionInv, TrafficStaysInside
<1>4. QED BY <1>1, <1>2, <1>3, ServerInvariant, PTL DEF SessionSpec

-----------------------------------------------------------------------------
(* How far a launch is from its end. *)

Seated == step \in {"ask", "talk", "left"} /\ total_calls \in 0..MaxTurns

(* What is left of one launch, at most, in steps of the controller and the   *)
(* caller: a poll and its probe count two, a turn one.                       *)
Left ==
  CASE pc = "done" -> 0
    [] pc = "kill" -> 1
    [] pc = "grace" -> 2
    [] pc = "signal" -> 3
    [] pc = "terminate" -> 4
    [] pc = "body" -> 5 + (CASE step = "left" -> 0
                             [] step = "talk" -> 1 + MaxTurns - total_calls
                             [] step = "ask" -> 2 + MaxTurns)
    [] pc = "probe" -> 8 + MaxTurns + 2 * (MaxPolls - polls) + 1
    [] pc = "poll" -> 8 + MaxTurns + 2 * (MaxPolls - polls)
    [] pc = "spawn" -> 8 + MaxTurns + 2 * MaxPolls + 1
    [] pc = "check" -> 8 + MaxTurns + 2 * MaxPolls + 2

(* A step of the controller or of the caller ends the launch or comes nearer *)
(* to its end; nothing a server or another program does sets it back.        *)
Advances ==
  /\ Around \/ Talking => launch' = launch + 1 \/ (launch' = launch /\ Left' < Left)
  /\ World => launch' = launch /\ Left' = Left

LEMMA StepSeated == Seated /\ [SessionNext]_session_vars => Seated'
<1> SUFFICES ASSUME Seated, [SessionNext]_session_vars PROVE Seated' OBVIOUS
<1> USE TurnsAssumption DEF Seated
<1>1. CASE Around BY <1>1 DEF Around, session
<1>2. CASE Talking
  BY <1>2 DEF Talking, AskRefused, AskAnswered, TurnReturns, TurnRaises, LeaveBlock, GiveBack, session
<1>3. CASE World \/ UNCHANGED session_vars BY <1>3 DEF World, session_vars, session
<1>4. QED BY <1>1, <1>2, <1>3 DEF SessionNext

(* The steps of running outside the block. *)
LEMMA AroundAdvances ==
  ASSUME IInv, Seated, Around
  PROVE  launch' = launch + 1 \/ (launch' = launch /\ Left' < Left)
<1>1. CASE Relaunch BY <1>1 DEF Relaunch
<1>2. CASE ~Relaunch
  <2>1. pc # "done"
    BY <1>2 DEF Around, Controlling, PortTaken, PortFree, Spawn, PollDead, PollAlive, ProbeAnswers,
       ProbeFails, TerminateDead, TerminateAlive, Signal, SignalMisses, LeaderReaped, GraceExpires,
       Kill, KillMisses
  <2>2. UNCHANGED <<step, total_calls>> /\ Controlling BY <2>1 DEF Around, session
  <2>3. /\ MaxTurns \in Nat /\ MaxPolls \in Nat /\ polls \in 0..MaxPolls
        /\ pc = "poll" => polls < MaxPolls
        /\ pc \in {"check", "spawn"} => polls = 0
    BY TurnsAssumption, ServerAssumption DEF IInv, TypeOK, PollsLeft
  <2>4. CASE PortTaken \/ PortFree \/ Spawn
    BY <2>2, <2>3, <2>4 DEF PortTaken, PortFree, Spawn, Left
  <2>5. CASE PollDead \/ PollAlive
    BY <2>2, <2>3, <2>5 DEF PollDead, PollAlive, Left
  <2>6. CASE ProbeAnswers
    <3>1. Left = 8 + MaxTurns + 2 * (MaxPolls - polls) + 1 BY <2>6 DEF ProbeAnswers, Left
    <3>2. Left' \in 5..(7 + MaxTurns) BY <2>2, <2>3, <2>6 DEF ProbeAnswers, Left, Seated
    <3>3. launch' = launch BY <2>6 DEF ProbeAnswers
    <3>4. QED BY <2>3, <3>1, <3>2, <3>3
  <2>7. CASE ProbeFails BY <2>2, <2>3, <2>7 DEF ProbeFails, Left
  <2>8. CASE \/ TerminateDead \/ TerminateAlive \/ Signal \/ SignalMisses
             \/ LeaderReaped \/ GraceExpires \/ Kill \/ KillMisses
    BY <2>8 DEF TerminateDead, TerminateAlive, Signal, SignalMisses, LeaderReaped, GraceExpires,
                Kill, KillMisses, Left
  <2>9. QED BY <1>2, <2>2, <2>4, <2>5, <2>6, <2>7, <2>8 DEF Controlling
<1>3. QED BY <1>1, <1>2

(* The steps inside it. *)
LEMMA TalkingAdvances ==
  ASSUME Seated, Talking
  PROVE  launch' = launch /\ Left' < Left
<1> USE TurnsAssumption DEF Seated
<1>1. CASE AskRefused BY <1>1 DEF AskRefused, BodyEnds, session, Left
<1>2. CASE AskAnswered BY <1>2 DEF AskAnswered, vars, Left
<1>3. CASE TurnReturns \/ TurnRaises BY <1>3 DEF TurnReturns, TurnRaises, vars, Left
<1>4. CASE LeaveBlock BY <1>4 DEF LeaveBlock, vars, Left
<1>5. CASE GiveBack BY <1>5 DEF GiveBack, BodyEnds, session, Left
<1>6. QED BY <1>1, <1>2, <1>3, <1>4, <1>5 DEF Talking

(* Every launch is finite, whatever the server does: each step of the        *)
(* controller or the caller lowers Left, a natural number, or is the last of *)
(* its launch, and no other step raises it (running, _await_readiness,       *)
(* _terminate_session).                                                      *)
THEOREM LaunchesAdvance ==
  SessionSpec => [](launch \in 1..Launches /\ Left \in Nat) /\ [][Advances]_session_vars
<1>1. SessionInit => Seated BY TurnsAssumption DEF SessionInit, Seated
<1>2. IInv /\ Seated => launch \in 1..Launches /\ Left \in Nat
  BY TurnsAssumption, ServerAssumption DEF IInv, TypeOK, Seated, Left
<1>3. IInv /\ Seated /\ [SessionNext]_session_vars => [Advances]_session_vars
  <2> SUFFICES ASSUME IInv, Seated, SessionNext PROVE Advances OBVIOUS
  <2>1. Around \/ Talking => launch' = launch + 1 \/ (launch' = launch /\ Left' < Left)
    BY AroundAdvances, TalkingAdvances
  <2>2. ASSUME World PROVE launch' = launch /\ Left' = Left
    <3>1. UNCHANGED <<pc, launch, polls, step, total_calls>>
      BY <2>2 DEF World, Server, LeaderBinds, Forks, ProcessExits, IntruderBinds, IntruderLeaves,
                  Ended, controller, vars, session
    <3>2. QED BY <3>1 DEF Left
  <2>3. QED BY <2>1, <2>2 DEF Advances
<1>4. QED BY <1>1, <1>2, <1>3, StepSeated, ServerInvariant, PTL DEF SessionSpec
=============================================================================
