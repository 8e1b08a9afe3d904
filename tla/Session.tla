------------------------------- MODULE Session -------------------------------
(***************************************************************************)
(* The interactive session (model_session.py): inside the block that       *)
(* ModelServer.running lends it, ask the server which model it serves,     *)
(* open one HTTP client, take turns, close the client, give the server     *)
(* back.                                                                   *)
(*                                                                         *)
(* Every step outside the block is module ModelServer's.  A turn is one    *)
(* ModelClient.generate, which ends by module Generation; the caller may   *)
(* catch what a turn raises and go on, or leave.                           *)
(***************************************************************************)
EXTENDS ModelServer

CONSTANT MaxTurns   \* BOUND: turns of one session

ASSUME TurnsAssumption == MaxTurns \in Nat

VARIABLES
  step,        \* inside the block: "ask", "talk" or "left"
  served,      \* who named the model id every request echoes
  http,        \* the session's HTTP client: "none", "open" or "closed"
  spoke,       \* everyone the session has talked to
  total_calls,
  last         \* the turn SessionHandle.last is the result of, or None

session == <<step, served, http, spoke, total_calls, last>>
session_vars == <<vars, session>>

SessionInit ==
  /\ Init
  /\ step = "ask" /\ served = None /\ http = "none" /\ spoke = {}
  /\ total_calls = 0 /\ last = None

(* What running does before and after the block; a new launch is a new session. *)
Around ==
  /\ Controlling
  /\ IF pc = "done"
       THEN /\ step' = "ask" /\ served' = None /\ http' = "none" /\ spoke' = {}
            /\ total_calls' = 0 /\ last' = None
       ELSE UNCHANGED session

(* served_model_id: nobody answers in time (ServerNotReady), or the answer   *)
(* is no list of models, or an empty one (ServerModelUnknown).               *)
AskRefused ==
  /\ pc = "body" /\ step = "ask"
  /\ BodyEnds /\ outcome' = "raised"
  /\ UNCHANGED session

(* The first model advertised by whoever holds the port; the client opens. *)
AskAnswered ==
  /\ pc = "body" /\ step = "ask"
  /\ \E p \in listening : served' = p /\ spoke' = spoke \cup {p}
  /\ http' = "open" /\ step' = "talk"
  /\ UNCHANGED <<vars, total_calls, last>>

(* SessionHandle.__call__: a result, faulted or not, is kept on last. *)
TurnReturns ==
  /\ pc = "body" /\ step = "talk" /\ total_calls < MaxTurns
  /\ \E p \in listening : spoke' = spoke \cup {p}
  /\ total_calls' = total_calls + 1 /\ last' = total_calls + 1
  /\ UNCHANGED <<vars, step, served, http>>

(* BackendUnavailable: the call is counted, last still shows an older turn. *)
TurnRaises ==
  /\ pc = "body" /\ step = "talk" /\ total_calls < MaxTurns
  /\ total_calls' = total_calls + 1
  /\ UNCHANGED <<vars, step, served, http, spoke, last>>

(* The caller's block ends, or an exception leaves it: the client closes. *)
LeaveBlock ==
  /\ pc = "body" /\ step = "talk"
  /\ http' = "closed" /\ step' = "left"
  /\ UNCHANGED <<vars, served, spoke, total_calls, last>>

GiveBack ==
  /\ pc = "body" /\ step = "left"
  /\ BodyEnds
  /\ UNCHANGED session

Talking == AskRefused \/ AskAnswered \/ TurnReturns \/ TurnRaises \/ LeaveBlock \/ GiveBack

World == (Server \/ IntruderBinds \/ IntruderLeaves \/ Ended) /\ UNCHANGED session

SessionNext == Around \/ Talking \/ World

SessionSpec == SessionInit /\ [][SessionNext]_session_vars

(* The controller and the caller take their steps; the server promises       *)
(* nothing.                                                                  *)
SessionFairSpec == SessionSpec /\ WF_session_vars(Around \/ Talking)

-----------------------------------------------------------------------------
(* Properties. *)

(* A session's traffic stays inside its own server: its client is open only  *)
(* in the block and after an id was named, and whoever answered the probe,   *)
(* named the id or took a turn is the server of this launch or, if its port  *)
(* was taken, that program; never what an earlier launch left behind         *)
(* (ModelSession.open, running).                                             *)
TrafficStaysInside ==
  /\ http = "open" => pc = "body" /\ served # None
  /\ spoke \subseteq Group(launch) \cup Intruders
  /\ HandleIsFresh
=============================================================================
