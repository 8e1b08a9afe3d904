----------------------------- MODULE Generation -----------------------------
(***************************************************************************)
(* One call of ModelClient.generate: the HTTP transport (backend.py), the  *)
(* clock of the derail guard (derail.py) and the client's event loop       *)
(* (client.py), against a server that may refuse, stall, trickle bytes     *)
(* that carry no content or complete nothing, break off, or report an      *)
(* error.                                                                  *)
(*                                                                         *)
(* The clock counts from the entry of generate.  A chunk is the sequence   *)
(* of events its bytes complete (sse.py), so a keepalive is the empty      *)
(* chunk.  Whether a delta completes a run of repeated lines is a free     *)
(* choice here; module DerailGuard says when it does.                      *)
(***************************************************************************)
EXTENDS Integers, Sequences

CONSTANTS
  Chunks,          \* what the bytes of one read may decode to
  MaxTokens,       \* Budget.max_tokens
  Timeout,         \* Budget.generation_timeout_s
  SilenceTimeout,  \* derail.SILENCE_TIMEOUT_S
  ConnectTimeout,  \* backend.HTTP_CONNECT_TIMEOUT_S
  ReadTimeout,     \* backend.HTTP_READ_TIMEOUT_S, charged to every socket read and write
  MaxWork,         \* BOUND: time the caller spends on the events of one chunk
  MaxClock,        \* BOUND: the clock stops here, past every verdict
  MaxTrickles,     \* BOUND: trickles are counted up to this many
  None

VARIABLES
  pc,              \* connect, send, head, read, event, return, returned, raised
  clock,
  waited,          \* time the socket call the transport blocks in has taken
  trickles,        \* HISTORY: socket calls that moved bytes and completed nothing
  worked,          \* time spent on the events of the current chunk
  events,          \* decoded events the loop has not consumed
  silence_since,   \* DerailGuard._silence_since
  tripped,         \* DerailGuard._tripped
  chars,           \* decoded chars, counted by the client and by the guard
  server_tokens, derail_reason, fault, finish_reason,
  first_chunk,     \* HISTORY: when the first bytes of the body arrived
  result           \* the GenerationResult, or None

vars == <<pc, clock, waited, trickles, worked, events, silence_since, tripped, chars,
          server_tokens, derail_reason, fault, finish_reason, first_chunk, result>>

meters == <<chars, server_tokens, derail_reason, fault, finish_reason>>
guard == <<silence_since, tripped>>

CHARS_PER_TOKEN == 4
Texts == {"content", "reasoning"}      \* sse.Delta and sse.Reasoning
Events ==
  [kind : Texts, chars : Nat \ {0}] \cup [kind : {"usage"}, tokens : Nat]
    \cup [kind : {"finish"}, reason : {"stop", "length"}] \cup [kind : {"error", "done", "raise"}]

ASSUME GenerationAssumption ==
  /\ Chunks \subseteq Seq(Events)
  /\ MaxTokens \in Nat \ {0} /\ Timeout \in Nat \ {0}
  /\ SilenceTimeout \in Nat /\ ConnectTimeout \in Nat /\ ReadTimeout \in Nat
  /\ MaxWork \in Nat /\ MaxTrickles \in Nat
  /\ MaxClock \in Nat /\ MaxClock > Timeout
  /\ None \notin Nat
  /\ None \notin {"timeout", "silent", "token_cap", "repetition", "stop", "length", "error"}

-----------------------------------------------------------------------------
(* DerailGuard. *)

(* MUTANT: silence is measured from construction, not from first arrival. *)
clock_bounds_from_start(t, since) ==
  IF t > Timeout THEN "timeout"
  ELSE IF t > SilenceTimeout THEN "silent"
  ELSE None

(* _clock_bounds: the deadline first, then silence since the last arrival    *)
(* that counts.  The first arrival starts the silence clock, unjudged.       *)
clock_bounds(t, since) ==
  IF t > Timeout THEN "timeout"
  ELSE IF since # None /\ t - since > SilenceTimeout THEN "silent"
  ELSE None

(* The silence clock after a judgement that reached it. *)
armed(t, since) == IF since = None /\ t <= Timeout THEN t ELSE since

token_cap_chars == MaxTokens * CHARS_PER_TOKEN

(* The verdicts feed may return for a delta that brings the count to n. *)
feed_verdicts(t, since, n) ==
  IF clock_bounds(t, since) # None THEN {clock_bounds(t, since)}
  ELSE IF n > token_cap_chars THEN {"token_cap"}
  ELSE {None, "repetition"}

-----------------------------------------------------------------------------
Init ==
  /\ pc = "connect"
  /\ clock = 0 /\ waited = 0 /\ trickles = 0 /\ worked = 0
  /\ events = <<>>
  /\ silence_since = None /\ tripped = None
  /\ chars = 0 /\ server_tokens = None
  /\ derail_reason = None /\ fault = None /\ finish_reason = None
  /\ first_chunk = None
  /\ result = None

(* How long httpx lets one socket call take. *)
Patience == IF pc = "connect" THEN ConnectTimeout ELSE ReadTimeout

Later == IF clock < MaxClock THEN clock + 1 ELSE clock

(* Time passes while the caller is blocked in the transport. *)
Wait ==
  /\ pc \in {"connect", "send", "head", "read"}
  /\ waited < Patience
  /\ clock' = Later /\ waited' = waited + 1
  /\ UNCHANGED <<pc, trickles, worked, events, guard, meters, first_chunk, result>>

(* Time passes while the caller works on a chunk (on_delta may be slow). *)
Work ==
  /\ pc = "event"
  /\ worked < MaxWork
  /\ clock' = Later /\ worked' = worked + 1
  /\ UNCHANGED <<pc, waited, trickles, events, guard, meters, first_chunk, result>>

(* A socket call moves bytes that complete nothing: a part of the request, a *)
(* part of a head or an interim response, framing or compressed bytes that   *)
(* decode to no chunk.  httpx starts its next call, with a new timeout, and  *)
(* no code of ours runs.                                                     *)
Trickle ==
  /\ pc \in {"send", "head", "read"}
  /\ waited' = 0
  /\ trickles' = IF trickles < MaxTrickles THEN trickles + 1 ELSE trickles
  /\ UNCHANGED <<pc, clock, worked, events, guard, meters, first_chunk, result>>

Connect ==
  /\ pc = "connect"
  /\ pc' = "send" /\ waited' = 0
  /\ UNCHANGED <<clock, trickles, worked, events, guard, meters, first_chunk, result>>

(* The request is out. *)
Sent ==
  /\ pc = "send"
  /\ pc' = "head" /\ waited' = 0
  /\ UNCHANGED <<clock, trickles, worked, events, guard, meters, first_chunk, result>>

(* BackendUnavailable: no connection, a connect or write timeout, a non-2xx  *)
(* status or a transport failure before the response.  generate does not     *)
(* catch it.                                                                 *)
Unavailable ==
  /\ pc \in {"connect", "send", "head"}
  /\ pc' = "raised"
  /\ UNCHANGED <<clock, waited, trickles, worked, events, guard, meters, first_chunk, result>>

(* The 2xx response head: response_started. *)
RespondHead ==
  /\ pc = "head"
  /\ pc' = "read" /\ waited' = 0
  /\ UNCHANGED <<clock, trickles, worked, events, guard, meters, first_chunk, result>>

(* MUTANT: a head that does not come in time is asked for again. *)
TransportSilent_retries ==
  /\ \/ pc = "read" /\ derail_reason' = "silent" /\ pc' = "return" /\ UNCHANGED waited
     \/ /\ pc = "head" /\ waited = ReadTimeout
        /\ pc' = "connect" /\ waited' = 0 /\ UNCHANGED derail_reason
  /\ UNCHANGED <<clock, trickles, worked, events, guard, chars, server_tokens, fault,
                 finish_reason, first_chunk, result>>

(* GenerationSilent: a read of the head timed out, or a response that had    *)
(* started broke off or timed out.  The client catches it as SILENT.         *)
TransportSilent ==
  /\ \/ pc = "read"
     \/ pc = "head" /\ waited = ReadTimeout
  /\ derail_reason' = "silent"
  /\ pc' = "return"
  /\ UNCHANGED <<clock, waited, trickles, worked, events, guard, chars, server_tokens, fault,
                 finish_reason, first_chunk, result>>

(* The server closes the body, with or without a terminal frame. *)
StreamEnds ==
  /\ pc = "read"
  /\ pc' = "return"
  /\ UNCHANGED <<clock, waited, trickles, worked, events, guard, meters, first_chunk, result>>

(* MUTANT: no tick, so bytes without content keep every bound asleep. *)
ChunkArrives_no_tick ==
  /\ pc = "read"
  /\ first_chunk' = IF first_chunk = None THEN clock ELSE first_chunk
  /\ \E c \in Chunks : /\ events' = c
                       /\ pc' = IF c = <<>> THEN "read" ELSE "event"
  /\ waited' = 0 /\ worked' = 0
  /\ UNCHANGED <<clock, trickles, guard, meters, result>>

(* _ticking: each chunk is judged by the clock before it is decoded, and the *)
(* stream just stops when it trips.                                          *)
ChunkArrives ==
  /\ pc = "read"
  /\ first_chunk' = IF first_chunk = None THEN clock ELSE first_chunk
  /\ silence_since' = armed(clock, silence_since)
  /\ tripped' = clock_bounds(clock, silence_since)
  /\ IF tripped' # None
       THEN pc' = "return" /\ UNCHANGED events
       ELSE \E c \in Chunks : /\ events' = c
                              /\ pc' = IF c = <<>> THEN "read" ELSE "event"
  /\ waited' = 0 /\ worked' = 0
  /\ UNCHANGED <<clock, trickles, meters, result>>

Current == Head(events)
PcAfter == IF Tail(events) = <<>> THEN "read" ELSE "event"

(* MUTANT: reasoning is metered but not watched. *)
ConsumeText_content_only ==
  /\ pc = "event" /\ Current.kind \in Texts
  /\ chars' = chars + Current.chars
  /\ \E v \in feed_verdicts(clock, silence_since, chars + Current.chars) :
       IF Current.kind = "reasoning" \/ v = None
         THEN /\ pc' = PcAfter /\ silence_since' = clock /\ UNCHANGED <<derail_reason, tripped>>
         ELSE /\ derail_reason' = v /\ tripped' = v /\ pc' = "return" /\ UNCHANGED silence_since
  /\ events' = Tail(events)
  /\ UNCHANGED <<clock, waited, trickles, worked, server_tokens, fault, finish_reason, first_chunk, result>>

(* Delta and Reasoning: metered and watched alike; the first bound the feed  *)
(* trips breaks the loop.                                                    *)
ConsumeText ==
  /\ pc = "event" /\ Current.kind \in Texts
  /\ chars' = chars + Current.chars
  /\ silence_since' = IF clock_bounds(clock, silence_since) = None THEN clock ELSE silence_since
  /\ \E v \in feed_verdicts(clock, silence_since, chars + Current.chars) :
       /\ derail_reason' = v /\ tripped' = v
       /\ pc' = IF v = None THEN PcAfter ELSE "return"
  /\ events' = Tail(events)
  /\ UNCHANGED <<clock, waited, trickles, worked, server_tokens, fault, finish_reason, first_chunk, result>>

ConsumeUsage ==
  /\ pc = "event" /\ Current.kind = "usage"
  /\ server_tokens' = Current.tokens
  /\ events' = Tail(events) /\ pc' = PcAfter
  /\ UNCHANGED <<clock, waited, trickles, worked, guard, chars, derail_reason, fault, finish_reason,
                 first_chunk, result>>

(* A finish frame does not end the loop. *)
ConsumeFinish ==
  /\ pc = "event" /\ Current.kind = "finish"
  /\ finish_reason' = Current.reason
  /\ events' = Tail(events) /\ pc' = PcAfter
  /\ UNCHANGED <<clock, waited, trickles, worked, guard, chars, server_tokens, derail_reason, fault,
                 first_chunk, result>>

(* MUTANT: the loop reads on after an error frame. *)
ConsumeError_reads_on ==
  /\ pc = "event" /\ Current.kind = "error"
  /\ fault' = "error"
  /\ events' = Tail(events) /\ pc' = PcAfter
  /\ UNCHANGED <<clock, waited, trickles, worked, guard, chars, server_tokens, derail_reason,
                 finish_reason, first_chunk, result>>

(* An error frame (or a frame the decoder could not parse) is terminal. *)
ConsumeError ==
  /\ pc = "event" /\ Current.kind = "error"
  /\ fault' = "error"
  /\ events' = Tail(events) /\ pc' = "return"
  /\ UNCHANGED <<clock, waited, trickles, worked, guard, chars, server_tokens, derail_reason,
                 finish_reason, first_chunk, result>>

(* data: [DONE] ends the decoder, and with it the loop. *)
ConsumeDone ==
  /\ pc = "event" /\ Current.kind = "done"
  /\ events' = Tail(events) /\ pc' = "return"
  /\ UNCHANGED <<clock, waited, trickles, worked, guard, meters, first_chunk, result>>

(* An exception of the decoder (an error of json.loads that is no            *)
(* JSONDecodeError) or of on_delta passes through generate.                  *)
Escape ==
  /\ pc = "event" /\ Current.kind \in Texts \cup {"raise"}
  /\ pc' = "raised"
  /\ UNCHANGED <<clock, waited, trickles, worked, events, guard, meters, first_chunk, result>>

(* The char proxy: ceil, so that any decoded content costs a token. *)
proxy_tokens(n) == (n + CHARS_PER_TOKEN - 1) \div CHARS_PER_TOKEN

(* MUTANT: the latch is not read, so a verdict of the chunk layer is lost. *)
Return_without_latch ==
  /\ pc = "return"
  /\ result' = [completion_tokens |-> IF server_tokens = None THEN proxy_tokens(chars)
                                                              ELSE server_tokens,
                tokens_estimated |-> server_tokens = None,
                derail_reason |-> derail_reason,
                fault |-> fault, finish_reason |-> finish_reason]
  /\ pc' = "returned"
  /\ UNCHANGED <<clock, waited, trickles, worked, events, guard, meters, first_chunk>>

(* MUTANT: the server's count is reported even where it sent none. *)
Return_unmetered ==
  /\ pc = "return"
  /\ result' = [completion_tokens |-> server_tokens,
                tokens_estimated |-> server_tokens = None,
                derail_reason |-> IF derail_reason # None THEN derail_reason ELSE tripped,
                fault |-> fault, finish_reason |-> finish_reason]
  /\ pc' = "returned"
  /\ UNCHANGED <<clock, waited, trickles, worked, events, guard, meters, first_chunk>>

(* The tail of generate: the loop's verdict, or else the guard's latch. *)
Return ==
  /\ pc = "return"
  /\ result' = [completion_tokens |-> IF server_tokens = None THEN proxy_tokens(chars)
                                                              ELSE server_tokens,
                tokens_estimated |-> server_tokens = None,
                derail_reason |-> IF derail_reason # None THEN derail_reason ELSE tripped,
                fault |-> fault, finish_reason |-> finish_reason]
  /\ pc' = "returned"
  /\ UNCHANGED <<clock, waited, trickles, worked, events, guard, meters, first_chunk>>

Ended == pc \in {"returned", "raised"} /\ UNCHANGED vars

Consume ==
  ConsumeText \/ ConsumeUsage \/ ConsumeFinish \/ ConsumeError \/ ConsumeDone \/ Escape

Next ==
  \/ Wait \/ Work \/ Trickle
  \/ Connect \/ Sent \/ Unavailable \/ RespondHead \/ TransportSilent \/ StreamEnds \/ ChunkArrives
  \/ Consume
  \/ Return
  \/ Ended

Spec == Init /\ [][Next]_vars

(* Fairness.  The caller's own steps run (weak fairness), time passes in     *)
(* the transport however often bytes move (strong fairness), and httpx       *)
(* raises once a socket call has taken its timeout.  The server promises     *)
(* nothing.                                                                  *)
TimesOut ==
  \/ pc \in {"connect", "send"} /\ waited = Patience /\ Unavailable
  \/ pc \in {"head", "read"} /\ waited = ReadTimeout /\ TransportSilent

FairSpec ==
  /\ Spec
  /\ SF_vars(Wait)
  /\ WF_vars(TimesOut) /\ WF_vars(Consume) /\ WF_vars(Return)

-----------------------------------------------------------------------------
(* Properties. *)

Reasons == {"timeout", "silent", "token_cap", "repetition"}

(* The state of one generate call is well typed. *)
TypeOK ==
  /\ pc \in {"connect", "send", "head", "read", "event", "return", "returned", "raised"}
  /\ clock \in Nat /\ waited \in Nat /\ trickles \in 0..MaxTrickles /\ worked \in Nat
  /\ events \in Seq(Events)
  /\ silence_since \in Nat \cup {None}
  /\ tripped \in Reasons \cup {None}
  /\ chars \in Nat
  /\ server_tokens \in Nat \cup {None}
  /\ derail_reason \in Reasons \cup {None}
  /\ fault \in {"error", None}
  /\ finish_reason \in {"stop", "length", None}
  /\ first_chunk \in Nat \cup {None}
  /\ result \in [completion_tokens : Nat, tokens_estimated : BOOLEAN,
                 derail_reason : Reasons \cup {None}, fault : {"error", None},
                 finish_reason : {"stop", "length", None}] \cup {None}

(* A server fault and a derail never name the same generation: the loop      *)
(* reads FAULTED or DERAILED off it without a tie (GenerationResult.fault,   *)
(* loop._score_attempt).                                                     *)
FaultExcludesDerail ==
  pc = "returned" => (result.fault # None => result.derail_reason = None)

(* The bound the guard latched is the one reported, also when it tripped     *)
(* between two events and the loop saw no verdict (generate, guard.tripped). *)
LatchIsReported ==
  (pc = "returned" /\ tripped # None) => result.derail_reason = tripped

(* A lazy weight load is not silence: the guard says SILENT only once the    *)
(* body has been arriving for longer than the silence bound (_clock_bounds). *)
ColdStartIsNotSilence ==
  tripped = "silent" => first_chunk # None /\ clock - first_chunk > SilenceTimeout

(* An estimate that no bound cut short stays within the token budget,        *)
(* reasoning included (feed, completion_tokens).                             *)
EstimateWithinBudget ==
  (pc = "returned" /\ result.tokens_estimated /\ result.derail_reason = None)
    => result.completion_tokens <= MaxTokens

GreaterOf(a, b) == IF a >= b THEN a ELSE b

(* When the last chunk judged in time can have been worked off, or the first *)
(* read of the body can have begun, whichever is later.                      *)
LastStart == GreaterOf(Timeout + MaxWork, ConnectTimeout + 2 * ReadTimeout)

(* Every generation is over one read later: keepalives buy a server nothing, *)
(* since each chunk is judged as it arrives, and each socket call that       *)
(* completes nothing buys at most one timeout more (ModelClient._ticking).   *)
EndsInTime ==
  trickles < MaxTrickles => clock <= LastStart + (1 + trickles) * ReadTimeout

(* Whatever the server does, generate returns or raises, unless the server   *)
(* forever moves bytes that complete neither the head nor a chunk: no clock  *)
(* but httpx's own runs there, and each such read restarts it.               *)
Terminates == <>[][~Trickle]_vars => <>(pc \in {"returned", "raised"})
=============================================================================
