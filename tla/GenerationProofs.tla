-------------------------- MODULE GenerationProofs --------------------------
(***************************************************************************)
(* Proofs about Generation, for every server, budget and set of timeouts.  *)
(***************************************************************************)
EXTENDS Generation, TLAPS

Live == pc \in {"connect", "send", "head", "read", "event"}
Over == pc \in {"return", "returned", "raised"}

(* What the trickles so far can have cost. *)
Bought == trickles * ReadTimeout

(* How far each phase can have pushed the clock, while trickles are counted. *)
Timing ==
  /\ pc = "connect" => waited <= ConnectTimeout
  /\ pc \in {"send", "head", "read"} => waited <= ReadTimeout
  /\ pc = "event" => waited = 0 /\ worked <= MaxWork /\ clock <= Timeout + worked
  /\ trickles < MaxTrickles =>
       /\ pc = "connect" => clock <= waited
       /\ pc = "send" => clock <= ConnectTimeout + Bought + waited
       /\ pc = "head" => clock <= ConnectTimeout + ReadTimeout + Bought + waited
       /\ pc = "read" => clock <= LastStart + Bought + waited
       /\ Over => clock <= LastStart + Bought + ReadTimeout

(* Nothing is decided while the loop runs, and the causes never meet. *)
Causes ==
  /\ Live => derail_reason = None /\ fault = None /\ tripped = None
  /\ fault # None => derail_reason = None /\ tripped = None
  /\ tripped # None => derail_reason \in {None, tripped}

(* The silence clock starts with the first arrival. *)
Silence ==
  /\ Live => (silence_since = None <=> first_chunk = None)
  /\ (Live /\ first_chunk # None) => first_chunk <= silence_since /\ silence_since <= clock
  /\ pc = "event" => first_chunk # None
  /\ ColdStartIsNotSilence

(* The loop body runs on an event. *)
Pending == pc = "event" => events # <<>>

(* No uncut generation has decoded more than the cap. *)
Capped == (Live \/ derail_reason = None) => chars <= token_cap_chars

(* What Return copied. *)
Result ==
  pc = "returned" =>
    /\ result.completion_tokens = IF server_tokens = None THEN proxy_tokens(chars)
                                                          ELSE server_tokens
    /\ result.tokens_estimated = (server_tokens = None)
    /\ result.derail_reason = IF derail_reason # None THEN derail_reason ELSE tripped
    /\ result.fault = fault

IInv == TypeOK /\ Pending /\ Timing /\ Causes /\ Silence /\ Capped /\ Result

(* The proxy rounds up, and stays within the budget when the chars do. *)
LEMMA ProxyFits ==
  ASSUME NEW n \in Nat
  PROVE  /\ proxy_tokens(n) \in Nat
         /\ n <= token_cap_chars => proxy_tokens(n) <= MaxTokens
  BY GenerationAssumption DEF proxy_tokens, token_cap_chars, CHARS_PER_TOKEN

(* The head and the rest of a non-empty chunk are well typed. *)
LEMMA ChunkParts ==
  ASSUME NEW s \in Seq(Events), s # <<>>
  PROVE  Head(s) \in Events /\ Tail(s) \in Seq(Events)
  OBVIOUS

(* What a further trickle costs, and what LastStart leaves room for. *)
LEMMA Costs ==
  ASSUME TypeOK
  PROVE  /\ Bought \in Nat
         /\ (1 + trickles) * ReadTimeout = Bought + ReadTimeout
         /\ trickles' = trickles => Bought' = Bought
         /\ trickles' = trickles + 1 => Bought' = Bought + ReadTimeout
<1>1. trickles \in Nat /\ ReadTimeout \in Nat BY GenerationAssumption DEF TypeOK
<1>2. trickles * ReadTimeout \in Nat BY <1>1
<1>3. (1 + trickles) * ReadTimeout = trickles * ReadTimeout + ReadTimeout BY <1>1
<1>4. (trickles + 1) * ReadTimeout = trickles * ReadTimeout + ReadTimeout BY <1>1
<1>5. QED BY <1>2, <1>3, <1>4 DEF Bought

LEMMA Room ==
  /\ LastStart \in Nat /\ LastStart >= Timeout + MaxWork
  /\ LastStart >= ConnectTimeout + 2 * ReadTimeout
BY GenerationAssumption DEF LastStart, GreaterOf

-----------------------------------------------------------------------------
(* The invariant holds when generate is entered. *)
LEMMA InitIInv == Init => IInv
  BY GenerationAssumption
  DEF Init, IInv, TypeOK, Pending, Timing, Causes, Silence, Capped, Result, Live, Over,
      ColdStartIsNotSilence, token_cap_chars, CHARS_PER_TOKEN, Reasons

(* Time passing, in the transport or in the caller. *)
LEMMA ClockSteps ==
  ASSUME IInv, Wait \/ Work
  PROVE  IInv'
<1> USE GenerationAssumption
<1> USE DEF Live, Over
<1>0. Bought \in Nat /\ (trickles' = trickles => Bought' = Bought) BY Costs DEF IInv
<1>1. CASE Wait
  <2>1. TypeOK' BY <1>1 DEF IInv, TypeOK, Wait, Later, guard, meters
  <2>2. Timing' BY <1>0, <1>1, Room DEF IInv, TypeOK, Timing, Wait, Patience, Later
  <2>3. Causes' BY <1>1 DEF IInv, Causes, Wait, guard, meters
  <2>4. Silence'
    BY <1>1 DEF IInv, TypeOK, Causes, Silence, Wait, Later, guard, meters, ColdStartIsNotSilence
  <2>5. Capped' BY <1>1 DEF IInv, Capped, Wait, guard, meters, token_cap_chars
  <2>6. Result' BY <1>1 DEF Result, Wait
  <2>7. Pending' BY <1>1 DEF Pending, Wait
  <2>8. QED BY <2>1, <2>2, <2>3, <2>4, <2>5, <2>6, <2>7 DEF IInv
<1>2. CASE Work
  <2>1. TypeOK' BY <1>2 DEF IInv, TypeOK, Work, Later, guard, meters
  <2>2. Timing' BY <1>0, <1>2, Room DEF IInv, TypeOK, Timing, Work, Later
  <2>3. Causes' BY <1>2 DEF IInv, Causes, Work, guard, meters
  <2>4. Silence'
    BY <1>2 DEF IInv, TypeOK, Causes, Silence, Work, Later, guard, meters, ColdStartIsNotSilence
  <2>5. Capped' BY <1>2 DEF IInv, Capped, Work, guard, meters, token_cap_chars
  <2>6. Result' BY <1>2 DEF Result, Work
  <2>7. Pending' BY <1>2 DEF IInv, Pending, Work
  <2>8. QED BY <2>1, <2>2, <2>3, <2>4, <2>5, <2>6, <2>7 DEF IInv
<1>3. QED BY <1>1, <1>2

(* Connecting, sending, being refused, the response head, a broken or ended  *)
(* stream.                                                                   *)
LEMMA TransportSteps ==
  ASSUME IInv, \/ Connect \/ Sent \/ Unavailable \/ RespondHead \/ TransportSilent
               \/ StreamEnds \/ Trickle
  PROVE  IInv'
<1> USE GenerationAssumption
<1> USE DEF Live, Over, Connect, Sent, Unavailable, RespondHead, TransportSilent,
            StreamEnds, Trickle, guard, meters
<1>1. TypeOK' BY DEF IInv, TypeOK, Reasons
<1>2. Timing'
  <2>1. CASE Trickle BY <2>1, Costs, Room DEF IInv, TypeOK, Timing
  <2>2. CASE ~Trickle
    <3>1. trickles' = trickles /\ Bought' = Bought /\ Bought \in Nat BY <2>2, Costs DEF IInv
    <3>2. QED BY <2>2, <3>1, Room DEF IInv, TypeOK, Timing
  <2>3. QED BY <2>1, <2>2
<1>3. Causes' BY DEF IInv, Causes, TypeOK
<1>4. Silence' BY DEF IInv, TypeOK, Causes, Silence, ColdStartIsNotSilence
<1>5. Capped' BY DEF IInv, Capped, token_cap_chars
<1>6. Result' BY DEF Result
<1>7. Pending' BY DEF IInv, Pending
<1>8. QED BY <1>1, <1>2, <1>3, <1>4, <1>5, <1>6, <1>7 DEF IInv

(* A chunk is judged by the clock before it is decoded. *)
LEMMA ChunkStep ==
  ASSUME IInv, ChunkArrives
  PROVE  IInv'
<1> USE GenerationAssumption
<1> USE DEF Live, Over, ChunkArrives, meters
<1>0. Bought \in Nat /\ (trickles' = trickles => Bought' = Bought) BY Costs DEF IInv
<1>1. TypeOK' BY DEF IInv, TypeOK, Reasons, clock_bounds, armed
<1>2. Timing' BY <1>0, Room DEF IInv, TypeOK, Timing, clock_bounds
<1>3. Causes' BY DEF IInv, Causes, TypeOK, clock_bounds
<1>4. Silence' BY DEF IInv, TypeOK, Causes, Silence, ColdStartIsNotSilence, clock_bounds, armed
<1>5. Capped' BY DEF IInv, Capped, Causes, token_cap_chars
<1>6. Result' BY DEF Result
<1>7. Pending' BY DEF IInv, Pending
<1>8. QED BY <1>1, <1>2, <1>3, <1>4, <1>5, <1>6, <1>7 DEF IInv

(* One event of the loop.  A text event is fed to the guard, whose verdict   *)
(* ends the loop; the other events touch one field each.                     *)
LEMMA TextStep ==
  ASSUME IInv, ConsumeText
  PROVE  IInv'
<1> USE GenerationAssumption
<1> USE DEF Live, Over, ConsumeText, PcAfter
<1>0. Bought \in Nat /\ (trickles' = trickles => Bought' = Bought) BY Costs DEF IInv
<1>1. Current \in Events /\ Tail(events) \in Seq(Events)
  BY ChunkParts DEF IInv, TypeOK, Pending, Current
<1>2. Current.chars \in Nat BY <1>1 DEF Events, Texts
<1>3. PICK v \in feed_verdicts(clock, silence_since, chars + Current.chars) :
        /\ derail_reason' = v /\ tripped' = v
        /\ pc' = IF v = None THEN PcAfter ELSE "return"
  OBVIOUS
<1>4. v = None => clock_bounds(clock, silence_since) = None /\ chars' <= token_cap_chars
  BY <1>2, <1>3 DEF feed_verdicts, IInv, TypeOK, token_cap_chars, CHARS_PER_TOKEN
<1>5. v = "silent" => clock_bounds(clock, silence_since) = "silent"
  BY <1>3 DEF feed_verdicts
<1>6. v \in Reasons \cup {None}
  BY <1>3 DEF feed_verdicts, clock_bounds, Reasons
<1>7. TypeOK' BY <1>1, <1>2, <1>3, <1>6 DEF IInv, TypeOK
<1>8. Timing' BY <1>0, <1>3, Room DEF IInv, TypeOK, Timing
<1>9. Causes' BY <1>3 DEF IInv, Causes
<1>10. Silence'
  <2>1. /\ silence_since = None <=> first_chunk = None
        /\ first_chunk # None => first_chunk <= silence_since /\ silence_since <= clock
        /\ clock \in Nat /\ silence_since \in Nat \cup {None} /\ first_chunk \in Nat \cup {None}
    BY DEF IInv, TypeOK, Silence
  <2>2. first_chunk # None BY DEF IInv, Silence
  <2>3. v = "silent" => clock - first_chunk > SilenceTimeout
    BY <1>5, <2>1, <2>2 DEF clock_bounds
  <2>4. ColdStartIsNotSilence'
    BY <1>3, <2>2, <2>3 DEF ColdStartIsNotSilence
  <2>5. silence_since' \in {clock, silence_since} OBVIOUS
  <2>6. silence_since' \in Nat /\ first_chunk <= silence_since' /\ silence_since' <= clock
    BY <2>1, <2>2, <2>5
  <2>7. QED BY <2>1, <2>2, <2>4, <2>6 DEF Silence
<1>11. Capped' BY <1>3, <1>4 DEF Capped, token_cap_chars
<1>12. Result' BY <1>3 DEF Result
<1>13. Pending' BY <1>3 DEF Pending
<1>14. QED BY <1>7, <1>8, <1>9, <1>10, <1>11, <1>12, <1>13 DEF IInv

(* The events that carry no text. *)
LEMMA FrameSteps ==
  ASSUME IInv, ConsumeUsage \/ ConsumeFinish \/ ConsumeError \/ ConsumeDone \/ Escape
  PROVE  IInv'
<1> USE GenerationAssumption
<1> USE DEF Live, Over, ConsumeUsage, ConsumeFinish, ConsumeError, ConsumeDone,
            Escape, PcAfter, guard, meters
<1>0. Bought \in Nat /\ (trickles' = trickles => Bought' = Bought) BY Costs DEF IInv
<1>1. Current \in Events /\ Tail(events) \in Seq(Events)
  BY ChunkParts DEF IInv, TypeOK, Pending, Current
<1>2. /\ Current.kind = "usage" => Current.tokens \in Nat
      /\ Current.kind = "finish" => Current.reason \in {"stop", "length"}
  BY <1>1 DEF Events, Texts
<1>3. TypeOK' BY <1>1, <1>2 DEF IInv, TypeOK
<1>4. Timing'
  <2>1. UNCHANGED <<clock, waited, trickles, worked>> /\ pc = "event" OBVIOUS
  <2>2. pc' \in {"read", "event", "return", "raised"} OBVIOUS
  <2>3. waited = 0 /\ worked <= MaxWork /\ clock <= Timeout + worked
    BY <2>1 DEF IInv, Timing
  <2>4. clock <= LastStart BY <2>3, Room DEF IInv, TypeOK
  <2>5. QED BY <1>0, <2>1, <2>2, <2>3, <2>4, Room DEF IInv, TypeOK, Timing
<1>5. Causes' BY DEF IInv, Causes
<1>6. Silence' BY DEF IInv, TypeOK, Causes, Silence, ColdStartIsNotSilence
<1>7. Capped' BY DEF IInv, Capped, token_cap_chars
<1>8. Result' BY DEF Result
<1>9. Pending' BY DEF Pending
<1>10. QED BY <1>3, <1>4, <1>5, <1>6, <1>7, <1>8, <1>9 DEF IInv

(* The tail of generate only builds the result. *)
LEMMA ReturnStep ==
  ASSUME IInv, Return
  PROVE  IInv'
<1> USE GenerationAssumption
<1> USE DEF Live, Over, Return, guard, meters
<1>0. Bought \in Nat /\ (trickles' = trickles => Bought' = Bought) BY Costs DEF IInv
<1>1. proxy_tokens(chars) \in Nat BY ProxyFits DEF IInv, TypeOK
<1>2. TypeOK' BY <1>1 DEF IInv, TypeOK
<1>3. Timing' BY <1>0 DEF IInv, Timing
<1>4. Causes' BY DEF IInv, Causes
<1>5. Silence' BY DEF IInv, Silence, ColdStartIsNotSilence
<1>6. Capped' BY DEF IInv, Capped, token_cap_chars
<1>7. Result' BY DEF Result, proxy_tokens
<1>8. Pending' BY DEF Pending
<1>9. QED BY <1>2, <1>3, <1>4, <1>5, <1>6, <1>7, <1>8 DEF IInv

-----------------------------------------------------------------------------
(* The inductive invariant: the phase bounds the clock, nothing is decided   *)
(* while the loop of ModelClient.generate runs, and the silence clock starts *)
(* with the body.                                                            *)
THEOREM Inductive == Spec => []IInv
<1>1. IInv /\ [Next]_vars => IInv'
  <2> SUFFICES ASSUME IInv, [Next]_vars PROVE IInv'
    OBVIOUS
  <2>1. CASE Wait \/ Work BY <2>1, ClockSteps
  <2>2. CASE \/ Connect \/ Sent \/ Unavailable \/ RespondHead \/ TransportSilent
             \/ StreamEnds \/ Trickle
    BY <2>2, TransportSteps
  <2>3. CASE ChunkArrives BY <2>3, ChunkStep
  <2>4. CASE ConsumeText BY <2>4, TextStep
  <2>5. CASE ConsumeUsage \/ ConsumeFinish \/ ConsumeError \/ ConsumeDone \/ Escape
    BY <2>5, FrameSteps
  <2>6. CASE Return BY <2>6, ReturnStep
  <2>7. CASE UNCHANGED vars
    BY <2>7 DEF vars, IInv, TypeOK, Pending, Timing, Causes, Silence, Capped, Result, Live, Over,
                Bought, ColdStartIsNotSilence, token_cap_chars
  <2>8. QED BY <2>1, <2>2, <2>3, <2>4, <2>5, <2>6, <2>7 DEF Next, Consume, Ended
<1>2. QED BY InitIInv, <1>1, PTL DEF Spec

(* The state of a generate call stays well typed. *)
THEOREM TypeCorrect == Spec => []TypeOK
<1>1. IInv => TypeOK BY DEF IInv
<1>2. QED BY Inductive, <1>1, PTL

(* Whatever the budget and the timeouts are, a generation is over one read   *)
(* after LastStart, however many keepalives the server sends; each socket    *)
(* call that moves bytes and completes nothing buys one timeout more.        *)
THEOREM EveryGenerationEnds == Spec => []EndsInTime
<1>1. IInv => EndsInTime
  <2> SUFFICES ASSUME IInv, trickles < MaxTrickles
               PROVE  clock <= LastStart + (1 + trickles) * ReadTimeout
    BY DEF EndsInTime
  <2>1. Bought \in Nat /\ (1 + trickles) * ReadTimeout = Bought + ReadTimeout BY Costs DEF IInv
  <2>2. clock <= LastStart + Bought + ReadTimeout
    BY <2>1, Room, GenerationAssumption DEF IInv, TypeOK, Timing, Over
  <2>3. clock \in Nat BY DEF IInv, TypeOK
  <2>4. QED BY <2>1, <2>2, <2>3, Room, GenerationAssumption
<1>2. QED BY Inductive, <1>1, PTL

(* No generation is both a server fault and a model derail. *)
THEOREM OneCause == Spec => []FaultExcludesDerail
<1>1. IInv => FaultExcludesDerail
  BY DEF IInv, Causes, Result, FaultExcludesDerail
<1>2. QED BY Inductive, <1>1, PTL

(* The bound the guard latched is the bound the result names. *)
THEOREM LatchReported == Spec => []LatchIsReported
<1>1. IInv => LatchIsReported
  BY DEF IInv, Causes, Result, LatchIsReported
<1>2. QED BY Inductive, <1>1, PTL

(* A slow start is never reported as silence by the guard. *)
THEOREM NoSilenceFromColdStart == Spec => []ColdStartIsNotSilence
<1>1. IInv => ColdStartIsNotSilence BY DEF IInv, Silence
<1>2. QED BY Inductive, <1>1, PTL

(* An uncut estimate stays within Budget.max_tokens. *)
THEOREM EstimateFits == Spec => []EstimateWithinBudget
<1>1. ASSUME IInv, pc = "returned", result.tokens_estimated, result.derail_reason = None
      PROVE  result.completion_tokens <= MaxTokens
  <2>1. derail_reason = None /\ server_tokens = None
    BY <1>1 DEF IInv, Result
  <2>2. chars <= token_cap_chars /\ chars \in Nat
    BY <1>1, <2>1 DEF IInv, Capped, TypeOK
  <2>3. QED BY <1>1, <2>1, <2>2, ProxyFits DEF IInv, Result
<1>2. IInv => EstimateWithinBudget BY <1>1 DEF EstimateWithinBudget
<1>3. QED BY Inductive, <1>2, PTL
=============================================================================
