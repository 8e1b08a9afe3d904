----------------------------- MODULE DerailGuard -----------------------------
(***************************************************************************)
(* The content half of the derail guard (derail.py): the token cap and the *)
(* detector of repeated lines, fed one decoded text delta at a time.  The  *)
(* clock half is in module Generation.                                     *)
(*                                                                         *)
(* The model server chooses where a text is cut into deltas; the guard is  *)
(* to judge the text, not the cuts.                                        *)
(***************************************************************************)
EXTENDS Integers, Sequences, SequencesExt, FiniteSetsExt

CONSTANTS
  Letters,               \* the characters of a line
  NL,                    \* the newline
  MaxDelta,              \* BOUND: the longest delta
  TokenCapChars,         \* max_tokens * CHARS_PER_TOKEN
  REPETITION_NGRAM, REPETITION_THRESHOLD, WARMUP_CHARS,
  None

VARIABLES
  pending,               \* the characters since the last completed line
  line_base,             \* absolute position of pending's start
  recent,                \* the last REPETITION_THRESHOLD armed lines
  chars,
  tripped,
  text                   \* HISTORY: everything fed

vars == <<pending, line_base, recent, chars, tripped, text>>

Chars == Letters \cup {NL}

ASSUME GuardAssumption ==
  /\ NL \notin Letters
  /\ MaxDelta \in Nat \ {0} /\ TokenCapChars \in Nat /\ WARMUP_CHARS \in Nat
  /\ REPETITION_NGRAM \in Nat \ {0} /\ REPETITION_THRESHOLD \in Nat \ {0}
  /\ None \notin {"token_cap", "repetition"}

Deltas == SeqOf(Chars, MaxDelta) \ {<<>>}

-----------------------------------------------------------------------------
Breaks(s) == {i \in DOMAIN s : s[i] = NL}

(* Where the line that ends at break i begins. *)
LineStart(s, i) == Max({0} \cup {j \in Breaks(s) : j < i}) + 1

(* What follows the last newline. *)
remainder(s) == SubSeq(s, Max({0} \cup Breaks(s)) + 1, Len(s))

(* A line that ends at i in s, which starts at position base, counts if it   *)
(* ends past the warmup and is long enough.  Other lines are transparent.    *)
Counts(s, base, i) ==
  i \in Breaks(s) /\ base + i > WARMUP_CHARS /\ i - LineStart(s, i) >= REPETITION_NGRAM

(* The lines of s that count, in their order. *)
counted_lines(s, base) ==
  LET upto[i \in 0..Len(s)] ==
        IF i = 0 THEN <<>>
        ELSE IF Counts(s, base, i) THEN Append(upto[i - 1], SubSeq(s, LineStart(s, i), i - 1))
        ELSE upto[i - 1]
  IN  upto[Len(s)]

(* The places where a run of identical lines reaches the threshold. *)
RunEnds(lines) ==
  {k \in DOMAIN lines : /\ k >= REPETITION_THRESHOLD
                        /\ \A j \in (k - REPETITION_THRESHOLD + 1)..k : lines[j] = lines[k]}

(* deque(maxlen=REPETITION_THRESHOLD). *)
ring(lines) ==
  SubSeq(lines, Max({1, Len(lines) - REPETITION_THRESHOLD + 1}), Len(lines))

-----------------------------------------------------------------------------
Init ==
  /\ pending = <<>> /\ line_base = 0 /\ recent = <<>>
  /\ chars = 0 /\ tripped = None
  /\ text = <<>>

(* MUTANT: a line is looked for in the delta alone. *)
scan_for_repetition_delta_only(delta) ==
  LET lines == recent \o counted_lines(delta, line_base)
      hits == {k \in RunEnds(lines) : k > Len(recent)}
  IN  /\ pending' = remainder(delta)
      /\ tripped' = IF hits # {} THEN "repetition" ELSE None
      /\ recent' = ring(lines)
      /\ line_base' = line_base + Len(delta) - Len(pending')

(* _scan_for_repetition: the lines completed across the deltas so far join   *)
(* the ring one by one; the first full ring of one line trips.               *)
scan_for_repetition(delta) ==
  LET buffer == pending \o delta
      lines == recent \o counted_lines(buffer, line_base)
      hits == {k \in RunEnds(lines) : k > Len(recent)}
  IN  /\ pending' = remainder(buffer)
      /\ IF hits # {}
           THEN /\ tripped' = "repetition"
                /\ recent' = ring(SubSeq(lines, 1, Min(hits)))
                /\ UNCHANGED line_base
           ELSE /\ tripped' = None
                /\ recent' = ring(lines)
                /\ line_base' = line_base + Len(buffer) - Len(pending')

(* feed, between two clock verdicts.  The caller stops at the first verdict. *)
feed(delta) ==
  /\ tripped = None
  /\ chars' = chars + Len(delta)
  /\ IF chars' > TokenCapChars
       THEN tripped' = "token_cap" /\ UNCHANGED <<pending, line_base, recent>>
       ELSE scan_for_repetition(delta)
  /\ text' = text \o delta

Latched == tripped # None /\ UNCHANGED vars

Next == (\E delta \in Deltas : feed(delta)) \/ Latched

Spec == Init /\ [][Next]_vars

-----------------------------------------------------------------------------
(* The verdict on a whole text, with no mention of deltas. *)
OverCap(s) == Len(s) > TokenCapChars
Repeats(s) == RunEnds(counted_lines(s, 0)) # {}

(* However the text was cut, the guard has tripped exactly when the text fed *)
(* so far exceeds the cap or repeats a line often enough: no cut hides a     *)
(* derail, and none invents one (D-DERAIL-002).                              *)
TripIsChunkFree == (tripped # None) <=> (OverCap(text) \/ Repeats(text))
=============================================================================
