----------------------------- MODULE SseDecoder -----------------------------
(***************************************************************************)
(* decode_sse (sse.py): the bytes of a streamed completion, cut into       *)
(* chunks at any boundary, become typed events.                            *)
(*                                                                         *)
(* A byte is a symbol of the alphabet Lf, Cr, Sp, Data (the field name     *)
(* "data:"), Done (the text "[DONE]") and any other text.  The decoder     *)
(* looks at a field name only once its line is whole, so where a chunk     *)
(* cuts one does not matter, and a symbol counts as one byte.  A block of  *)
(* data lines stays the sequence of its lines: joining them with newlines  *)
(* loses nothing, for a line holds none.                                   *)
(***************************************************************************)
EXTENDS Integers, Sequences, SequencesExt

CONSTANTS
  Wires,          \* the byte streams a server may send
  Json,           \* block of data lines -> the value it parses to
  Raising,        \* blocks json.loads answers with an error that is no JSONDecodeError
  MaxFrameBytes,  \* _MAX_FRAME_BYTES
  Lf, Cr, Sp, Data, Done,
  None,           \* JSON null and an absent key alike
  Bad             \* a value of a type the contract does not allow

VARIABLES
  wire, received,          \* what the server sends, how much of it has arrived
  buffer, start, search_from,
  data_lines, data_bytes,
  pc,                      \* "read", "drain" or "stopped"
  frames,                  \* what was yielded so far: the events of each frame
  scanned,                 \* how many bytes the newline searches looked at
  why                      \* how the decoder stopped

vars == <<wire, received, buffer, start, search_from, data_lines, data_bytes,
          pc, frames, scanned, why>>

Symbols == UNION {Range(w) : w \in Wires}

ASSUME CapAssumption == MaxFrameBytes \in Nat
ASSUME WiresAssumption == \A w \in Wires : w \in Seq(Symbols)
(* "choices" is a JSON array, unless it is off the contract. *)
ASSUME JsonAssumption ==
  \A p \in DOMAIN Json :
    \/ Json[p] = Bad \/ Json[p].error
    \/ Json[p].choices = Bad \/ Json[p].choices \in Seq(Range(Json[p].choices))
ASSUME NoneAssumption == None \notin {"done", "raised", "end", "flood"}

-----------------------------------------------------------------------------
(* One frame. *)

Error == [event |-> "Error"]

(* _delta_text_events: both channels are checked before either is emitted. *)
delta_text_events(delta) ==
  IF Bad \in {delta.reasoning_content, delta.content} THEN <<Error>>
  ELSE (IF delta.reasoning_content \in {None, ""} THEN <<>>
        ELSE <<[event |-> "Reasoning", text |-> delta.reasoning_content]>>)
       \o (IF delta.content \in {None, ""} THEN <<>>
           ELSE <<[event |-> "Delta", text |-> delta.content]>>)

(* One choice: its texts, then its finish_reason. *)
one_choice_events(choice) ==
  IF \/ choice = Bad
     \/ choice.finish_reason = Bad
     \/ choice.delta = Bad
  THEN <<Error>>
  ELSE delta_text_events(choice.delta)
       \o (IF choice.finish_reason = None THEN <<>>
           ELSE <<[event |-> "Finish", reason |-> choice.finish_reason]>>)

(* _choice_events: one bad choice makes the whole list an Error. *)
choice_events(choices) ==
  IF choices = Bad THEN <<Error>>
  ELSE LET each == [i \in DOMAIN choices |-> one_choice_events(choices[i])]
       IN  IF \E i \in DOMAIN each : Contains(each[i], Error)
           THEN <<Error>> ELSE FlattenSeq(each)

(* _usage_event: none, an Error, or the tokens completed. *)
usage_event(usage) ==
  IF usage = None THEN <<>>
  ELSE IF usage = Bad THEN <<Error>>
  ELSE IF usage.completion_tokens = None THEN <<>>
  ELSE IF usage.completion_tokens = Bad THEN <<Error>>
  ELSE <<[event |-> "Usage", tokens |-> usage.completion_tokens]>>

(* MUTANT: the choices go out before the usage beside them is checked. *)
frame_events_eager(payload) ==
  IF payload \notin DOMAIN Json \/ Json[payload] = Bad \/ Json[payload].error
  THEN <<Error>>
  ELSE choice_events(Json[payload].choices) \o usage_event(Json[payload].usage)

(* A block that ends the decoder instead of giving a frame.  Only a          *)
(* JSONDecodeError is caught: nesting too deep for json.loads, or an integer *)
(* of too many digits, goes through.                                         *)
ends(block) == block = << <<Done>> >> \/ block \in Raising

(* _events: text that does not parse, a value that is no object and an       *)
(* upstream error are one Error each; so is a frame with any part off the    *)
(* contract.  A sound frame gives its choices, then its usage.               *)
frame_events(payload) ==
  IF payload \notin DOMAIN Json \/ Json[payload] = Bad \/ Json[payload].error
  THEN <<Error>>
  ELSE LET choices == choice_events(Json[payload].choices)
           usage == usage_event(Json[payload].usage)
       IN  IF choices = <<Error>> \/ usage = <<Error>> THEN <<Error>>
           ELSE choices \o usage

-----------------------------------------------------------------------------
(* Lines.  Offsets count from 0, as in the code. *)

newlines == {i \in search_from..(Len(buffer) - 1) : buffer[i + 1] = Lf}
newline == CHOOSE i \in newlines : \A j \in newlines : i <= j

(* rstrip(b"\r") drops every trailing carriage return. *)
rstrip(line) ==
  LET kept == {i \in DOMAIN line : line[i] # Cr}
  IN  SubSeq(line, 1, IF kept = {} THEN 0 ELSE CHOOSE i \in kept : \A j \in kept : j <= i)

line_read == rstrip(SubSeq(buffer, start + 1, newline))

is_data(line) == line # <<>> /\ Head(line) = Data

(* The text after "data:", less one leading space. *)
payload_of(line) ==
  IF Len(line) > 1 /\ line[2] = Sp THEN SubSeq(line, 3, Len(line)) ELSE Tail(line)

-----------------------------------------------------------------------------
Init ==
  /\ wire \in Wires /\ received = 0
  /\ buffer = <<>> /\ start = 0 /\ search_from = 0
  /\ data_lines = <<>> /\ data_bytes = 0
  /\ pc = "read" /\ frames = <<>> /\ scanned = 0 /\ why = None

(* The next chunk, of any length. *)
Receive ==
  /\ pc = "read" /\ received < Len(wire)
  /\ \E n \in (received + 1)..Len(wire) :
       /\ buffer' = buffer \o SubSeq(wire, received + 1, n)
       /\ received' = n
  /\ start' = 0
  /\ pc' = "drain"
  /\ UNCHANGED <<wire, search_from, data_lines, data_bytes, frames, scanned, why>>

(* What every iteration of the drain loop does first. *)
TakeLine ==
  /\ pc = "drain" /\ newlines # {}
  /\ scanned' = scanned + (newline + 1 - search_from)
  /\ start' = newline + 1 /\ search_from' = newline + 1
  /\ UNCHANGED <<wire, received, buffer>>

(* A line with text: a data line joins the pending block, any other field    *)
(* and any comment is passed over.                                           *)
FieldLine ==
  /\ TakeLine
  /\ line_read # <<>>
  /\ IF is_data(line_read)
       THEN /\ data_lines' = Append(data_lines, payload_of(line_read))
            /\ data_bytes' = data_bytes + Len(payload_of(line_read))
       ELSE UNCHANGED <<data_lines, data_bytes>>
  /\ UNCHANGED <<pc, frames, why>>

(* A blank line with nothing pending. *)
SkipBlank ==
  /\ TakeLine
  /\ line_read = <<>> /\ data_lines = <<>>
  /\ UNCHANGED <<data_lines, data_bytes, pc, frames, why>>

(* MUTANT: the size of the block outlives the block. *)
Dispatch_keeps_size ==
  /\ TakeLine
  /\ line_read = <<>> /\ data_lines # <<>>
  /\ data_lines' = <<>> /\ UNCHANGED data_bytes
  /\ IF ends(data_lines)
       THEN /\ pc' = "stopped" /\ UNCHANGED frames
            /\ why' = IF data_lines \in Raising THEN "raised" ELSE "done"
       ELSE frames' = Append(frames, frame_events(data_lines)) /\ UNCHANGED <<pc, why>>

(* A blank line closes the pending block: [DONE] ends the stream, an         *)
(* exception of the parser leaves the decoder, anything else is a frame.     *)
Dispatch ==
  /\ TakeLine
  /\ line_read = <<>> /\ data_lines # <<>>
  /\ data_lines' = <<>> /\ data_bytes' = 0
  /\ IF ends(data_lines)
       THEN /\ pc' = "stopped" /\ UNCHANGED frames
            /\ why' = IF data_lines \in Raising THEN "raised" ELSE "done"
       ELSE frames' = Append(frames, frame_events(data_lines)) /\ UNCHANGED <<pc, why>>

(* MUTANT: the search starts over in the retained tail. *)
Compact_rescans ==
  /\ pc = "drain" /\ newlines = {}
  /\ scanned' = scanned + (Len(buffer) - search_from)
  /\ buffer' = SubSeq(buffer, start + 1, Len(buffer))
  /\ search_from' = 0
  /\ IF Len(buffer') + data_bytes > MaxFrameBytes
       THEN pc' = "stopped" /\ why' = "flood" /\ frames' = Append(frames, <<Error>>)
       ELSE pc' = "read" /\ UNCHANGED <<why, frames>>
  /\ UNCHANGED <<wire, received, start, data_lines, data_bytes>>

(* MUTANT: the search resumes past the tail, counted before the compaction. *)
Compact_stale_offset ==
  /\ pc = "drain" /\ newlines = {}
  /\ scanned' = scanned + (Len(buffer) - search_from)
  /\ buffer' = SubSeq(buffer, start + 1, Len(buffer))
  /\ search_from' = Len(buffer)
  /\ IF Len(buffer') + data_bytes > MaxFrameBytes
       THEN pc' = "stopped" /\ why' = "flood" /\ frames' = Append(frames, <<Error>>)
       ELSE pc' = "read" /\ UNCHANGED <<why, frames>>
  /\ UNCHANGED <<wire, received, start, data_lines, data_bytes>>

(* No newline is left: drop the drained lines in one shift, remember that    *)
(* the tail is scanned, and give a flood up.                                 *)
Compact ==
  /\ pc = "drain" /\ newlines = {}
  /\ scanned' = scanned + (Len(buffer) - search_from)
  /\ buffer' = SubSeq(buffer, start + 1, Len(buffer))
  /\ search_from' = Len(buffer')
  /\ IF Len(buffer') + data_bytes > MaxFrameBytes
       THEN pc' = "stopped" /\ why' = "flood" /\ frames' = Append(frames, <<Error>>)
       ELSE pc' = "read" /\ UNCHANGED <<why, frames>>
  /\ UNCHANGED <<wire, received, start, data_lines, data_bytes>>

(* The connection ends, at the end of the wire or before it.  A block that   *)
(* is still pending is not flushed.                                          *)
EndOfStream ==
  /\ pc = "read"
  /\ pc' = "stopped" /\ why' = "end"
  /\ UNCHANGED <<wire, received, buffer, start, search_from, data_lines,
                 data_bytes, frames, scanned>>

Stopped == pc = "stopped" /\ UNCHANGED vars

Next == Receive \/ FieldLine \/ SkipBlank \/ Dispatch \/ Compact \/ EndOfStream \/ Stopped

Spec == Init /\ [][Next]_vars

-----------------------------------------------------------------------------
(* The reference: one pass over the bytes, one at a time, with no buffer.    *)

Fresh == [line |-> <<>>, block |-> <<>>, out |-> <<>>, done |-> FALSE]

ReadByte(at, byte) ==
  IF at.done THEN at
  ELSE IF byte # Lf THEN [at EXCEPT !.line = Append(@, byte)]
  ELSE LET line == rstrip(at.line)
       IN  IF line # <<>>
           THEN [at EXCEPT !.line = <<>>,
                           !.block = IF is_data(line) THEN Append(@, payload_of(line)) ELSE @]
           ELSE [line |-> <<>>, block |-> <<>>,
                 done |-> at.block # <<>> /\ ends(at.block),
                 out |-> IF at.block = <<>> \/ ends(at.block) THEN at.out
                         ELSE Append(at.out, frame_events(at.block))]

ReadWhole(bytes) ==
  LET after[i \in 0..Len(bytes)] ==
        IF i = 0 THEN Fresh ELSE ReadByte(after[i - 1], bytes[i])
  IN  after[Len(bytes)]

-----------------------------------------------------------------------------
(* Properties. *)

(* Where the chunks are cut never shows: between chunks the events are those *)
(* of reading the received bytes one at a time, [DONE] and an exception of   *)
(* the parser stop both at the same place, and a flood adds one Error and    *)
(* nothing else (decode_sse).                                                *)
DecodesAsWhole ==
  LET whole == ReadWhole(SubSeq(wire, 1, received))
  IN  pc # "drain" =>
        /\ whole.done <=> why \in {"done", "raised"}
        /\ frames = IF why = "flood" THEN Append(whole.out, <<Error>>) ELSE whole.out

(* Linear time: no byte is looked at twice by the search for a newline, even *)
(* when a line arrives a byte at a time.                                     *)
ScannedOnce == scanned <= received

Pending(lines) ==
  LET total[i \in 0..Len(lines)] == IF i = 0 THEN 0 ELSE total[i - 1] + Len(lines[i])
  IN  total[Len(lines)]

(* Bounded memory: the decoder reads on exactly while the retained tail and  *)
(* the text of the pending block fit the cap; nothing already dispatched is  *)
(* held against a later frame.                                               *)
FloodIsCapped ==
  pc # "drain" /\ why \notin {"done", "raised"} =>
    (why = "flood" <=> Len(buffer) + Pending(data_lines) > MaxFrameBytes)

(* All or nothing (D-SSE-002): a frame of the stream yields one Error alone  *)
(* or events none of which is an Error, so no text of a frame that is off    *)
(* the contract reaches the reply.                                           *)
AllOrNothing ==
  \A i \in DOMAIN frames : Contains(frames[i], Error) => frames[i] = <<Error>>
=============================================================================
