----------------------------- MODULE SseProofs -----------------------------
(***************************************************************************)
(* The decoder, for every stream and every cut into chunks: it scans every *)
(* byte once, yields what the byte-at-a-time reference yields, gives up    *)
(* exactly at the cap and never mixes an Error with other events.          *)
(***************************************************************************)
EXTENDS SseDecoder, SequenceTheorems, WellFoundedInduction, TLAPS

-----------------------------------------------------------------------------
(* Induction. *)

(* Every nonempty set of naturals has a least element. *)
LEMMA LeastNat ==
  ASSUME NEW T \in SUBSET Nat, T # {}
  PROVE  \E i \in T : \A j \in T : i <= j
<1> DEFINE R == OpToRel(<, Nat)
<1>1. IsWellFoundedOn(R, Nat) BY NatLessThanWellFounded
<1>2. PICK i \in T : \A j \in T : ~(<<j, i>> \in R)
  <2> HIDE DEF R
  <2> QED BY <1>1, WFMin
<1>3. \A j \in T : i <= j
  <2> SUFFICES ASSUME NEW j \in T PROVE i <= j OBVIOUS
  <2>1. i \in Nat /\ j \in Nat OBVIOUS
  <2>2. ~(j < i) BY <1>2, <2>1 DEF OpToRel
  <2> QED BY <2>1, <2>2
<1> QED BY <1>3

(* Induction up to a bound, for a set instead of a predicate. *)
LEMMA Induction ==
  ASSUME NEW m \in Nat, NEW S, 0 \in S, \A k \in 1..m : k - 1 \in S => k \in S
  PROVE  \A k \in 0..m : k \in S
<1> SUFFICES ASSUME NEW k \in 0..m, k \notin S PROVE FALSE OBVIOUS
<1> DEFINE T == {j \in 0..m : j \notin S}
<1>1. T \in SUBSET Nat /\ T # {} OBVIOUS
<1>2. PICK i \in T : \A j \in T : i <= j BY <1>1, LeastNat
<1>3. i \in 0..m /\ i # 0 /\ i \notin S OBVIOUS
<1>4. i \in 1..m /\ i - 1 \in 0..m /\ i - 1 \notin T BY <1>2, <1>3
<1>5. i - 1 \in S BY <1>4
<1> QED BY <1>3, <1>4, <1>5

-----------------------------------------------------------------------------
(* The offsets. *)

(* The offsets stay inside the buffer, and every byte received is either     *)
(* scanned or still ahead of the search; between chunks none is ahead.       *)
Offsets ==
  /\ wire \in Seq(Symbols) /\ buffer \in Seq(Symbols)
  /\ received \in 0..Len(wire) /\ scanned \in Nat
  /\ start \in Nat /\ search_from \in 0..Len(buffer)
  /\ pc = "drain" => start <= Len(buffer)
  /\ scanned + (Len(buffer) - search_from) = received
  /\ pc = "read" => search_from = Len(buffer)

(* buffer.find returns the first newline where there is one. *)
LEMMA FirstNewline ==
  ASSUME Offsets, newlines # {}
  PROVE  /\ newline \in newlines /\ newline \in search_from..(Len(buffer) - 1)
         /\ \A j \in newlines : newline <= j
<1>1. newlines \subseteq search_from..(Len(buffer) - 1) BY DEF newlines
<1>2. search_from \in Nat /\ Len(buffer) \in Nat BY DEF Offsets
<1>3. newlines \in SUBSET Nat BY <1>1, <1>2
<1>4. \E i \in newlines : \A j \in newlines : i <= j BY <1>3, LeastNat
<1>5. newline \in newlines /\ \A j \in newlines : newline <= j BY <1>4 DEF newline
<1> QED BY <1>1, <1>5

(* Every line taken moves both offsets past its newline. *)
LEMMA TakeLineKeeps ==
  ASSUME Offsets, TakeLine, pc' # "read" PROVE Offsets'
<1>1. newline \in search_from..(Len(buffer) - 1) BY FirstNewline DEF TakeLine
<1>2. newline \in Int /\ search_from \in Nat /\ Len(buffer) \in Nat
  BY <1>1 DEF Offsets
<1> QED BY <1>1, <1>2 DEF Offsets, TakeLine

(* A chunk grows the buffer by as many bytes as it adds to those received. *)
LEMMA ReceiveKeeps == ASSUME Offsets, Receive PROVE Offsets'
<1>1. PICK n \in (received + 1)..Len(wire) :
        buffer' = buffer \o SubSeq(wire, received + 1, n) /\ received' = n
  BY DEF Receive
<1> DEFINE chunk == SubSeq(wire, received + 1, n)
<1>2. chunk \in Seq(Symbols) /\ Len(chunk) = n - received
  BY <1>1 DEF Offsets
<1>3. buffer' \in Seq(Symbols) /\ Len(buffer') = Len(buffer) + (n - received)
  <2> HIDE DEF chunk
  <2>1. buffer' = buffer \o chunk BY <1>1 DEF chunk
  <2>2. buffer \in Seq(Symbols) BY DEF Offsets
  <2>3. buffer \o chunk \in Seq(Symbols) /\ Len(buffer \o chunk) = Len(buffer) + Len(chunk)
    BY <1>2, <2>2, ConcatProperties
  <2> QED BY <1>2, <2>1, <2>3
<1>4. n \in Nat /\ n <= Len(wire) /\ Len(wire) \in Nat /\ Len(buffer) \in Nat
      /\ received < n
  BY <1>1 DEF Offsets
<1>5. wire' = wire /\ search_from' = search_from /\ scanned' = scanned
      /\ start' = 0 /\ pc' = "drain" /\ received' = n
  BY <1>1 DEF Receive
<1> HIDE DEF chunk
<1>6. wire' \in Seq(Symbols) /\ buffer' \in Seq(Symbols) /\ scanned' \in Nat /\ start' \in Nat
  BY <1>3, <1>5 DEF Offsets
<1>7. received' \in 0..Len(wire') BY <1>4, <1>5
<1>8. search_from \in Nat /\ search_from <= Len(buffer) /\ scanned \in Nat /\ received \in Nat
      /\ scanned + (Len(buffer) - search_from) = received
  BY <1>4 DEF Offsets
<1>9. Len(buffer') \in Nat /\ search_from' \in 0..Len(buffer') /\ start' <= Len(buffer')
  BY <1>3, <1>4, <1>5, <1>8
<1>10. scanned' + (Len(buffer') - search_from') = received'
  BY <1>3, <1>4, <1>5, <1>8
<1> QED BY <1>5, <1>6, <1>7, <1>9, <1>10 DEF Offsets

(* The shift keeps the tail, all of it scanned. *)
LEMMA CompactKeeps == ASSUME Offsets, Compact PROVE Offsets'
<1>1. buffer' = SubSeq(buffer, start + 1, Len(buffer)) BY DEF Compact
<1>2. start \in 0..Len(buffer) /\ Len(buffer) \in Nat /\ buffer \in Seq(Symbols)
  BY DEF Offsets, Compact
<1>3. buffer' \in Seq(Symbols) /\ Len(buffer') = Len(buffer) - start
  BY <1>1, <1>2
<1>4. wire' = wire /\ received' = received /\ start' = start
      /\ search_from' = Len(buffer') /\ scanned' = scanned + (Len(buffer) - search_from)
      /\ pc' # "drain"
  BY DEF Compact
<1> QED BY <1>2, <1>3, <1>4 DEF Offsets

(* The bookkeeping of decode_sse is inductive. *)
THEOREM OffsetsHold == Spec => []Offsets
<1>1. Init => Offsets BY WiresAssumption DEF Init, Offsets
<1>2. ASSUME Offsets, [Next]_vars PROVE Offsets'
  <2>1. CASE Receive BY <1>2, <2>1, ReceiveKeeps
  <2>2. CASE FieldLine \/ SkipBlank
    BY <1>2, <2>2, TakeLineKeeps DEF FieldLine, SkipBlank, TakeLine
  <2>3. CASE Dispatch
    BY <1>2, <2>3, TakeLineKeeps DEF Dispatch, TakeLine
  <2>4. CASE Compact BY <1>2, <2>4, CompactKeeps
  <2>5. CASE EndOfStream BY <1>2, <2>5 DEF EndOfStream, Offsets
  <2>6. CASE UNCHANGED vars BY <1>2, <2>6 DEF vars, Offsets
  <2>7. QED BY <1>2, <2>1, <2>2, <2>3, <2>4, <2>5, <2>6 DEF Next, Stopped
<1>3. QED BY <1>1, <1>2, PTL DEF Spec

(* Linear time, for every stream and however it is cut: decode_sse looks at  *)
(* no byte twice for a newline.                                              *)
THEOREM ScansOnce == Spec => []ScannedOnce
<1>1. Offsets => ScannedOnce BY DEF Offsets, ScannedOnce
<1>2. QED BY OffsetsHold, <1>1, PTL

-----------------------------------------------------------------------------
(* The reference. *)

(* The states of the reference, byte by byte. *)
Reads(bytes, f) ==
  f = [i \in 0..Len(bytes) |-> IF i = 0 THEN Fresh ELSE ReadByte(f[i - 1], bytes[i])]

(* They exist, for every sequence of bytes: by induction on its length. *)
LEMMA ReadsExists ==
  ASSUME NEW S, NEW bytes \in Seq(S)
  PROVE  \E f : Reads(bytes, f)
<1> DEFINE N == Len(bytes)
           G(f, m) == /\ f = [i \in 0..m |-> f[i]] /\ f[0] = Fresh
                      /\ \A i \in 1..m : f[i] = ReadByte(f[i - 1], bytes[i])
           T == {m \in 0..N : \E f : G(f, m)}
<1>1. N \in Nat OBVIOUS
<1>2. 0 \in T
  <2>1. G([i \in 0..0 |-> Fresh], 0) OBVIOUS
  <2> HIDE DEF G
  <2> QED BY <1>1, <2>1
<1>3. ASSUME NEW k \in 1..N, k - 1 \in T PROVE k \in T
  <2>1. PICK f : G(f, k - 1) BY <1>3
  <2> DEFINE g == [i \in 0..k |-> IF i = k THEN ReadByte(f[k - 1], bytes[k]) ELSE f[i]]
  <2>2. g = [i \in 0..k |-> g[i]] OBVIOUS
  <2>3. g[0] = Fresh BY <2>1
  <2>4. ASSUME NEW i \in 1..k PROVE g[i] = ReadByte(g[i - 1], bytes[i])
    <3>1. CASE i = k BY <3>1
    <3>2. CASE i # k 
      <4>1. i \in 1..(k - 1) /\ g[i] = f[i] /\ g[i - 1] = f[i - 1] BY <3>2
      <4> QED BY <2>1, <4>1
    <3> QED BY <3>1, <3>2
  <2> HIDE DEF g
  <2>5. G(g, k) BY <2>2, <2>3, <2>4
  <2>6. k \in 0..N BY <1>1
  <2> HIDE DEF G
  <2> QED BY <2>5, <2>6
<1>4. N \in T
  <2> HIDE DEF N, T
  <2>1. \A k \in 1..N : k - 1 \in T => k \in T BY <1>3
  <2>2. \A k \in 0..N : k \in T BY <1>1, <1>2, <2>1, Induction
  <2> QED BY <1>1, <2>2
<1>5. PICK f : G(f, N) BY <1>4
<1>6. f = [i \in 0..N |-> IF i = 0 THEN Fresh ELSE ReadByte(f[i - 1], bytes[i])]
  BY <1>1, <1>5
<1> QED BY <1>6 DEF Reads

(* ReadWhole is the last of them. *)
LEMMA WholeReads ==
  ASSUME NEW S, NEW bytes \in Seq(S)
  PROVE  \E f : Reads(bytes, f) /\ ReadWhole(bytes) = f[Len(bytes)]
<1> DEFINE f == CHOOSE g : g = [i \in 0..Len(bytes) |-> IF i = 0 THEN Fresh ELSE ReadByte(g[i - 1], bytes[i])]
<1>1. \E g : g = [i \in 0..Len(bytes) |-> IF i = 0 THEN Fresh ELSE ReadByte(g[i - 1], bytes[i])]
  BY ReadsExists DEF Reads
<1>2. f = [i \in 0..Len(bytes) |-> IF i = 0 THEN Fresh ELSE ReadByte(f[i - 1], bytes[i])]
  BY <1>1, Zenon
<1>3. ReadWhole(bytes) = f[Len(bytes)]
  BY DEF ReadWhole
<1> QED BY <1>2, <1>3 DEF Reads

(* The reference after the first n bytes. *)
At(w, n) == ReadWhole(SubSeq(w, 1, n))

(* The reference reads a prefix as it reads the whole: one byte at a time. *)
LEMMA AtStep ==
  ASSUME NEW S, NEW w \in Seq(S)
  PROVE  /\ At(w, 0) = Fresh
         /\ \A n \in 1..Len(w) : At(w, n) = ReadByte(At(w, n - 1), w[n])
<1>1. PICK f : Reads(w, f) BY ReadsExists
<1>2. Len(w) \in Nat /\ f[0] = Fresh /\ \A i \in 1..Len(w) : f[i] = ReadByte(f[i - 1], w[i])
  BY <1>1 DEF Reads
<1>3. ASSUME NEW n \in 0..Len(w) PROVE At(w, n) = f[n]
  <2> DEFINE b == SubSeq(w, 1, n)
  <2>1. b \in Seq(S) /\ Len(b) = n /\ \A i \in 1..n : b[i] = w[i]
    BY <1>2
  <2>2. PICK h : Reads(b, h) /\ ReadWhole(b) = h[n]
    BY <2>1, WholeReads
  <2>3. h[0] = Fresh /\ \A i \in 1..n : h[i] = ReadByte(h[i - 1], w[i])
    BY <2>1, <2>2 DEF Reads
  <2> DEFINE T == {k \in 0..n : h[k] = f[k]}
  <2>4. 0 \in T BY <1>2, <2>3
  <2>5. ASSUME NEW k \in 1..n, k - 1 \in T PROVE k \in T
    <3>1. h[k - 1] = f[k - 1] /\ k \in 1..Len(w) BY <1>2, <2>5
    <3>2. h[k] = f[k] BY <1>2, <2>3, <3>1
    <3> QED BY <3>2
  <2>6. n \in T
    <3> HIDE DEF T
    <3>1. \A k \in 1..n : k - 1 \in T => k \in T BY <2>5
    <3>2. \A k \in 0..n : k \in T BY <2>4, <3>1, Induction
    <3> QED BY <3>2
  <2>7. h[n] = f[n] BY <2>6
  <2> QED BY <2>2, <2>7 DEF At
<1>4. At(w, 0) = Fresh BY <1>2, <1>3
<1>5. ASSUME NEW n \in 1..Len(w) PROVE At(w, n) = ReadByte(At(w, n - 1), w[n])
  <2>1. n \in 0..Len(w) /\ n - 1 \in 0..Len(w) BY <1>2
  <2>2. At(w, n) = f[n] /\ At(w, n - 1) = f[n - 1] BY <1>3, <2>1
  <2> QED BY <1>2, <2>2
<1> QED BY <1>4, <1>5

(* Where the reference stands at the start of a line. *)
LineStart(block, out) == [line |-> <<>>, block |-> block, out |-> out, done |-> FALSE]

(* Up to the next newline the reference only collects the line. *)
LEMMA AtText ==
  ASSUME NEW S, NEW w \in Seq(S), NEW c \in 0..Len(w), NEW n \in c..Len(w),
         NEW block, NEW out, At(w, c) = LineStart(block, out),
         \A i \in (c + 1)..n : w[i] # Lf
  PROVE  At(w, n) = [line |-> SubSeq(w, c + 1, n), block |-> block, out |-> out, done |-> FALSE]
<1> DEFINE rec(k) == [line |-> SubSeq(w, c + 1, c + k), block |-> block, out |-> out, done |-> FALSE]
           m == n - c
           T == {k \in 0..m : At(w, c + k) = rec(k)}
<1>1. Len(w) \in Nat /\ c \in Nat /\ n \in Nat /\ m \in Nat /\ c + m = n OBVIOUS
<1>2. 0 \in T
  <2>1. c + 0 = c /\ c + 1 > c /\ c + 1 \in Int BY <1>1
  <2>2. SubSeq(w, c + 1, c) = <<>> BY <1>1, <2>1, SubSeqEmpty
  <2>3. At(w, c) = [line |-> SubSeq(w, c + 1, c), block |-> block, out |-> out, done |-> FALSE]
    BY <2>2 DEF LineStart
  <2>4. At(w, c + 0) = rec(0) BY <2>1, <2>3
  <2> QED BY <1>1, <2>4
<1>3. ASSUME NEW k \in 1..m, k - 1 \in T PROVE k \in T
  <2> DEFINE i == c + k
  <2>1. i \in 1..Len(w) /\ i \in (c + 1)..n /\ c + (k - 1) = i - 1 /\ k \in 0..m BY <1>1
  <2>2. At(w, i - 1) = rec(k - 1) BY <1>3, <2>1
  <2>3. At(w, i) = ReadByte(rec(k - 1), w[i]) /\ w[i] # Lf BY <2>1, <2>2, AtStep
  <2>4. SubSeq(w, c + 1, i) = Append(SubSeq(w, c + 1, i - 1), w[i])
    <3>1. c + 1 \in 1..Len(w) /\ i \in (c + 1)..Len(w) BY <1>1, <2>1
    <3>2. SubSeq(w, c + 1, i) = SubSeq(w, c + 1, i - 1) \o <<w[i]>>
      BY <3>1, SubSeqRecursiveSecond
    <3>3. SubSeq(w, c + 1, i - 1) \in Seq(S) /\ w[i] \in S BY <2>1, <3>1
    <3> QED BY <3>2, <3>3, AppendIsConcat
  <2>5. rec(k - 1).line = SubSeq(w, c + 1, i - 1) BY <2>1
  <2>6. ReadByte(rec(k - 1), w[i]) = rec(k) BY <2>3, <2>4, <2>5 DEF ReadByte
  <2> QED BY <2>1, <2>3, <2>6
<1>4. m \in T
  <2> HIDE DEF m, T
  <2>1. \A k \in 1..m : k - 1 \in T => k \in T BY <1>3
  <2>2. \A k \in 0..m : k \in T BY <1>1, <1>2, <2>1, Induction
  <2> QED BY <1>1, <2>2
<1> QED BY <1>1, <1>4

(* Nothing is read after [DONE]. *)
LEMMA AtDone ==
  ASSUME NEW S, NEW w \in Seq(S), NEW c \in 0..Len(w), NEW n \in c..Len(w), At(w, c).done
  PROVE  At(w, n) = At(w, c)
<1> DEFINE m == n - c
           T == {k \in 0..m : At(w, c + k) = At(w, c)}
<1>1. Len(w) \in Nat /\ c \in Nat /\ n \in Nat /\ m \in Nat /\ c + m = n OBVIOUS
<1>2. 0 \in T BY <1>1
<1>3. ASSUME NEW k \in 1..m, k - 1 \in T PROVE k \in T
  <2>1. c + k \in 1..Len(w) /\ c + (k - 1) = (c + k) - 1 /\ k \in 0..m BY <1>1
  <2>2. At(w, (c + k) - 1) = At(w, c) BY <1>3, <2>1
  <2>3. At(w, c + k) = ReadByte(At(w, c), w[c + k]) BY <2>1, <2>2, AtStep
  <2>4. At(w, c + k) = At(w, c) BY <2>3 DEF ReadByte
  <2> QED BY <2>1, <2>4
<1>4. m \in T
  <2> HIDE DEF m, T
  <2>1. \A k \in 1..m : k - 1 \in T => k \in T BY <1>3
  <2>2. \A k \in 0..m : k \in T BY <1>1, <1>2, <2>1, Induction
  <2> QED BY <1>1, <2>2
<1> QED BY <1>1, <1>4

-----------------------------------------------------------------------------
(* The decoder follows the reference. *)

(* How many bytes the shifts have dropped, and the byte an offset stands for *)
(* therefore: buffer[i] is wire[base + i].                                   *)
base == received - Len(buffer)

(* No newline among the bytes i..j of the wire. *)
Quiet(i, j) == \A k \in i..j : wire[k] # Lf

(* Between chunks what is retained is one line begun, and the reference      *)
(* stood at its start with the same block and the same events.               *)
BetweenChunks == At(wire, base) = LineStart(data_lines, frames) /\ Quiet(base + 1, received)

(* The line the decoder is about to take starts at `start`, and nothing from *)
(* there to `search_from` ends it; a stopped decoder stopped where the       *)
(* reference is done, between chunks, or there with one Error more.          *)
Decoded ==
  /\ Len(buffer) <= received
  /\ \A i \in 1..Len(buffer) : buffer[i] = wire[base + i]
  /\ pc \in {"read", "drain", "stopped"}
  /\ pc = "read" => why = None /\ BetweenChunks
  /\ pc = "drain" =>
       /\ why = None /\ start <= search_from
       /\ At(wire, base + start) = LineStart(data_lines, frames)
       /\ Quiet(base + start + 1, base + search_from)
  /\ pc = "stopped" =>
       \/ why \in {"done", "raised"} /\ At(wire, received).done /\ At(wire, received).out = frames
       \/ why = "end" /\ BetweenChunks
       \/ /\ why = "flood" /\ Quiet(base + 1, received)
          /\ \E before : /\ frames = Append(before, <<Error>>)
                         /\ At(wire, base) = LineStart(data_lines, before)

(* What the proofs below need of the two invariants, as plain arithmetic. *)
LEMMA Numbers ==
  ASSUME Offsets, Decoded
  PROVE  /\ wire \in Seq(Symbols) /\ buffer \in Seq(Symbols)
         /\ Len(wire) \in Nat /\ Len(buffer) \in Nat /\ received \in Nat /\ received <= Len(wire)
         /\ base \in Nat /\ base + Len(buffer) = received
         /\ start \in Nat /\ search_from \in Nat /\ search_from <= Len(buffer)
BY DEF Offsets, Decoded, base

(* The bytes i + 1 to j of a sequence. *)
LEMMA Piece ==
  ASSUME NEW S, NEW s \in Seq(S), NEW i \in 0..Len(s), NEW j \in i..Len(s)
  PROVE  /\ SubSeq(s, i + 1, j) \in Seq(S) /\ Len(SubSeq(s, i + 1, j)) = j - i
         /\ \A k \in 1..(j - i) : SubSeq(s, i + 1, j)[k] = s[i + k]
<1>1. i \in Nat /\ j \in Nat /\ Len(s) \in Nat /\ i <= j /\ j <= Len(s) OBVIOUS
<1>2. \A m \in (i + 1)..j : s[m] \in S BY <1>1
<1>3. SubSeq(s, i + 1, j) \in Seq(S) BY <1>1, <1>2
<1>4. Len(SubSeq(s, i + 1, j)) = j - i BY <1>1
<1>5. ASSUME NEW k \in 1..(j - i) PROVE SubSeq(s, i + 1, j)[k] = s[i + k]
  BY <1>1
<1> QED BY <1>3, <1>4, <1>5

(* A piece of the buffer is the piece of the wire it stands for. *)
LEMMA SamePiece ==
  ASSUME Offsets, Decoded, NEW i \in 0..Len(buffer), NEW j \in i..Len(buffer)
  PROVE  SubSeq(buffer, i + 1, j) = SubSeq(wire, base + i + 1, base + j)
<1> DEFINE a == SubSeq(buffer, i + 1, j)
           b == SubSeq(wire, base + i + 1, base + j)
<1>1. i \in Nat /\ j \in Nat /\ i <= j /\ j <= Len(buffer) BY Numbers
<1>2. a \in Seq(Symbols) /\ Len(a) = j - i /\ \A k \in 1..(j - i) : a[k] = buffer[i + k]
  BY Numbers, Piece
<1>3. b \in Seq(Symbols) /\ Len(b) = j - i /\ \A k \in 1..(j - i) : b[k] = wire[base + (i + k)]
  <2> DEFINE p == base + i
             q == base + j
  <2>1. p \in 0..Len(wire) /\ q \in p..Len(wire) /\ q - p = j - i
        /\ \A k \in 1..(j - i) : p + k = base + (i + k)
    BY <1>1, Numbers
  <2>2. b = SubSeq(wire, p + 1, q) OBVIOUS
  <2> HIDE DEF p, q, b
  <2>3. b \in Seq(Symbols) /\ Len(b) = q - p /\ \A k \in 1..(q - p) : b[k] = wire[p + k]
    BY <2>1, <2>2, Numbers, Piece
  <2> QED BY <2>1, <2>3
<1>4. \A k \in 1..(j - i) : a[k] = b[k]
  <2> SUFFICES ASSUME NEW k \in 1..(j - i) PROVE a[k] = b[k] OBVIOUS
  <2>1. i + k \in 1..Len(buffer) BY <1>1, Numbers
  <2>2. buffer[i + k] = wire[base + (i + k)] BY <2>1 DEF Decoded
  <2> HIDE DEF a, b
  <2> QED BY <1>2, <1>3, <2>2
<1> HIDE DEF a, b
<1>5. a = b BY <1>2, <1>3, <1>4, SeqEqual
<1> QED BY <1>5 DEF a, b

(* A line is taken as the reference takes it. *)
LEMMA LineTaken ==
  ASSUME Offsets, Decoded, TakeLine
  PROVE  /\ base + newline + 1 \in 0..received
         /\ At(wire, base + newline + 1) =
              ReadByte([line |-> SubSeq(buffer, start + 1, newline), block |-> data_lines,
                        out |-> frames, done |-> FALSE], Lf)
<1> DEFINE c == base + start
           n == base + newline
<1>1. /\ newline \in newlines /\ newline \in search_from..(Len(buffer) - 1)
      /\ \A j \in newlines : newline <= j
  BY FirstNewline DEF TakeLine
<1>2. newline \in Nat /\ search_from <= newline /\ newline < Len(buffer)
      /\ start <= search_from
  BY <1>1, Numbers DEF Decoded, TakeLine
<1>3. c \in 0..Len(wire) /\ n \in c..Len(wire) /\ n + 1 \in 1..Len(wire) /\ n + 1 \in 0..received
      /\ n + 1 = base + (newline + 1)
  BY <1>2, Numbers
<1>4. \A k \in (c + 1)..n : wire[k] # Lf
  <2> SUFFICES ASSUME NEW k \in (c + 1)..n PROVE wire[k] # Lf OBVIOUS
  <2>1. CASE k <= base + search_from
    BY <1>2, <2>1, Numbers DEF Decoded, TakeLine, Quiet
  <2>2. CASE k > base + search_from
    <3> DEFINE j == k - base - 1
    <3>1. j \in search_from..(Len(buffer) - 1) /\ j < newline /\ j + 1 \in 1..Len(buffer)
          /\ base + (j + 1) = k
      BY <1>2, <2>2, Numbers
    <3>2. buffer[j + 1] = wire[k] BY <3>1 DEF Decoded
    <3>3. j \notin newlines BY <1>1, <1>2, <3>1
    <3> HIDE DEF j
    <3> QED BY <3>1, <3>2, <3>3 DEF newlines
  <2> QED BY <1>3, <2>1, <2>2, Numbers
<1>5. At(wire, c) = LineStart(data_lines, frames) BY DEF Decoded, TakeLine
<1>6. wire[n + 1] = Lf
  <2>1. newline + 1 \in 1..Len(buffer) BY <1>2, Numbers
  <2>2. buffer[newline + 1] = wire[base + (newline + 1)] BY <2>1 DEF Decoded
  <2>3. buffer[newline + 1] = Lf BY <1>1 DEF newlines
  <2> QED BY <1>3, <2>2, <2>3
<1>7. SubSeq(buffer, start + 1, newline) = SubSeq(wire, c + 1, n)
  <2>1. start \in 0..Len(buffer) /\ newline \in start..Len(buffer) BY <1>2, Numbers
  <2> QED BY <2>1, SamePiece
<1> HIDE DEF c, n
<1>8. At(wire, n) = [line |-> SubSeq(wire, c + 1, n), block |-> data_lines,
                     out |-> frames, done |-> FALSE]
  BY <1>3, <1>4, <1>5, Numbers, AtText
<1>9. At(wire, n + 1) = ReadByte(At(wire, n), Lf)
  <2>1. (n + 1) - 1 = n BY <1>3, Numbers DEF n
  <2> QED BY <1>3, <1>6, <2>1, Numbers, AtStep
<1>10. At(wire, n + 1) = ReadByte([line |-> SubSeq(buffer, start + 1, newline),
          block |-> data_lines, out |-> frames, done |-> FALSE], Lf)
  BY <1>7, <1>8, <1>9
<1>11. n + 1 = base + newline + 1 BY DEF n
<1> QED BY <1>3, <1>10, <1>11

(* After a line that goes on draining, the reference stands at a line start. *)
LEMMA LineKeeps ==
  ASSUME Offsets, Decoded, TakeLine, pc' = "drain", why' = why,
         At(wire, base + newline + 1) = LineStart(data_lines', frames')
  PROVE  Decoded'
<1>1. newline \in search_from..(Len(buffer) - 1) BY FirstNewline DEF TakeLine
<1>2. newline \in Nat BY <1>1, Numbers
<1>3. wire' = wire /\ received' = received /\ buffer' = buffer /\ base' = base
      /\ start' = newline + 1 /\ search_from' = newline + 1
  BY DEF TakeLine, base
<1>4. base + newline + 1 = base + (newline + 1) BY <1>2, Numbers
<1>5. At(wire', base' + start') = LineStart(data_lines', frames') BY <1>3, <1>4
<1>6. Quiet(base + start + 1, base + search_from)'
  BY <1>2, <1>3, Numbers DEF Quiet
<1>7. why' = None BY DEF Decoded, TakeLine
<1>8. start' <= search_from' BY <1>2, <1>3
<1>9. Len(buffer') <= received' /\ \A i \in 1..Len(buffer') : buffer'[i] = wire'[base' + i]
  BY <1>3 DEF Decoded
<1> QED BY <1>5, <1>6, <1>7, <1>8, <1>9 DEF Decoded

(* A line with text: the block grows by a data line and by nothing else. *)
LEMMA FieldLineDecodes == ASSUME Offsets, Decoded, FieldLine PROVE Decoded'
<1> DEFINE text == SubSeq(buffer, start + 1, newline)
           at == [line |-> text, block |-> data_lines, out |-> frames, done |-> FALSE]
<1>1. TakeLine /\ pc' = "drain" /\ why' = why /\ frames' = frames BY DEF FieldLine, TakeLine
<1>2. At(wire, base + newline + 1) = ReadByte(at, Lf) BY <1>1, LineTaken
<1>3. rstrip(text) = line_read /\ line_read # <<>> BY DEF line_read, FieldLine
<1>4. data_lines' = IF is_data(line_read) THEN Append(data_lines, payload_of(line_read))
                    ELSE data_lines
  BY DEF FieldLine
<1> HIDE DEF text
<1>5. ReadByte(at, Lf) = LineStart(data_lines', frames)
  BY <1>3, <1>4 DEF ReadByte, LineStart
<1> QED BY <1>1, <1>2, <1>5, LineKeeps

(* A blank line with nothing pending changes neither side. *)
LEMMA SkipBlankDecodes == ASSUME Offsets, Decoded, SkipBlank PROVE Decoded'
<1> DEFINE text == SubSeq(buffer, start + 1, newline)
           at == [line |-> text, block |-> data_lines, out |-> frames, done |-> FALSE]
<1>1. TakeLine /\ pc' = "drain" /\ why' = why /\ frames' = frames
      /\ data_lines' = <<>> /\ data_lines = <<>>
  BY DEF SkipBlank, TakeLine
<1>2. At(wire, base + newline + 1) = ReadByte(at, Lf) BY <1>1, LineTaken
<1>3. rstrip(text) = <<>> BY DEF line_read, SkipBlank
<1> HIDE DEF text
<1>4. ReadByte(at, Lf) = LineStart(data_lines', frames')
  BY <1>1, <1>3 DEF ReadByte, LineStart
<1> QED BY <1>1, <1>2, <1>4, LineKeeps

(* A blank line after a block: both dispatch it, or both end on it. *)
LEMMA DispatchDecodes == ASSUME Offsets, Decoded, Dispatch PROVE Decoded'
<1> DEFINE text == SubSeq(buffer, start + 1, newline)
           at == [line |-> text, block |-> data_lines, out |-> frames, done |-> FALSE]
           n == base + newline + 1
<1>1. TakeLine /\ data_lines' = <<>> /\ data_lines # <<>> BY DEF Dispatch
<1>2. n \in 0..received /\ At(wire, n) = ReadByte(at, Lf) BY <1>1, LineTaken
<1>3. rstrip(text) = <<>> BY DEF line_read, Dispatch
<1> HIDE DEF text, n
<1>4. CASE ends(data_lines)
  <2>1. pc' = "stopped" /\ why' \in {"done", "raised"} /\ frames' = frames BY <1>4 DEF Dispatch
  <2>2. At(wire, n).done /\ At(wire, n).out = frames
    <3>1. ReadByte(at, Lf) = [line |-> <<>>, block |-> <<>>, done |-> TRUE, out |-> frames]
      BY <1>1, <1>3, <1>4 DEF ReadByte
    <3> QED BY <1>2, <3>1
  <2>3. n \in 0..Len(wire) /\ received \in n..Len(wire) BY <1>2, Numbers
  <2>4. At(wire, received) = At(wire, n) BY <2>2, <2>3, Numbers, AtDone
  <2>5. wire' = wire /\ received' = received /\ buffer' = buffer /\ base' = base
    BY <1>1 DEF TakeLine, base
  <2> QED BY <2>1, <2>2, <2>4, <2>5 DEF Decoded
<1>5. CASE ~ends(data_lines)
  <2>1. pc' = "drain" /\ why' = why /\ frames' = Append(frames, frame_events(data_lines))
    BY <1>5 DEF Dispatch, TakeLine
  <2>2. ReadByte(at, Lf) = LineStart(data_lines', frames')
    BY <1>1, <1>3, <1>5, <2>1 DEF ReadByte, LineStart
  <2> QED BY <1>1, <1>2, <2>1, <2>2, LineKeeps DEF n
<1> QED BY <1>4, <1>5

(* A chunk extends the buffer with the bytes that follow on the wire. *)
LEMMA ReceiveDecodes == ASSUME Offsets, Decoded, Receive PROVE Decoded'
<1>1. PICK n \in (received + 1)..Len(wire) :
        buffer' = buffer \o SubSeq(wire, received + 1, n) /\ received' = n
  BY DEF Receive
<1> DEFINE chunk == SubSeq(wire, received + 1, n)
<1>2. n \in Nat /\ received < n /\ n <= Len(wire) BY <1>1, Numbers
<1>3. /\ chunk \in Seq(Symbols) /\ Len(chunk) = n - received
      /\ \A k \in 1..(n - received) : chunk[k] = wire[received + k]
  BY <1>2, Numbers
<1> HIDE DEF chunk
<1>4. /\ Len(buffer') = Len(buffer) + (n - received)
      /\ \A i \in 1..Len(buffer') :
           buffer'[i] = IF i <= Len(buffer) THEN buffer[i] ELSE chunk[i - Len(buffer)]
  <2>1. buffer' = buffer \o chunk BY <1>1 DEF chunk
  <2>2. buffer \in Seq(Symbols) /\ Len(buffer) \in Nat /\ n - received \in Nat
    BY <1>2, Numbers
  <2>3. /\ Len(buffer \o chunk) = Len(buffer) + Len(chunk)
        /\ \A i \in 1..(Len(buffer) + Len(chunk)) :
             (buffer \o chunk)[i] = IF i <= Len(buffer) THEN buffer[i] ELSE chunk[i - Len(buffer)]
    BY <1>3, <2>2, ConcatProperties
  <2> QED BY <1>3, <2>1, <2>2, <2>3
<1>5. wire' = wire /\ search_from' = search_from /\ start' = 0 /\ pc' = "drain"
      /\ data_lines' = data_lines /\ frames' = frames /\ why' = None /\ received' = n
      /\ search_from = Len(buffer)
  BY <1>1 DEF Receive, Decoded, Offsets
<1>6. base' = base /\ base' + start' = base
  <2>1. base' = n - Len(buffer') /\ base = received - Len(buffer) BY <1>5 DEF base
  <2>2. Len(buffer) \in Nat /\ received \in Nat BY Numbers
  <2>3. n - Len(buffer') = received - Len(buffer) BY <1>2, <1>4, <2>2
  <2> QED BY <1>5, <2>1, <2>2, <2>3
<1>7. \A i \in 1..Len(buffer') : buffer'[i] = wire'[base' + i]
  <2> SUFFICES ASSUME NEW i \in 1..Len(buffer') PROVE buffer'[i] = wire[base + i]
    BY <1>5, <1>6
  <2>1. CASE i <= Len(buffer)
    <3>1. i \in 1..Len(buffer) BY <2>1, Numbers
    <3> QED BY <1>4, <2>1, <3>1 DEF Decoded
  <2>2. CASE ~(i <= Len(buffer))
    <3>1. i - Len(buffer) \in 1..(n - received) /\ received + (i - Len(buffer)) = base + i
      BY <1>2, <1>4, <2>2, Numbers
    <3> QED BY <1>3, <1>4, <2>2, <3>1
  <2> QED BY <2>1, <2>2
<1>8. Len(buffer') <= received' BY <1>2, <1>4, <1>5, Numbers
<1>9. BetweenChunks BY DEF Decoded, Receive
<1>10. At(wire', base' + start') = LineStart(data_lines', frames')
  BY <1>5, <1>6, <1>9 DEF BetweenChunks
<1>11. Quiet(base + start + 1, base + search_from)'
  BY <1>5, <1>6, <1>9, Numbers DEF BetweenChunks, Quiet
<1>12. start' <= search_from' BY <1>5, Numbers
<1> QED BY <1>5, <1>7, <1>8, <1>10, <1>11, <1>12 DEF Decoded

(* The shift keeps the line begun, and nothing in it ends it. *)
LEMMA CompactDecodes == ASSUME Offsets, Decoded, Compact PROVE Decoded'
<1>1. buffer' = SubSeq(buffer, start + 1, Len(buffer)) BY DEF Compact
<1>2. start <= search_from /\ why = None /\ newlines = {} /\ pc = "drain"
      /\ At(wire, base + start) = LineStart(data_lines, frames)
      /\ Quiet(base + start + 1, base + search_from)
  BY DEF Compact, Decoded
<1>3. Len(buffer') = Len(buffer) - start
      /\ \A i \in 1..(Len(buffer) - start) : buffer'[i] = buffer[start + i]
  BY <1>1, <1>2, Numbers
<1>4. wire' = wire /\ received' = received /\ data_lines' = data_lines BY DEF Compact
<1>5. base' = base + start /\ Len(buffer') <= received' BY <1>2, <1>3, <1>4, Numbers DEF base
<1>6. \A i \in 1..Len(buffer') : buffer'[i] = wire'[base' + i]
  <2> SUFFICES ASSUME NEW i \in 1..Len(buffer') PROVE buffer'[i] = wire[base + start + i]
    BY <1>4, <1>5
  <2>1. i \in 1..(Len(buffer) - start) /\ start + i \in 1..Len(buffer)
        /\ base + (start + i) = base + start + i
    BY <1>2, <1>3, Numbers
  <2> QED BY <1>3, <2>1 DEF Decoded
<1>7. Quiet(base' + 1, received)
  <2> SUFFICES ASSUME NEW k \in (base + start + 1)..received PROVE wire[k] # Lf
    BY <1>5 DEF Quiet
  <2>1. CASE k <= base + search_from BY <1>2, <2>1, Numbers DEF Quiet
  <2>2. CASE k > base + search_from
    <3>1. k - base - 1 \in search_from..(Len(buffer) - 1) /\ k - base \in 1..Len(buffer)
          /\ base + (k - base) = k /\ (k - base - 1) + 1 = k - base
      BY <1>2, <2>2, Numbers
    <3>2. buffer[k - base] # Lf BY <1>2, <3>1 DEF newlines
    <3>3. buffer[k - base] = wire[base + (k - base)] BY <3>1 DEF Decoded
    <3> QED BY <3>1, <3>2, <3>3
  <2> QED BY <1>2, <2>1, <2>2, Numbers
<1>8. Quiet(base + 1, received)' BY <1>4, <1>7 DEF Quiet
<1>9. At(wire', base') = LineStart(data_lines', frames) BY <1>2, <1>4, <1>5
<1>10. \/ pc' = "read" /\ why' = why /\ frames' = frames
       \/ pc' = "stopped" /\ why' = "flood" /\ frames' = Append(frames, <<Error>>)
  BY DEF Compact
<1>11. CASE pc' = "read" /\ why' = why /\ frames' = frames
  BY <1>2, <1>5, <1>6, <1>8, <1>9, <1>11 DEF Decoded, BetweenChunks
<1>12. CASE pc' = "stopped" /\ why' = "flood" /\ frames' = Append(frames, <<Error>>)
  BY <1>5, <1>6, <1>8, <1>9, <1>12 DEF Decoded
<1> QED BY <1>10, <1>11, <1>12

(* decode_sse keeps step with the reference, whatever the chunks. *)
THEOREM DecodedHolds == Spec => []Decoded
<1>1. Init => Decoded
  <2> SUFFICES ASSUME Init PROVE Decoded OBVIOUS
  <2>1. wire \in Seq(Symbols) /\ received = 0 /\ buffer = <<>> /\ Len(buffer) = 0 /\ base = 0
    <3>1. wire \in Wires /\ received = 0 /\ buffer = <<>> BY DEF Init
    <3>2. Len(buffer) = 0 BY <3>1
    <3>3. base = 0
      <4>1. received = 0 BY <3>1
      <4>2. base = 0 - 0 BY <3>2, <4>1 DEF base
      <4> QED BY <4>2
    <3>4. wire \in Seq(Symbols) BY <3>1, WiresAssumption
    <3> QED BY <3>1, <3>2, <3>3, <3>4
  <2>2. At(wire, base) = LineStart(data_lines, frames)
    BY <2>1, AtStep DEF Init, LineStart, Fresh
  <2> QED BY <2>1, <2>2 DEF Init, Decoded, BetweenChunks, Quiet
<1>2. ASSUME Offsets, Decoded, [Next]_vars PROVE Decoded'
  <2>1. CASE Receive BY <1>2, <2>1, ReceiveDecodes
  <2>2. CASE FieldLine BY <1>2, <2>2, FieldLineDecodes
  <2>3. CASE SkipBlank BY <1>2, <2>3, SkipBlankDecodes
  <2>4. CASE Dispatch BY <1>2, <2>4, DispatchDecodes
  <2>5. CASE Compact BY <1>2, <2>5, CompactDecodes
  <2>6. CASE EndOfStream
    <3>1. UNCHANGED <<wire, received, buffer, data_lines, frames>> /\ pc = "read"
          /\ pc' = "stopped" /\ why' = "end"
      BY <2>6 DEF EndOfStream
    <3>2. base' = base /\ BetweenChunks' BY <1>2, <3>1 DEF base, Decoded, BetweenChunks, Quiet
    <3> QED BY <1>2, <3>1, <3>2 DEF Decoded
  <2>7. CASE UNCHANGED vars BY <1>2, <2>7 DEF vars, Decoded, BetweenChunks, Quiet, base
  <2>8. QED BY <1>2, <2>1, <2>2, <2>3, <2>4, <2>5, <2>6, <2>7 DEF Next, Stopped
<1>3. QED BY <1>1, <1>2, OffsetsHold, PTL DEF Spec

(* Where the chunks are cut never shows (decode_sse), for every stream: the  *)
(* events are those of reading the bytes received one at a time.             *)
THEOREM ChunksNeverShow == Spec => []DecodesAsWhole
<1>1. ASSUME Offsets, Decoded PROVE DecodesAsWhole
  <2> DEFINE whole == At(wire, received)
  <2>1. SUFFICES ASSUME pc # "drain"
        PROVE /\ whole.done <=> why \in {"done", "raised"}
              /\ frames = IF why = "flood" THEN Append(whole.out, <<Error>>) ELSE whole.out
    BY DEF DecodesAsWhole, At
  <2>2. base \in 0..Len(wire) /\ received \in base..Len(wire) BY <1>1, Numbers
  <2>3. ASSUME NEW out, At(wire, base) = LineStart(data_lines, out), Quiet(base + 1, received)
        PROVE  ~whole.done /\ whole.out = out
    BY <1>1, <2>2, <2>3, Numbers, AtText DEF Quiet
  <2> HIDE DEF whole
  <2>4. CASE why = None /\ BetweenChunks
    BY <2>3, <2>4, NoneAssumption DEF BetweenChunks
  <2>5. CASE why = "end" /\ BetweenChunks BY <2>3, <2>5 DEF BetweenChunks
  <2>6. CASE why \in {"done", "raised"} /\ whole.done /\ whole.out = frames BY <2>6
  <2>7. CASE pc = "stopped" /\ why = "flood"
    BY <1>1, <2>3, <2>7 DEF Decoded
  <2>8. QED BY <1>1, <2>1, <2>4, <2>5, <2>6, <2>7 DEF Decoded, whole
<1>2. QED BY <1>1, OffsetsHold, DecodedHolds, PTL

-----------------------------------------------------------------------------
(* The size of the pending block. *)

(* The running totals that Pending is the last of. *)
Totals(lines, f) ==
  f = [i \in 0..Len(lines) |-> IF i = 0 THEN 0 ELSE f[i - 1] + Len(lines[i])]

(* They exist, by induction on the number of lines. *)
LEMMA TotalsExist ==
  ASSUME NEW S, NEW lines \in Seq(S)
  PROVE  \E f : Totals(lines, f)
<1> DEFINE N == Len(lines)
           G(f, m) == /\ f = [i \in 0..m |-> f[i]] /\ f[0] = 0
                      /\ \A i \in 1..m : f[i] = f[i - 1] + Len(lines[i])
           T == {m \in 0..N : \E f : G(f, m)}
<1>1. N \in Nat OBVIOUS
<1>2. 0 \in T
  <2>1. G([i \in 0..0 |-> 0], 0) OBVIOUS
  <2> HIDE DEF G
  <2> QED BY <1>1, <2>1
<1>3. ASSUME NEW k \in 1..N, k - 1 \in T PROVE k \in T
  <2>1. PICK f : G(f, k - 1) BY <1>3
  <2> DEFINE g == [i \in 0..k |-> IF i = k THEN f[k - 1] + Len(lines[k]) ELSE f[i]]
  <2>2. g = [i \in 0..k |-> g[i]] OBVIOUS
  <2>3. g[0] = 0 BY <2>1
  <2>4. ASSUME NEW i \in 1..k PROVE g[i] = g[i - 1] + Len(lines[i])
    <3>1. CASE i = k BY <3>1
    <3>2. CASE i # k
      <4>1. i \in 1..(k - 1) /\ g[i] = f[i] /\ g[i - 1] = f[i - 1] BY <3>2
      <4> QED BY <2>1, <4>1
    <3> QED BY <3>1, <3>2
  <2> HIDE DEF g
  <2>5. G(g, k) BY <2>2, <2>3, <2>4
  <2>6. k \in 0..N BY <1>1
  <2> HIDE DEF G
  <2> QED BY <2>5, <2>6
<1>4. N \in T
  <2> HIDE DEF N, T
  <2>1. \A k \in 1..N : k - 1 \in T => k \in T BY <1>3
  <2>2. \A k \in 0..N : k \in T BY <1>1, <1>2, <2>1, Induction
  <2> QED BY <1>1, <2>2
<1>5. PICK f : G(f, N) BY <1>4
<1>6. f = [i \in 0..N |-> IF i = 0 THEN 0 ELSE f[i - 1] + Len(lines[i])]
  <2>1. ASSUME NEW i \in 0..N PROVE f[i] = IF i = 0 THEN 0 ELSE f[i - 1] + Len(lines[i])
    <3>1. CASE i = 0 BY <1>5, <3>1
    <3>2. CASE i # 0
      <4>1. i \in 1..N BY <1>1, <3>2
      <4>2. f[i] = f[i - 1] + Len(lines[i]) BY <1>5, <4>1
      <4> QED BY <3>2, <4>2
    <3> QED BY <3>1, <3>2
  <2>2. f = [i \in 0..N |-> f[i]] BY <1>5
  <2> HIDE DEF N, G
  <2> QED BY <2>1, <2>2, Zenon
<1> QED BY <1>6 DEF Totals

(* Pending is the last of them. *)
LEMMA PendingIsTotal ==
  ASSUME NEW S, NEW lines \in Seq(S)
  PROVE  \E f : Totals(lines, f) /\ Pending(lines) = f[Len(lines)]
<1> DEFINE f == CHOOSE g : g = [i \in 0..Len(lines) |-> IF i = 0 THEN 0 ELSE g[i - 1] + Len(lines[i])]
<1>1. \E g : g = [i \in 0..Len(lines) |-> IF i = 0 THEN 0 ELSE g[i - 1] + Len(lines[i])]
  BY TotalsExist DEF Totals
<1>2. f = [i \in 0..Len(lines) |-> IF i = 0 THEN 0 ELSE f[i - 1] + Len(lines[i])]
  BY <1>1, Zenon
<1>3. Pending(lines) = f[Len(lines)]
  BY DEF Pending
<1> QED BY <1>2, <1>3 DEF Totals

(* One line more adds its length to the total. *)
LEMMA PendingAppend ==
  ASSUME NEW S, NEW lines \in Seq(S), NEW line \in S
  PROVE  Pending(Append(lines, line)) = Pending(lines) + Len(line)
<1> DEFINE more == Append(lines, line)
           N == Len(lines)
<1>1. N \in Nat /\ more \in Seq(S) /\ Len(more) = N + 1
      /\ (\A i \in 1..N : more[i] = lines[i]) /\ more[N + 1] = line
  BY AppendProperties
<1> HIDE DEF more
<1>2. PICK f : Totals(lines, f) /\ Pending(lines) = f[N] BY PendingIsTotal
<1>3. PICK g : Totals(more, g) /\ Pending(more) = g[N + 1] BY <1>1, PendingIsTotal
<1>4. f[0] = 0 /\ \A i \in 1..N : f[i] = f[i - 1] + Len(lines[i]) BY <1>1, <1>2 DEF Totals
<1>5. g[0] = 0 /\ \A i \in 1..(N + 1) : g[i] = g[i - 1] + Len(more[i]) BY <1>1, <1>3 DEF Totals
<1> DEFINE T == {k \in 0..N : g[k] = f[k]}
<1>6. 0 \in T BY <1>1, <1>4, <1>5
<1>7. ASSUME NEW k \in 1..N, k - 1 \in T PROVE k \in T
  <2>1. g[k - 1] = f[k - 1] /\ k \in 1..(N + 1) /\ more[k] = lines[k] BY <1>1, <1>7
  <2>2. g[k] = f[k] BY <1>4, <1>5, <2>1
  <2> QED BY <2>2
<1>8. N \in T
  <2> HIDE DEF T, N
  <2>1. \A k \in 1..N : k - 1 \in T => k \in T BY <1>7
  <2>2. \A k \in 0..N : k \in T BY <1>1, <1>6, <2>1, Induction
  <2> QED BY <1>1, <2>2
<1>9. g[N] = f[N] BY <1>8
<1>10. g[N + 1] = g[N] + Len(line)
  <2>1. N + 1 \in 1..(N + 1) /\ (N + 1) - 1 = N BY <1>1
  <2> QED BY <1>1, <1>5, <2>1
<1> QED BY <1>2, <1>3, <1>9, <1>10 DEF more

(* An empty block has no size. *)
LEMMA PendingEmpty == Pending(<<>>) = 0
<1>1. <<>> \in Seq(Symbols) /\ Len(<<>>) = 0 OBVIOUS
<1>2. PICK f : Totals(<<>>, f) /\ Pending(<<>>) = f[Len(<<>>)] BY <1>1, PendingIsTotal
<1>3. f[0] = 0 BY <1>1, <1>2 DEF Totals
<1> QED BY <1>1, <1>2, <1>3

(* rstrip drops text at the end of a line and nothing else. *)
LEMMA StripKeepsText ==
  ASSUME NEW S, NEW line \in Seq(S)
  PROVE  rstrip(line) \in Seq(S)
<1> DEFINE kept == {i \in DOMAIN line : line[i] # Cr}
           N == Len(line)
<1>1. N \in Nat /\ DOMAIN line = 1..N /\ kept \subseteq 1..N OBVIOUS
<1>2. CASE kept = {}
  BY <1>1, <1>2 DEF rstrip
<1>3. CASE kept # {}
  <2> DEFINE T == {N - i : i \in kept}
             last == CHOOSE i \in kept : \A j \in kept : j <= i
  <2>1. T \in SUBSET Nat /\ T # {} BY <1>1, <1>3
  <2>2. PICK t \in T : \A u \in T : t <= u BY <2>1, LeastNat
  <2>3. PICK i \in kept : t = N - i BY <2>2
  <2>4. \A j \in kept : j <= i
    <3> SUFFICES ASSUME NEW j \in kept PROVE j <= i OBVIOUS
    <3>1. N - j \in T /\ i \in Nat /\ j \in Nat BY <1>1
    <3>2. N - i <= N - j BY <2>2, <2>3, <3>1
    <3> QED BY <1>1, <3>1, <3>2
  <2>5. last \in kept BY <2>4
  <2>6. last \in 1..N BY <1>1, <2>5
  <2>7. rstrip(line) = SubSeq(line, 1, last) BY <1>3 DEF rstrip
  <2> HIDE DEF last
  <2> QED BY <1>1, <2>6, <2>7
<1> QED BY <1>2, <1>3

(* The block holds text of the stream, its size is counted right, and the    *)
(* decoder reads on only within the cap.                                     *)
Sized ==
  /\ data_lines \in Seq(Seq(Symbols))
  /\ data_bytes = Pending(data_lines)
  /\ pc = "read" \/ why = "end" => ~(Len(buffer) + data_bytes > MaxFrameBytes)
  /\ why = "flood" => Len(buffer) + data_bytes > MaxFrameBytes

(* A data line is counted as it joins the block. *)
LEMMA FieldLineSized == ASSUME Offsets, Decoded, Sized, FieldLine PROVE Sized'
<1>1. newline \in search_from..(Len(buffer) - 1) /\ pc' = "drain" /\ why' = why /\ why = None
  BY FirstNewline DEF FieldLine, TakeLine, Decoded
<1>2. start \in Nat /\ newline \in Nat /\ newline < Len(buffer) /\ buffer \in Seq(Symbols)
  BY <1>1, Numbers
<1>3. SubSeq(buffer, start + 1, newline) \in Seq(Symbols) BY <1>2, Numbers
<1>4. line_read \in Seq(Symbols) BY <1>3, StripKeepsText DEF line_read
<1>5. line_read # <<>> BY DEF FieldLine
<1>6. payload_of(line_read) \in Seq(Symbols)
  <2> HIDE DEF line_read
  <2>1. Tail(line_read) \in Seq(Symbols) BY <1>4, <1>5
  <2>2. Len(line_read) > 1 => SubSeq(line_read, 3, Len(line_read)) \in Seq(Symbols) BY <1>4
  <2> QED BY <2>1, <2>2 DEF payload_of
<1>7. Pending(Append(data_lines, payload_of(line_read))) =
        Pending(data_lines) + Len(payload_of(line_read))
  BY <1>6, PendingAppend DEF Sized
<1>8. data_lines' \in Seq(Seq(Symbols)) /\ data_bytes' = Pending(data_lines')
  <2>1. data_lines \in Seq(Seq(Symbols)) /\ data_bytes = Pending(data_lines) BY DEF Sized
  <2>2. CASE is_data(line_read)
    <3>1. data_lines' = Append(data_lines, payload_of(line_read))
          /\ data_bytes' = data_bytes + Len(payload_of(line_read))
      BY <2>2 DEF FieldLine
    <3>2. data_lines' \in Seq(Seq(Symbols)) BY <1>6, <2>1, <3>1, AppendProperties
    <3> QED BY <1>7, <2>1, <3>1, <3>2
  <2>3. CASE ~is_data(line_read) BY <2>1, <2>3 DEF FieldLine
  <2> QED BY <2>2, <2>3
<1>9. why' # "end" /\ why' # "flood" BY <1>1, NoneAssumption
<1> QED BY <1>1, <1>8, <1>9 DEF Sized

(* The count of the pending block is right at every step of decode_sse. *)
THEOREM SizedHolds == Spec => []Sized
<1>1. Init => Sized
  <2> SUFFICES ASSUME Init PROVE Sized OBVIOUS
  <2>1. Len(buffer) = 0 /\ data_bytes = 0 /\ data_lines = <<>> /\ why = None BY DEF Init
  <2>2. ~(Len(buffer) + data_bytes > MaxFrameBytes) BY <2>1, CapAssumption
  <2>3. data_lines \in Seq(Seq(Symbols)) BY <2>1
  <2> QED BY <2>1, <2>2, <2>3, PendingEmpty, NoneAssumption DEF Sized
<1>2. ASSUME Offsets, Decoded, Sized, [Next]_vars PROVE Sized'
  <2>1. CASE Receive
    BY <1>2, <2>1, NoneAssumption DEF Receive, Sized, Decoded
  <2>2. CASE FieldLine BY <1>2, <2>2, FieldLineSized
  <2>3. CASE SkipBlank
    BY <1>2, <2>3, NoneAssumption DEF SkipBlank, TakeLine, Sized, Decoded
  <2>4. CASE Dispatch
    <3>1. data_lines' = <<>> /\ data_bytes' = 0 /\ why = None /\ why' \in {why, "done", "raised"}
          /\ pc' \in {"drain", "stopped"}
      BY <1>2, <2>4 DEF Dispatch, TakeLine, Decoded
    <3>2. data_lines' \in Seq(Seq(Symbols)) BY <3>1
    <3> QED BY <3>1, <3>2, PendingEmpty, NoneAssumption DEF Sized
  <2>5. CASE Compact
    <3>1. data_lines' = data_lines /\ data_bytes' = data_bytes /\ why = None
      BY <1>2, <2>5 DEF Compact, Decoded
    <3>2. \/ Len(buffer') + data_bytes > MaxFrameBytes /\ why' = "flood" /\ pc' = "stopped"
          \/ ~(Len(buffer') + data_bytes > MaxFrameBytes) /\ why' = why /\ pc' = "read"
      BY <2>5 DEF Compact
    <3> QED BY <1>2, <3>1, <3>2, NoneAssumption DEF Sized
  <2>6. CASE EndOfStream BY <1>2, <2>6 DEF EndOfStream, Sized
  <2>7. CASE UNCHANGED vars BY <1>2, <2>7 DEF vars, Sized
  <2>8. QED BY <1>2, <2>1, <2>2, <2>3, <2>4, <2>5, <2>6, <2>7 DEF Next, Stopped
<1>3. QED BY <1>1, <1>2, OffsetsHold, DecodedHolds, PTL DEF Spec

(* Bounded memory (_MAX_FRAME_BYTES), for every stream and every cap: the    *)
(* decoder gives up exactly when the tail and the block outgrow it.          *)
THEOREM CapIsExact == Spec => []FloodIsCapped
<1>1. ASSUME Decoded, Sized PROVE FloodIsCapped
  <2>1. pc = "read" => why = None BY <1>1 DEF Decoded
  <2>2. pc = "stopped" => why \in {"done", "raised", "end", "flood"} BY <1>1 DEF Decoded
  <2>3. pc \in {"read", "drain", "stopped"} BY <1>1 DEF Decoded
  <2> QED BY <1>1, <2>1, <2>2, <2>3, NoneAssumption DEF FloodIsCapped, Sized
<1>2. QED BY <1>1, DecodedHolds, SizedHolds, PTL

-----------------------------------------------------------------------------
(* One frame: an Error alone, or none. *)

(* A sequence, of whatever elements. *)
IsList(s) == s \in Seq(Range(s))

(* Every sequence over some set is a list. *)
LEMMA SeqIsList == ASSUME NEW S, NEW s \in Seq(S) PROVE IsList(s)
<1>1. Len(s) \in Nat /\ DOMAIN s = 1..Len(s) /\ s = [i \in 1..Len(s) |-> s[i]] OBVIOUS
<1>2. \A i \in 1..Len(s) : s[i] \in Range(s) BY <1>1 DEF Range
<1>3. s \in [1..Len(s) -> Range(s)] BY <1>1, <1>2
<1> QED BY <1>1, <1>3, SeqDef DEF IsList

(* Two lists without an Error make one without an Error. *)
LEMMA ListConcat ==
  ASSUME NEW s, NEW t, IsList(s), IsList(t)
  PROVE  IsList(s \o t) /\ (Contains(s \o t, Error) => Contains(s, Error) \/ Contains(t, Error))
<1> DEFINE S == Range(s) \cup Range(t)
<1>1. s \in Seq(S) /\ t \in Seq(S) BY SeqMonotonic DEF IsList
<1> HIDE DEF S
<1>2. /\ s \o t \in Seq(S) /\ Len(s \o t) = Len(s) + Len(t)
      /\ \A i \in 1..(Len(s) + Len(t)) : (s \o t)[i] = IF i <= Len(s) THEN s[i] ELSE t[i - Len(s)]
  BY <1>1, ConcatProperties
<1>3. ASSUME Contains(s \o t, Error) PROVE Contains(s, Error) \/ Contains(t, Error)
  <2>1. PICK i \in 1..(Len(s) + Len(t)) : (s \o t)[i] = Error BY <1>2, <1>3 DEF Contains
  <2>2. Len(s) \in Nat /\ Len(t) \in Nat BY <1>1
  <2>3. CASE i <= Len(s)
    <3>1. i \in 1..Len(s) /\ s[i] = Error BY <1>2, <2>1, <2>2, <2>3
    <3> QED BY <3>1 DEF Contains
  <2>4. CASE ~(i <= Len(s))
    <3>1. i - Len(s) \in 1..Len(t) /\ t[i - Len(s)] = Error BY <1>2, <2>1, <2>2, <2>4
    <3> QED BY <3>1 DEF Contains
  <2> QED BY <2>3, <2>4
<1> QED BY <1>2, <1>3, SeqIsList

(* The partial results of FlattenSeq. *)
Flattens(seqs, f) ==
  f = [i \in 1..Len(seqs) |-> IF i = 1 THEN seqs[i] ELSE f[i - 1] \o seqs[i]]

(* They exist, by induction on the number of sequences. *)
LEMMA FlattensExist ==
  ASSUME NEW S, NEW seqs \in Seq(S)
  PROVE  \E f : Flattens(seqs, f)
<1> DEFINE N == Len(seqs)
           G(f, m) == /\ f = [i \in 1..m |-> f[i]]
                      /\ \A i \in 1..m : f[i] = IF i = 1 THEN seqs[i] ELSE f[i - 1] \o seqs[i]
           T == {m \in 0..N : \E f : G(f, m)}
<1>1. N \in Nat OBVIOUS
<1>2. 0 \in T
  <2>1. G([i \in 1..0 |-> seqs], 0) OBVIOUS
  <2> HIDE DEF G
  <2> QED BY <1>1, <2>1
<1>3. ASSUME NEW k \in 1..N, k - 1 \in T PROVE k \in T
  <2>1. PICK f : G(f, k - 1) BY <1>3
  <2> DEFINE last == IF k = 1 THEN seqs[k] ELSE f[k - 1] \o seqs[k]
             g == [i \in 1..k |-> IF i = k THEN last ELSE f[i]]
  <2>2. g = [i \in 1..k |-> g[i]] OBVIOUS
  <2>3. ASSUME NEW i \in 1..k PROVE g[i] = IF i = 1 THEN seqs[i] ELSE g[i - 1] \o seqs[i]
    <3>1. CASE i = k
      <4>1. g[i] = last BY <3>1
      <4>2. k # 1 => g[k - 1] = f[k - 1] OBVIOUS
      <4> QED BY <3>1, <4>1, <4>2
    <3>2. CASE i # k
      <4>1. i \in 1..(k - 1) /\ g[i] = f[i] /\ (i # 1 => g[i - 1] = f[i - 1]) BY <3>2
      <4>2. f[i] = IF i = 1 THEN seqs[i] ELSE f[i - 1] \o seqs[i] BY <2>1, <4>1
      <4> HIDE DEF g
      <4> QED BY <4>1, <4>2
    <3> QED BY <3>1, <3>2
  <2> HIDE DEF g
  <2>4. G(g, k) BY <2>2, <2>3
  <2>5. k \in 0..N BY <1>1
  <2> HIDE DEF G
  <2> QED BY <2>4, <2>5
<1>4. N \in T
  <2> HIDE DEF N, T
  <2>1. \A k \in 1..N : k - 1 \in T => k \in T BY <1>3
  <2>2. \A k \in 0..N : k \in T BY <1>1, <1>2, <2>1, Induction
  <2> QED BY <1>1, <2>2
<1>5. PICK f : G(f, N) BY <1>4
<1>6. f = [i \in 1..N |-> IF i = 1 THEN seqs[i] ELSE f[i - 1] \o seqs[i]]
  <2> HIDE DEF N
  <2> QED BY <1>5, Zenon
<1> QED BY <1>6 DEF Flattens

(* Lists without an Error flatten to one without an Error. *)
LEMMA FlattenClean ==
  ASSUME NEW S, NEW seqs \in Seq(S),
         \A i \in 1..Len(seqs) : IsList(seqs[i]) /\ ~Contains(seqs[i], Error)
  PROVE  IsList(FlattenSeq(seqs)) /\ ~Contains(FlattenSeq(seqs), Error)
<1> DEFINE N == Len(seqs)
<1>1. N \in Nat OBVIOUS
<1>2. CASE N = 0
  <2>1. FlattenSeq(seqs) = seqs BY <1>2 DEF FlattenSeq
  <2>2. ~Contains(seqs, Error) BY <1>2 DEF Contains
  <2> QED BY <2>1, <2>2, SeqIsList
<1>3. CASE N # 0
  <2> DEFINE f == CHOOSE g : g = [i \in 1..Len(seqs) |-> IF i = 1 THEN seqs[i] ELSE g[i - 1] \o seqs[i]]
  <2>1. \E g : g = [i \in 1..Len(seqs) |-> IF i = 1 THEN seqs[i] ELSE g[i - 1] \o seqs[i]]
    BY FlattensExist DEF Flattens
  <2>2. f = [i \in 1..Len(seqs) |-> IF i = 1 THEN seqs[i] ELSE f[i - 1] \o seqs[i]]
    BY <2>1, Zenon
  <2>3. FlattenSeq(seqs) = f[Len(seqs)] BY <1>3 DEF FlattenSeq
  <2> HIDE DEF f
  <2> DEFINE T == {k \in 0..N : k # 0 => IsList(f[k]) /\ ~Contains(f[k], Error)}
  <2>4. 0 \in T BY <1>1
  <2>5. ASSUME NEW k \in 1..N, k - 1 \in T PROVE k \in T
    <3>1. k \in 0..N BY <1>1
    <3>2. CASE k = 1
      <4>1. f[k] = seqs[k] BY <2>2, <3>2
      <4>2. IsList(f[k]) /\ ~Contains(f[k], Error) BY <4>1
      <4> QED BY <3>1, <4>2
    <3>3. CASE k # 1
      <4>1. f[k] = f[k - 1] \o seqs[k] BY <2>2, <3>3
      <4>2. k - 1 # 0 BY <3>3
      <4>3. IsList(f[k - 1]) /\ ~Contains(f[k - 1], Error) BY <2>5, <4>2
      <4>4. IsList(f[k]) /\ ~Contains(f[k], Error) BY <4>1, <4>3, ListConcat
      <4> QED BY <3>1, <4>4
    <3> QED BY <3>2, <3>3
  <2>6. N \in T
    <3> HIDE DEF N, T
    <3>1. \A k \in 1..N : k - 1 \in T => k \in T BY <2>5
    <3>2. \A k \in 0..N : k \in T BY <1>1, <2>4, <3>1, Induction
    <3> QED BY <1>1, <3>2
  <2> QED BY <1>3, <2>3, <2>6
<1> QED BY <1>2, <1>3

(* A list of one, and none. *)
LEMMA ShortLists == IsList(<<>>) /\ (\A e : IsList(<<e>>)) /\ ~Contains(<<>>, Error)
<1>1. <<>> \in Seq({}) BY EmptySeq
<1>2. \A e : <<e>> \in Seq({e}) OBVIOUS
<1>3. ~Contains(<<>>, Error) BY DEF Contains
<1> QED BY <1>1, <1>2, <1>3, SeqIsList

(* Whatever the choice, its events are a list. *)
LEMMA ChoiceIsList == ASSUME NEW choice PROVE IsList(one_choice_events(choice))
<1> DEFINE Short(s) == s = <<>> \/ \E e : s = <<e>>
<1>1. ASSUME NEW s, Short(s) PROVE IsList(s) BY <1>1, ShortLists
<1>2. ASSUME NEW delta PROVE IsList(delta_text_events(delta))
  <2> DEFINE r == IF delta.reasoning_content \in {None, ""} THEN <<>>
                  ELSE <<[event |-> "Reasoning", text |-> delta.reasoning_content]>>
             d == IF delta.content \in {None, ""} THEN <<>>
                  ELSE <<[event |-> "Delta", text |-> delta.content]>>
  <2>1. Short(r) /\ Short(d) /\ Short(<<Error>>) OBVIOUS
  <2>2. delta_text_events(delta) = <<Error>> \/ delta_text_events(delta) = r \o d
    BY DEF delta_text_events
  <2> HIDE DEF r, d, Short
  <2>3. IsList(r) /\ IsList(d) /\ IsList(<<Error>>) BY <1>1, <2>1
  <2>4. IsList(r \o d) BY <2>3, ListConcat
  <2> QED BY <2>2, <2>3, <2>4
<1> DEFINE f == IF choice.finish_reason = None THEN <<>>
                ELSE <<[event |-> "Finish", reason |-> choice.finish_reason]>>
<1>3. Short(f) /\ Short(<<Error>>) OBVIOUS
<1>4. one_choice_events(choice) \in {<<Error>>, delta_text_events(choice.delta) \o f}
  BY DEF one_choice_events
<1> HIDE DEF f, Short
<1>5. IsList(f) /\ IsList(<<Error>>) BY <1>1, <1>3
<1>6. IsList(delta_text_events(choice.delta) \o f) BY <1>2, <1>5, ListConcat
<1> QED BY <1>4, <1>5, <1>6

(* _events yields one Error or none: no text of a frame with any part off    *)
(* the contract goes out before the Error is seen.                           *)
LEMMA FrameAllOrNothing ==
  ASSUME NEW payload, Contains(frame_events(payload), Error)
  PROVE  frame_events(payload) = <<Error>>
<1> SUFFICES ASSUME frame_events(payload) # <<Error>> PROVE FALSE OBVIOUS
<1> DEFINE value == Json[payload]
           choices == choice_events(value.choices)
           usage == usage_event(value.usage)
           each == [i \in DOMAIN value.choices |-> one_choice_events(value.choices[i])]
<1>1. /\ payload \in DOMAIN Json /\ value # Bad /\ ~value.error
      /\ choices # <<Error>> /\ usage # <<Error>> /\ frame_events(payload) = choices \o usage
  BY DEF frame_events
<1>2. value.choices # Bad /\ choices = FlattenSeq(each)
      /\ ~\E i \in DOMAIN each : Contains(each[i], Error)
  BY <1>1 DEF choice_events
<1>3. value.choices \in Seq(Range(value.choices)) BY <1>1, <1>2, JsonAssumption
<1> DEFINE n == Len(value.choices)
<1>4. n \in Nat /\ DOMAIN value.choices = 1..n BY <1>3
<1>5. each \in Seq(Range(each)) /\ Len(each) = n /\ DOMAIN each = 1..n
  <2>1. DOMAIN each = 1..n /\ each = [i \in 1..n |-> each[i]] BY <1>4
  <2> HIDE DEF each, n
  <2>2. \A i \in 1..n : each[i] \in Range(each) BY <2>1 DEF Range
  <2>3. each \in [1..n -> Range(each)] BY <2>1, <2>2
  <2>4. each \in Seq(Range(each)) BY <1>4, <2>3, SeqDef
  <2> QED BY <1>4, <2>1, <2>4
<1>6. \A i \in 1..n : IsList(each[i]) /\ ~Contains(each[i], Error)
  BY <1>2, <1>4, <1>5, ChoiceIsList
<1>7. IsList(choices) /\ ~Contains(choices, Error)
  <2> HIDE DEF each, choices, n
  <2> QED BY <1>2, <1>5, <1>6, FlattenClean
<1>8. IsList(usage) /\ ~Contains(usage, Error)
  <2> DEFINE e == [event |-> "Usage", tokens |-> value.usage.completion_tokens]
  <2>1. usage = <<>> \/ usage = <<e>> BY <1>1 DEF usage_event
  <2>2. e # Error
    <3>1. e.event = "Usage" /\ Error.event = "Error" BY DEF Error
    <3> HIDE DEF e
    <3> QED BY <3>1
  <2> HIDE DEF e, usage
  <2>3. ~Contains(<<e>>, Error) BY <2>2 DEF Contains
  <2> QED BY <2>1, <2>3, ShortLists
<1> HIDE DEF choices, usage
<1>9. ~Contains(choices \o usage, Error) BY <1>7, <1>8, ListConcat
<1> QED BY <1>1, <1>9

(* D-SSE-002, for every stream and whatever the frames parse to: an Error is *)
(* the only event of its frame.                                              *)
THEOREM FramesAllOrNothing == Spec => []AllOrNothing
<1> DEFINE Inv == IsList(frames) /\ AllOrNothing
<1>1. Init => Inv BY ShortLists DEF Init, AllOrNothing
<1>2. ASSUME Inv, NEW events, Contains(events, Error) => events = <<Error>>,
             frames' = Append(frames, events)
      PROVE  Inv'
  <2> DEFINE S == Range(frames) \cup {events}
             n == Len(frames)
  <2>1. frames \in Seq(S) /\ events \in S BY <1>2, SeqMonotonic DEF IsList
  <2> HIDE DEF S
  <2>2. /\ frames' \in Seq(S) /\ n \in Nat /\ DOMAIN frames = 1..n /\ DOMAIN frames' = 1..(n + 1)
        /\ (\A i \in 1..n : frames'[i] = frames[i]) /\ frames'[n + 1] = events
    BY <1>2, <2>1, AppendProperties
  <2>3. IsList(frames)' BY <2>2, SeqIsList DEF IsList
  <2>4. ASSUME NEW i \in DOMAIN frames', Contains(frames'[i], Error) PROVE frames'[i] = <<Error>>
    <3>1. CASE i = n + 1 BY <1>2, <2>2, <2>4, <3>1
    <3>2. CASE i # n + 1
      <4>1. i \in 1..n /\ i \in DOMAIN frames BY <2>2, <3>2
      <4> QED BY <1>2, <2>2, <2>4, <4>1 DEF AllOrNothing
    <3> QED BY <3>1, <3>2
  <2> QED BY <2>3, <2>4 DEF AllOrNothing
<1>3. ASSUME Inv, [Next]_vars PROVE Inv'
  <2>1. CASE frames' = frames BY <1>3, <2>1 DEF AllOrNothing, IsList
  <2>2. CASE frames' = Append(frames, frame_events(data_lines))
    <3> HIDE DEF Inv
    <3> QED BY <1>2, <1>3, <2>2, FrameAllOrNothing
  <2>3. CASE frames' = Append(frames, <<Error>>)
    <3> HIDE DEF Inv
    <3> QED BY <1>2, <1>3, <2>3
  <2>4. QED
    BY <1>3, <2>1, <2>2, <2>3
    DEF Next, Receive, FieldLine, SkipBlank, Dispatch, Compact, EndOfStream, Stopped, vars
<1>4. QED BY <1>1, <1>3, PTL DEF Spec
=============================================================================
