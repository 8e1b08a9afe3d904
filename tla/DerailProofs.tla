---------------------------- MODULE DerailProofs ----------------------------
(***************************************************************************)
(* The content half of the guard judges the text and not its cuts, for     *)
(* every text, every cut and every bound.                                  *)
(***************************************************************************)
EXTENDS DerailGuard, SequenceTheorems, WellFoundedInduction, TLAPS

-----------------------------------------------------------------------------
(* Induction. *)

(* Every nonempty set of naturals has a least element. *)
LEMMA LeastNat ==
  ASSUME NEW T \in SUBSET Nat, T # {}
  PROVE  \E i \in T : \A j \in T : i <= j
<1> DEFINE R == OpToRel(<, Nat)
<1>1. IsWellFoundedOn(R, Nat) BY NatLessThanWellFounded
<1>2. PICK i \in T : \A j \in T : ~(<<j, i>> \in R)
  <2> HIDE DEF R
  <2> QED BY <1>1, WFMin
<1>3. \A j \in T : i <= j
  <2> SUFFICES ASSUME NEW j \in T PROVE i <= j OBVIOUS
  <2>1. i \in Nat /\ j \in Nat OBVIOUS
  <2>2. ~(j < i) BY <1>2, <2>1 DEF OpToRel
  <2> QED BY <2>1, <2>2
<1> QED BY <1>3

(* Induction up to a bound, for a set instead of a predicate. *)
LEMMA Induction ==
  ASSUME NEW m \in Nat, NEW S, 0 \in S, \A k \in 1..m : k - 1 \in S => k \in S
  PROVE  \A k \in 0..m : k \in S
<1> SUFFICES ASSUME NEW k \in 0..m, k \notin S PROVE FALSE OBVIOUS
<1> DEFINE T == {j \in 0..m : j \notin S}
<1>1. T \in SUBSET Nat /\ T # {} OBVIOUS
<1>2. PICK i \in T : \A j \in T : i <= j BY <1>1, LeastNat
<1>3. i \in 0..m /\ i # 0 /\ i \notin S OBVIOUS
<1>4. i \in 1..m /\ i - 1 \in 0..m /\ i - 1 \notin T BY <1>2, <1>3
<1>5. i - 1 \in S BY <1>4
<1> QED BY <1>3, <1>4, <1>5

-----------------------------------------------------------------------------
(* Where a line begins. *)

(* The last newline of the first n characters is at p, or there is none.     *)
LastBreak(s, n, p) ==
  p \in 0..n /\ (p = 0 \/ s[p] = NL) /\ \A j \in (p + 1)..n : s[j] # NL

LEMMA LastBreakExists ==
  ASSUME NEW S, NEW s \in Seq(S), NEW n \in 0..Len(s)
  PROVE  \E p : LastBreak(s, n, p)
<1> DEFINE T == {k \in 0..n : \E p : LastBreak(s, k, p)}
<1>1. n \in Nat OBVIOUS
<1>2. 0 \in T
  <2>1. LastBreak(s, 0, 0) BY DEF LastBreak
  <2> QED BY <1>1, <2>1
<1>3. ASSUME NEW k \in 1..n, k - 1 \in T PROVE k \in T
  <2>1. PICK p : LastBreak(s, k - 1, p) BY <1>3
  <2>2. p \in 0..(k - 1) /\ (p = 0 \/ s[p] = NL) /\ \A j \in (p + 1)..(k - 1) : s[j] # NL
    BY <2>1 DEF LastBreak
  <2>3. CASE s[k] = NL
    <3>1. LastBreak(s, k, k) BY <2>3 DEF LastBreak
    <3> QED BY <1>1, <3>1
  <2>4. CASE s[k] # NL
    <3>1. p \in 0..k BY <2>2
    <3>2. ASSUME NEW j \in (p + 1)..k PROVE s[j] # NL
      <4>1. CASE j = k BY <2>4, <4>1
      <4>2. CASE j # k
        <5>1. j \in (p + 1)..(k - 1) BY <2>2, <4>2
        <5> QED BY <2>2, <5>1
      <4> QED BY <4>1, <4>2
    <3>3. LastBreak(s, k, p) BY <2>2, <3>1, <3>2 DEF LastBreak
    <3> QED BY <1>1, <3>3
  <2> QED BY <2>3, <2>4
<1>4. n \in T
  <2> HIDE DEF T
  <2>1. \A k \in 1..n : k - 1 \in T => k \in T BY <1>3
  <2>2. \A k \in 0..n : k \in T BY <1>1, <1>2, <2>1, Induction
  <2> QED BY <1>1, <2>2
<1> QED BY <1>4

LEMMA MaxIs ==
  ASSUME NEW A, NEW p \in A, \A j \in A : j \in Int /\ p >= j
  PROVE  Max(A) = p
<1> DEFINE m == CHOOSE x \in A : \A y \in A : x >= y
<1>1. m \in A /\ \A y \in A : m >= y OBVIOUS
<1>2. Max(A) = m BY DEF Max
<1> HIDE DEF m
<1>3. m >= p /\ p >= m /\ m \in Int /\ p \in Int BY <1>1
<1> QED BY <1>2, <1>3

(* LineStart and remainder are about it. *)
LEMMA LineStartIs ==
  ASSUME NEW S, NEW s \in Seq(S), NEW i \in 1..Len(s), NEW p, LastBreak(s, i - 1, p)
  PROVE  LineStart(s, i) = p + 1
<1> DEFINE A == {0} \cup {j \in Breaks(s) : j < i}
<1>1. p \in 0..(i - 1) /\ (p = 0 \/ s[p] = NL) /\ \A j \in (p + 1)..(i - 1) : s[j] # NL
  BY DEF LastBreak
<1>2. p \in A BY <1>1 DEF Breaks
<1>3. \A j \in A : j \in Nat /\ p >= j BY <1>1 DEF Breaks
<1> HIDE DEF A
<1>4. Max(A) = p BY <1>2, <1>3, MaxIs
<1> QED BY <1>4 DEF LineStart, A

LEMMA RemainderIs ==
  ASSUME NEW S, NEW s \in Seq(S), NEW p, LastBreak(s, Len(s), p)
  PROVE  remainder(s) = SubSeq(s, p + 1, Len(s))
<1> DEFINE A == {0} \cup Breaks(s)
<1>1. p \in 0..Len(s) /\ (p = 0 \/ s[p] = NL) /\ \A j \in (p + 1)..Len(s) : s[j] # NL
  BY DEF LastBreak
<1>2. p \in A BY <1>1 DEF Breaks
<1>3. \A j \in A : j \in Nat /\ p >= j BY <1>1 DEF Breaks
<1> HIDE DEF A
<1>4. Max(A) = p BY <1>2, <1>3, MaxIs
<1> QED BY <1>4 DEF remainder, A

-----------------------------------------------------------------------------
(* The lines that count, character by character. *)

Line(s, i) == SubSeq(s, LineStart(s, i), i - 1)

Extend(lines, s, base, i) == IF Counts(s, base, i) THEN Append(lines, Line(s, i)) ELSE lines

Scan(s, base, f) ==
  f = [i \in 0..Len(s) |-> IF i = 0 THEN <<>> ELSE Extend(f[i - 1], s, base, i)]

(* The scan exists, by induction on the length of the text. *)
LEMMA ScanExists ==
  ASSUME NEW S, NEW s \in Seq(S), NEW base
  PROVE  \E f : Scan(s, base, f)
<1> DEFINE N == Len(s)
           G(f, m) == /\ f = [i \in 0..m |-> f[i]] /\ f[0] = <<>>
                      /\ \A i \in 1..m : f[i] = Extend(f[i - 1], s, base, i)
           T == {m \in 0..N : \E f : G(f, m)}
<1>1. N \in Nat OBVIOUS
<1>2. 0 \in T
  <2>1. G([i \in 0..0 |-> <<>>], 0) OBVIOUS
  <2> HIDE DEF G
  <2> QED BY <1>1, <2>1
<1>3. ASSUME NEW k \in 1..N, k - 1 \in T PROVE k \in T
  <2>1. PICK f : G(f, k - 1) BY <1>3
  <2> DEFINE g == [i \in 0..k |-> IF i = k THEN Extend(f[k - 1], s, base, k) ELSE f[i]]
  <2>2. g = [i \in 0..k |-> g[i]] OBVIOUS
  <2>3. g[0] = <<>> BY <2>1
  <2>4. ASSUME NEW i \in 1..k PROVE g[i] = Extend(g[i - 1], s, base, i)
    <3>1. CASE i = k BY <3>1
    <3>2. CASE i # k
      <4>1. i \in 1..(k - 1) /\ g[i] = f[i] /\ g[i - 1] = f[i - 1] BY <3>2
      <4> QED BY <2>1, <4>1
    <3> QED BY <3>1, <3>2
  <2> HIDE DEF g
  <2>5. G(g, k) BY <2>2, <2>3, <2>4
  <2>6. k \in 0..N BY <1>1
  <2> HIDE DEF G
  <2> QED BY <2>5, <2>6
<1>4. N \in T
  <2> HIDE DEF N, T
  <2>1. \A k \in 1..N : k - 1 \in T => k \in T BY <1>3
  <2>2. \A k \in 0..N : k \in T BY <1>1, <1>2, <2>1, Induction
  <2> QED BY <1>1, <2>2
<1>5. PICK f : G(f, N) BY <1>4
<1>6. f = [i \in 0..N |-> IF i = 0 THEN <<>> ELSE Extend(f[i - 1], s, base, i)]
  <2>1. ASSUME NEW i \in 0..N PROVE f[i] = IF i = 0 THEN <<>> ELSE Extend(f[i - 1], s, base, i)
    <3>1. CASE i = 0 BY <1>5, <3>1
    <3>2. CASE i # 0
      <4>1. i \in 1..N BY <1>1, <3>2
      <4>2. f[i] = Extend(f[i - 1], s, base, i) BY <1>5, <4>1
      <4> QED BY <3>2, <4>2
    <3> QED BY <3>1, <3>2
  <2>2. f = [i \in 0..N |-> f[i]] BY <1>5
  <2> HIDE DEF N, G
  <2> QED BY <2>1, <2>2, Zenon
<1> QED BY <1>6 DEF Scan

(* counted_lines is where it ends. *)
LEMMA CountedIsScan ==
  ASSUME NEW S, NEW s \in Seq(S), NEW base
  PROVE  \E f : Scan(s, base, f) /\ counted_lines(s, base) = f[Len(s)]
<1> DEFINE f == CHOOSE g : g = [i \in 0..Len(s) |->
                  IF i = 0 THEN <<>>
                  ELSE IF Counts(s, base, i) THEN Append(g[i - 1], SubSeq(s, LineStart(s, i), i - 1))
                  ELSE g[i - 1]]
<1>1. \E g : g = [i \in 0..Len(s) |->
                  IF i = 0 THEN <<>>
                  ELSE IF Counts(s, base, i) THEN Append(g[i - 1], SubSeq(s, LineStart(s, i), i - 1))
                  ELSE g[i - 1]]
  <2>1. PICK g : Scan(s, base, g) BY ScanExists
  <2> QED BY <2>1, Zenon DEF Scan, Extend, Line
<1>2. f = [i \in 0..Len(s) |->
                  IF i = 0 THEN <<>>
                  ELSE IF Counts(s, base, i) THEN Append(f[i - 1], SubSeq(s, LineStart(s, i), i - 1))
                  ELSE f[i - 1]]
  BY <1>1, Zenon
<1>3. counted_lines(s, base) = f[Len(s)]
  BY Zenon DEF counted_lines
<1>4. Scan(s, base, f) BY <1>2, Zenon DEF Scan, Extend, Line
<1> QED BY <1>3, <1>4

(* A line of a text is a text. *)
LEMMA LineIsText ==
  ASSUME NEW S, NEW s \in Seq(S), NEW i \in 1..Len(s)
  PROVE  Line(s, i) \in Seq(S) /\ LineStart(s, i) \in 1..i
<1>1. i - 1 \in 0..Len(s) OBVIOUS
<1>2. PICK p : LastBreak(s, i - 1, p) BY <1>1, LastBreakExists
<1>3. p \in 0..(i - 1) /\ LineStart(s, i) = p + 1 BY <1>2, LineStartIs DEF LastBreak
<1>4. \A j \in (p + 1)..(i - 1) : s[j] \in S BY <1>3
<1> QED BY <1>3, <1>4, SubSeqProperties DEF Line

(* What a scan has at each character. *)
LEMMA ScanSteps ==
  ASSUME NEW S, NEW s \in Seq(S), NEW base, NEW f, Scan(s, base, f)
  PROVE  /\ f[0] = <<>>
         /\ \A i \in 1..Len(s) : f[i] = Extend(f[i - 1], s, base, i)
         /\ \A i \in 0..Len(s) : f[i] \in Seq(Seq(S))
<1> DEFINE N == Len(s)
           T == {i \in 0..N : f[i] \in Seq(Seq(S))}
<1>1. N \in Nat OBVIOUS
<1>2. \A i \in 0..N : f[i] = IF i = 0 THEN <<>> ELSE Extend(f[i - 1], s, base, i)
  BY Zenon DEF Scan
<1>3. f[0] = <<>> BY <1>1, <1>2
<1>4. ASSUME NEW i \in 1..N PROVE f[i] = Extend(f[i - 1], s, base, i)
  <2>1. i \in 0..N /\ i # 0 BY <1>1
  <2> QED BY <1>2, <2>1, Zenon
<1>5. 0 \in T
  <2>1. f[0] \in Seq(Seq(S)) BY <1>3
  <2> QED BY <1>1, <2>1
<1>6. ASSUME NEW k \in 1..N, k - 1 \in T PROVE k \in T
  <2>1. f[k - 1] \in Seq(Seq(S)) /\ k \in 0..N BY <1>1, <1>6
  <2>2. Line(s, k) \in Seq(S) BY LineIsText
  <2>3. f[k] \in Seq(Seq(S)) BY <1>4, <2>1, <2>2, AppendProperties DEF Extend
  <2> QED BY <2>1, <2>3
<1>7. \A i \in 0..N : i \in T
  <2> HIDE DEF N, T
  <2>1. \A k \in 1..N : k - 1 \in T => k \in T BY <1>6
  <2> QED BY <1>1, <1>5, <2>1, Induction
<1> QED BY <1>3, <1>4, <1>7

-----------------------------------------------------------------------------
(* A text cut at the end of a line. *)

(* Two texts that agree, one of them d characters further on. *)
LEMMA SubSeqShift ==
  ASSUME NEW S, NEW a, NEW b, NEW lo \in Int, NEW hi \in Int, NEW d \in Int,
         \A j \in lo..hi : a[j] \in S /\ b[j + d] = a[j]
  PROVE  SubSeq(a, lo, hi) = SubSeq(b, lo + d, hi + d)
<1> DEFINE x == SubSeq(a, lo, hi)
           y == SubSeq(b, lo + d, hi + d)
           n == hi - lo + 1
<1>1. /\ x \in Seq(S) /\ Len(x) = IF lo <= hi THEN n ELSE 0
      /\ \A i \in 1..n : x[i] = a[lo + i - 1]
  BY SubSeqProperties
<1>2. \A j \in (lo + d)..(hi + d) : b[j] \in S
  <2> SUFFICES ASSUME NEW j \in (lo + d)..(hi + d) PROVE b[j] \in S OBVIOUS
  <2>1. j - d \in lo..hi /\ (j - d) + d = j OBVIOUS
  <2> QED BY <2>1
<1>3. /\ y \in Seq(S) /\ Len(y) = IF lo + d <= hi + d THEN (hi + d) - (lo + d) + 1 ELSE 0
      /\ \A i \in 1..((hi + d) - (lo + d) + 1) : y[i] = b[(lo + d) + i - 1]
  BY <1>2, SubSeqProperties
<1> HIDE DEF x, y
<1>4. Len(x) = Len(y) /\ (hi + d) - (lo + d) + 1 = n /\ n \in Int BY <1>1, <1>3
<1>5. ASSUME NEW i \in 1..Len(x) PROVE x[i] = y[i]
  <2>1. i \in 1..n /\ lo + i - 1 \in lo..hi /\ (lo + d) + i - 1 = (lo + i - 1) + d BY <1>1, <1>4
  <2>2. x[i] = a[lo + i - 1] /\ y[i] = b[(lo + i - 1) + d] BY <1>1, <1>3, <1>4, <2>1
  <2> QED BY <2>1, <2>2
<1>6. x = y BY <1>1, <1>3, <1>4, <1>5, SeqEqual
<1> QED BY <1>6 DEF x, y

(* The lines up to the cut are those of the text. *)
LEMMA FirstLines ==
  ASSUME NEW S, NEW s \in Seq(S), NEW base, NEW m \in 0..Len(s),
         NEW v \in Seq(S), Len(v) = m, \A j \in 1..m : v[j] = s[j], NEW i \in 1..m
  PROVE  (Counts(v, base, i) <=> Counts(s, base, i)) /\ Line(v, i) = Line(s, i)
<1>1. i - 1 \in 0..Len(v) /\ i \in 1..Len(v) /\ i \in 1..Len(s) OBVIOUS
<1>2. PICK p : LastBreak(v, i - 1, p) BY <1>1, LastBreakExists
<1>3. p \in 0..(i - 1) /\ (p = 0 \/ v[p] = NL) /\ \A j \in (p + 1)..(i - 1) : v[j] # NL
  BY <1>2 DEF LastBreak
<1>4. \A j \in 1..i : j \in 1..m /\ v[j] = s[j] /\ s[j] \in S OBVIOUS
<1>5. LastBreak(s, i - 1, p)
  <2>1. p = 0 \/ s[p] = NL BY <1>3, <1>4
  <2>2. \A j \in (p + 1)..(i - 1) : s[j] # NL BY <1>3, <1>4
  <2> QED BY <1>3, <2>1, <2>2 DEF LastBreak
<1>6. LineStart(v, i) = p + 1 /\ LineStart(s, i) = p + 1 BY <1>1, <1>2, <1>5, LineStartIs
<1>7. Line(v, i) = Line(s, i)
  <2>1. \A j \in (p + 1)..(i - 1) : v[j] \in S /\ s[j + 0] = v[j] BY <1>3, <1>4
  <2>2. SubSeq(v, p + 1, i - 1) = SubSeq(s, (p + 1) + 0, (i - 1) + 0) BY <1>3, <2>1, SubSeqShift
  <2> QED BY <1>3, <1>6, <2>2 DEF Line
<1>8. i \in Breaks(v) <=> i \in Breaks(s) BY <1>1, <1>4 DEF Breaks
<1> QED BY <1>6, <1>7, <1>8 DEF Counts

(* The lines after it are those of what follows. *)
LEMMA LaterLines ==
  ASSUME NEW S, NEW s \in Seq(S), NEW base \in Nat, NEW m \in 0..Len(s), m = 0 \/ s[m] = NL,
         NEW u \in Seq(S), Len(u) = Len(s) - m, \A j \in 1..(Len(s) - m) : u[j] = s[j + m],
         NEW i \in 1..Len(u)
  PROVE  (Counts(u, base + m, i) <=> Counts(s, base, i + m)) /\ Line(u, i) = Line(s, i + m)
<1>1. i - 1 \in 0..Len(u) /\ i + m \in 1..Len(s) /\ i \in Nat /\ m \in Nat OBVIOUS
<1>2. PICK p : LastBreak(u, i - 1, p) BY <1>1, LastBreakExists
<1>3. p \in 0..(i - 1) /\ (p = 0 \/ u[p] = NL) /\ \A j \in (p + 1)..(i - 1) : u[j] # NL
  BY <1>2 DEF LastBreak
<1>4. \A j \in 1..i : u[j] = s[j + m] /\ u[j] \in S OBVIOUS
<1>5. LastBreak(s, (i + m) - 1, p + m)
  <2>1. p + m = 0 \/ s[p + m] = NL
    <3>1. CASE p = 0 BY <1>1, <3>1
    <3>2. CASE p # 0
      <4>1. p \in 1..i /\ u[p] = NL BY <1>3, <3>2
      <4> QED BY <1>4, <4>1
    <3> QED BY <3>1, <3>2
  <2>2. ASSUME NEW j \in (p + m + 1)..((i + m) - 1) PROVE s[j] # NL
    <3>1. j - m \in (p + 1)..(i - 1) /\ j - m \in 1..i /\ (j - m) + m = j BY <1>1, <1>3
    <3>2. u[j - m] # NL BY <1>3, <3>1
    <3>3. u[j - m] = s[(j - m) + m] BY <1>4, <3>1
    <3> QED BY <3>1, <3>2, <3>3
  <2>3. p + m \in 0..((i + m) - 1) BY <1>1, <1>3
  <2> QED BY <2>1, <2>2, <2>3 DEF LastBreak
<1>6. LineStart(u, i) = p + 1 /\ LineStart(s, i + m) = (p + m) + 1
  BY <1>1, <1>2, <1>5, LineStartIs
<1>7. Line(u, i) = Line(s, i + m)
  <2>1. \A j \in (p + 1)..(i - 1) : u[j] \in S /\ s[j + m] = u[j] BY <1>3, <1>4
  <2>2. SubSeq(u, p + 1, i - 1) = SubSeq(s, (p + 1) + m, (i - 1) + m)
    <3> DEFINE lo == p + 1
               hi == i - 1
    <3>1. lo \in Int /\ hi \in Int /\ m \in Int BY <1>1, <1>3
    <3>2. \A j \in lo..hi : u[j] \in S /\ s[j + m] = u[j] BY <2>1
    <3> HIDE DEF lo, hi
    <3>3. \A a, b : (\A j \in lo..hi : a[j] \in S /\ b[j + m] = a[j])
                     => SubSeq(a, lo, hi) = SubSeq(b, lo + m, hi + m)
      BY <3>1, SubSeqShift
    <3> QED BY <3>2, <3>3 DEF lo, hi
  <2>3. (p + 1) + m = (p + m) + 1 /\ (i - 1) + m = (i + m) - 1 BY <1>1, <1>3
  <2> QED BY <1>6, <2>2, <2>3 DEF Line
<1>8. i \in Breaks(u) <=> i + m \in Breaks(s)
  <2>1. u[i] = s[i + m] BY <1>4
  <2> QED BY <1>1, <2>1 DEF Breaks
<1>9. (base + m) + i = base + (i + m) /\ i - (p + 1) = (i + m) - ((p + m) + 1) BY <1>1, <1>3
<1> QED BY <1>6, <1>7, <1>8, <1>9 DEF Counts

(* So the lines of the text are both, one after the other. *)
LEMMA CountedSplit ==
  ASSUME NEW S, NEW s \in Seq(S), NEW base \in Nat, NEW m \in 0..Len(s), m = 0 \/ s[m] = NL,
         NEW v \in Seq(S), Len(v) = m, \A j \in 1..m : v[j] = s[j],
         NEW u \in Seq(S), Len(u) = Len(s) - m, \A j \in 1..(Len(s) - m) : u[j] = s[j + m]
  PROVE  /\ counted_lines(s, base) = counted_lines(v, base) \o counted_lines(u, base + m)
         /\ counted_lines(v, base) \in Seq(Seq(S)) /\ counted_lines(u, base + m) \in Seq(Seq(S))
<1> DEFINE N == Len(s)
           L == Seq(S)
<1>1. PICK f : Scan(s, base, f) /\ counted_lines(s, base) = f[N] BY CountedIsScan
<1>2. PICK g : Scan(v, base, g) /\ counted_lines(v, base) = g[m] BY CountedIsScan
<1>3. PICK h : Scan(u, base + m, h) /\ counted_lines(u, base + m) = h[N - m]
  <2>1. PICK h : Scan(u, base + m, h) /\ counted_lines(u, base + m) = h[Len(u)] BY CountedIsScan
  <2> QED BY <2>1
<1>4. N \in Nat /\ m \in Nat /\ N - m \in Nat /\ m + (N - m) = N OBVIOUS
<1>5. /\ f[0] = <<>> /\ \A i \in 1..N : f[i] = Extend(f[i - 1], s, base, i)
      /\ \A i \in 0..N : f[i] \in Seq(L)
  BY <1>1, ScanSteps
<1>6. /\ g[0] = <<>> /\ \A i \in 1..m : g[i] = Extend(g[i - 1], v, base, i)
      /\ \A i \in 0..m : g[i] \in Seq(L)
  BY <1>2, ScanSteps
<1>7. /\ h[0] = <<>> /\ \A i \in 1..(N - m) : h[i] = Extend(h[i - 1], u, base + m, i)
      /\ \A i \in 0..(N - m) : h[i] \in Seq(L)
  BY <1>3, ScanSteps
<1>8. f[m] = g[m]
  <2> DEFINE T == {i \in 0..m : f[i] = g[i]}
  <2>1. 0 \in T BY <1>4, <1>5, <1>6
  <2>2. ASSUME NEW k \in 1..m, k - 1 \in T PROVE k \in T
    <3>1. f[k - 1] = g[k - 1] /\ k \in 1..N /\ k \in 0..m BY <1>4, <2>2
    <3>2. (Counts(v, base, k) <=> Counts(s, base, k)) /\ Line(v, k) = Line(s, k) BY FirstLines
    <3>3. f[k] = Extend(f[k - 1], s, base, k) /\ g[k] = Extend(g[k - 1], v, base, k)
      BY <1>5, <1>6, <3>1
    <3>4. f[k] = g[k] BY <3>1, <3>2, <3>3 DEF Extend
    <3> QED BY <3>1, <3>4
  <2>3. m \in T
    <3> HIDE DEF T
    <3>1. \A k \in 1..m : k - 1 \in T => k \in T BY <2>2
    <3>2. \A k \in 0..m : k \in T BY <1>4, <2>1, <3>1, Induction
    <3> QED BY <1>4, <3>2
  <2> QED BY <2>3
<1>9. f[m] \in Seq(L) BY <1>4, <1>5
<1>10. f[N] = f[m] \o h[N - m]
  <2> DEFINE M == N - m
             T == {i \in 0..M : f[i + m] = f[m] \o h[i]}
  <2>1. 0 \in T
    <3>1. f[m] \o h[0] = f[m] BY <1>7, <1>9, ConcatEmptySeq
    <3>2. 0 + m = m /\ 0 \in 0..M BY <1>4
    <3>3. f[0 + m] = f[m] \o h[0] BY <3>1, <3>2
    <3> HIDE DEF M
    <3> QED BY <3>2, <3>3
  <2>2. ASSUME NEW k \in 1..M, k - 1 \in T PROVE k \in T
    <3>1. (k - 1) + m = (k + m) - 1 /\ k + m \in 1..N /\ k \in 0..M /\ k - 1 \in 0..M BY <1>4
    <3>2. f[(k + m) - 1] = f[m] \o h[k - 1]
      <4>1. f[(k - 1) + m] = f[m] \o h[k - 1] BY <2>2
      <4> QED BY <3>1, <4>1
    <3>3. k \in 1..Len(u) OBVIOUS
    <3>4. (Counts(u, base + m, k) <=> Counts(s, base, k + m)) /\ Line(u, k) = Line(s, k + m)
      BY <3>3, LaterLines
    <3>5. /\ f[k + m] = Extend(f[(k + m) - 1], s, base, k + m)
          /\ h[k] = Extend(h[k - 1], u, base + m, k)
      BY <1>5, <1>7, <3>1
    <3>6. h[k - 1] \in Seq(L) /\ Line(u, k) \in L BY <1>7, <3>1, <3>3, LineIsText
    <3>7. Append(f[m] \o h[k - 1], Line(u, k)) = f[m] \o Append(h[k - 1], Line(u, k))
      <4> HIDE DEF L
      <4> DEFINE a == f[m]
                 b == h[k - 1]
                 c == Line(u, k)
      <4>1. a \in Seq(L) /\ b \in Seq(L) /\ c \in L BY <1>9, <3>6
      <4> HIDE DEF a, b, c
      <4>2. Append(a \o b, c) = (a \o b) \o <<c>> /\ Append(b, c) = b \o <<c>> /\ <<c>> \in Seq(L)
        BY <4>1, ConcatProperties, AppendIsConcat
      <4>3. (a \o b) \o <<c>> = a \o (b \o <<c>>) BY <4>1, <4>2, ConcatAssociative
      <4>4. Append(a \o b, c) = a \o Append(b, c) BY <4>2, <4>3
      <4> QED BY <4>4 DEF a, b, c
    <3>8. f[k + m] = f[m] \o h[k] BY <3>2, <3>4, <3>5, <3>7 DEF Extend
    <3> QED BY <3>1, <3>8
  <2>3. M \in T
    <3> HIDE DEF T
    <3>1. \A k \in 1..M : k - 1 \in T => k \in T BY <2>2
    <3>2. \A k \in 0..M : k \in T BY <1>4, <2>1, <3>1, Induction
    <3> QED BY <1>4, <3>2
  <2>4. f[M + m] = f[m] \o h[M] BY <2>3
  <2>5. M + m = N BY <1>4
  <2> QED BY <2>4, <2>5
<1>11. h[N - m] \in Seq(L) BY <1>4, <1>7
<1> QED BY <1>1, <1>2, <1>3, <1>8, <1>9, <1>10, <1>11

(* A text without a newline has no line. *)
LEMMA NoLines ==
  ASSUME NEW S, NEW s \in Seq(S), NEW base, \A i \in 1..Len(s) : s[i] # NL
  PROVE  counted_lines(s, base) = <<>>
<1> DEFINE N == Len(s)
<1>1. PICK f : Scan(s, base, f) /\ counted_lines(s, base) = f[N] BY CountedIsScan
<1>2. N \in Nat /\ f[0] = <<>> /\ \A i \in 1..N : f[i] = Extend(f[i - 1], s, base, i)
  BY <1>1, ScanSteps
<1> DEFINE T == {i \in 0..N : f[i] = <<>>}
<1>3. 0 \in T BY <1>2
<1>4. ASSUME NEW k \in 1..N, k - 1 \in T PROVE k \in T
  <2>1. f[k - 1] = <<>> /\ k \in 0..N BY <1>2, <1>4
  <2>2. ~Counts(s, base, k) BY DEF Counts, Breaks
  <2>3. f[k] = <<>> BY <1>2, <2>1, <2>2 DEF Extend
  <2> QED BY <2>1, <2>3
<1>5. N \in T
  <2> HIDE DEF N, T
  <2>1. \A k \in 1..N : k - 1 \in T => k \in T BY <1>4
  <2>2. \A k \in 0..N : k \in T BY <1>2, <1>3, <2>1, Induction
  <2> QED BY <1>2, <2>2
<1> QED BY <1>1, <1>5

-----------------------------------------------------------------------------
(* The ring. *)

(* How many of n lines have left the ring. *)
Dropped(n) == IF n > REPETITION_THRESHOLD THEN n - REPETITION_THRESHOLD ELSE 0

LEMMA RingIs ==
  ASSUME NEW S, NEW lines \in Seq(S)
  PROVE  /\ Dropped(Len(lines)) \in 0..Len(lines)
         /\ ring(lines) = SubSeq(lines, Dropped(Len(lines)) + 1, Len(lines))
         /\ ring(lines) \in Seq(S) /\ Len(ring(lines)) = Len(lines) - Dropped(Len(lines))
         /\ \A i \in 1..(Len(lines) - Dropped(Len(lines))) :
              ring(lines)[i] = lines[i + Dropped(Len(lines))]
<1> DEFINE n == Len(lines)
           d == Dropped(n)
           A == {1, n - REPETITION_THRESHOLD + 1}
<1>1. n \in Nat /\ REPETITION_THRESHOLD \in Nat /\ REPETITION_THRESHOLD # 0 BY GuardAssumption
<1>2. d \in 0..n BY <1>1 DEF Dropped
<1>3. Max(A) = d + 1
  <2>1. d + 1 \in A /\ \A j \in A : j \in Int /\ d + 1 >= j BY <1>1 DEF Dropped
  <2> HIDE DEF A, d
  <2> QED BY <2>1, MaxIs
<1> HIDE DEF d
<1>4. ring(lines) = SubSeq(lines, d + 1, n) BY <1>3 DEF ring
<1>5. \A j \in (d + 1)..n : lines[j] \in S BY <1>1, <1>2
<1>6. d + 1 \in Int /\ n \in Int BY <1>1, <1>2
<1>7. /\ ring(lines) \in Seq(S) /\ Len(ring(lines)) = (IF d + 1 <= n THEN n - (d + 1) + 1 ELSE 0)
      /\ \A i \in 1..(n - (d + 1) + 1) : ring(lines)[i] = lines[(d + 1) + i - 1]
  BY <1>4, <1>5, <1>6, SubSeqProperties
<1>8. n - (d + 1) + 1 = n - d BY <1>1, <1>2
<1>9. Len(ring(lines)) = n - d BY <1>1, <1>2, <1>7
<1>10. ASSUME NEW i \in 1..(n - d) PROVE ring(lines)[i] = lines[i + d]
  <2>1. (d + 1) + i - 1 = i + d BY <1>1, <1>2
  <2>2. i \in 1..(n - (d + 1) + 1) BY <1>8
  <2>3. ring(lines)[i] = lines[(d + 1) + i - 1] BY <1>7, <2>2
  <2> QED BY <2>1, <2>3
<1> QED BY <1>2, <1>4, <1>7, <1>9, <1>10 DEF d

(* Lines that join the ring are judged as if every line before were in it.   *)
LEMMA RingJudges ==
  ASSUME NEW S, NEW old \in Seq(S), NEW new \in Seq(S), RunEnds(old) = {}
  PROVE  /\ RunEnds(old \o new) # {}
              <=> {k \in RunEnds(ring(old) \o new) : k > Len(ring(old))} # {}
         /\ ring(ring(old) \o new) = ring(old \o new)
<1> DEFINE T == REPETITION_THRESHOLD
           n == Len(old)
           m == Len(new)
           d == Dropped(n)
           r == ring(old)
           short == r \o new
           long == old \o new
<1>1. n \in Nat /\ m \in Nat /\ T \in Nat /\ T # 0 BY GuardAssumption
<1>2. d \in 0..n /\ r \in Seq(S) /\ Len(r) = n - d /\ \A i \in 1..(n - d) : r[i] = old[i + d]
  BY RingIs
<1>3. d = IF n > T THEN n - T ELSE 0 BY DEF Dropped
<1> HIDE DEF d, r
<1>4. /\ long \in Seq(S) /\ Len(long) = n + m
      /\ \A i \in 1..(n + m) : long[i] = IF i <= n THEN old[i] ELSE new[i - n]
  BY ConcatProperties
<1>5. /\ short \in Seq(S) /\ Len(short) = (n - d) + m
      /\ \A i \in 1..((n - d) + m) : short[i] = IF i <= n - d THEN r[i] ELSE new[i - (n - d)]
  <2>1. /\ short \in Seq(S) /\ Len(short) = Len(r) + m
        /\ \A i \in 1..(Len(r) + m) : short[i] = IF i <= Len(r) THEN r[i] ELSE new[i - Len(r)]
    BY <1>2, ConcatProperties
  <2> HIDE DEF short
  <2> QED BY <1>2, <2>1
<1> HIDE DEF short, long
<1>6. ASSUME NEW i \in 1..((n - d) + m) PROVE short[i] = long[i + d] /\ i + d \in 1..(n + m)
  <2>1. i + d \in 1..(n + m) BY <1>1, <1>2
  <2>2. CASE i <= n - d
    <3>1. i \in 1..(n - d) /\ i + d <= n BY <1>1, <1>2, <2>2
    <3>2. short[i] = old[i + d] BY <1>2, <1>5, <2>2, <3>1
    <3>3. long[i + d] = old[i + d] BY <1>4, <2>1, <3>1
    <3> QED BY <2>1, <3>2, <3>3
  <2>3. CASE ~(i <= n - d)
    <3>1. ~(i + d <= n) /\ (i + d) - n = i - (n - d) BY <1>1, <1>2, <2>3
    <3>2. short[i] = new[i - (n - d)] BY <1>5, <2>3
    <3>3. long[i + d] = new[(i + d) - n] BY <1>4, <2>1, <3>1
    <3> QED BY <2>1, <3>1, <3>2, <3>3
  <2> QED BY <2>2, <2>3
<1>7. ASSUME NEW k \in RunEnds(short), k > Len(r) PROVE k + d \in RunEnds(long)
  <2>1. /\ k \in 1..((n - d) + m) /\ k >= T
        /\ \A j \in (k - T + 1)..k : short[j] = short[k]
    BY <1>5 DEF RunEnds
  <2>2. k + d \in 1..(n + m) /\ long[k + d] = short[k] BY <1>6, <2>1
  <2>3. k + d >= T BY <1>1, <1>2, <2>1
  <2>4. ASSUME NEW j \in ((k + d) - T + 1)..(k + d) PROVE long[j] = long[k + d]
    <3>1. j - d \in (k - T + 1)..k /\ j - d \in 1..((n - d) + m) /\ (j - d) + d = j
      BY <1>1, <1>2, <2>1
    <3>2. short[j - d] = short[k] BY <2>1, <3>1
    <3>3. short[j - d] = long[(j - d) + d] BY <1>6, <3>1
    <3> QED BY <2>2, <3>1, <3>2, <3>3
  <2>5. k + d \in DOMAIN long BY <1>4, <2>2
  <2> QED BY <2>3, <2>4, <2>5 DEF RunEnds
<1>8. ASSUME NEW k \in RunEnds(long) PROVE k - d \in RunEnds(short) /\ k - d > Len(r)
  <2>1. /\ k \in 1..(n + m) /\ k >= T
        /\ \A j \in (k - T + 1)..k : long[j] = long[k]
    BY <1>4 DEF RunEnds
  <2>2. k > n
    <3> SUFFICES ASSUME k <= n PROVE FALSE BY <1>1, <2>1
    <3>1. k \in DOMAIN old /\ long[k] = old[k] BY <1>1, <1>4, <2>1
    <3>2. ASSUME NEW j \in (k - T + 1)..k PROVE old[j] = old[k]
      <4>1. j \in 1..(n + m) /\ j <= n BY <1>1, <2>1
      <4>2. long[j] = old[j] BY <1>4, <4>1
      <4> QED BY <2>1, <3>1, <4>2
    <3>3. k \in RunEnds(old) BY <2>1, <3>1, <3>2 DEF RunEnds
    <3> QED BY <3>3
  <2>3. k - d \in 1..((n - d) + m) /\ k - d > n - d /\ k - d >= T /\ (k - d) + d = k
    BY <1>1, <1>2, <1>3, <2>1, <2>2
  <2>4. short[k - d] = long[k] BY <1>6, <2>3
  <2>5. ASSUME NEW j \in ((k - d) - T + 1)..(k - d) PROVE short[j] = short[k - d]
    <3>1. j + d \in (k - T + 1)..k /\ j \in 1..((n - d) + m) BY <1>1, <1>2, <2>1, <2>3
    <3>2. long[j + d] = long[k] BY <2>1, <3>1
    <3>3. short[j] = long[j + d] BY <1>6, <3>1
    <3> QED BY <2>4, <3>2, <3>3
  <2>6. k - d \in DOMAIN short BY <1>5, <2>3
  <2>7. k - d \in RunEnds(short) BY <2>3, <2>5, <2>6 DEF RunEnds
  <2> QED BY <1>2, <2>3, <2>7
<1>9. RunEnds(long) # {} <=> {k \in RunEnds(short) : k > Len(r)} # {}
  BY <1>7, <1>8
<1>10. ring(short) = ring(long)
  <2> DEFINE e == Dropped((n - d) + m)
             c == Dropped(n + m)
  <2>1. e + d = c /\ e \in 0..((n - d) + m) /\ c \in 0..(n + m)
    <3>1. /\ e = IF (n - d) + m > T THEN (n - d) + m - T ELSE 0
          /\ c = IF n + m > T THEN n + m - T ELSE 0
      BY <1>1, <1>2 DEF Dropped
    <3> HIDE DEF e, c, T, n, m
    <3>2. CASE n > T
      <4>1. d = n - T BY <1>3, <3>2
      <4> QED BY <1>1, <3>1, <3>2, <4>1
    <3>3. CASE ~(n > T)
      <4>1. d = 0 BY <1>3, <3>3
      <4> QED BY <1>1, <3>1, <3>3, <4>1
    <3> QED BY <3>2, <3>3
  <2>2. ring(short) = SubSeq(short, e + 1, (n - d) + m) BY <1>5, RingIs
  <2>3. ring(long) = SubSeq(long, c + 1, n + m) BY <1>4, RingIs
  <2> DEFINE lo == e + 1
             hi == (n - d) + m
  <2>4. lo \in Int /\ hi \in Int /\ d \in Int /\ lo + d = c + 1 /\ hi + d = n + m
    BY <1>1, <1>2, <2>1
  <2>5. ASSUME NEW j \in lo..hi PROVE short[j] \in S /\ long[j + d] = short[j]
    <3>1. j \in 1..((n - d) + m) BY <1>1, <1>2, <2>1
    <3> QED BY <1>5, <1>6, <3>1
  <2> HIDE DEF lo, hi, e, c
  <2>6. \A a, b : (\A j \in lo..hi : a[j] \in S /\ b[j + d] = a[j])
                     => SubSeq(a, lo, hi) = SubSeq(b, lo + d, hi + d)
    BY <2>4, SubSeqShift
  <2>7. SubSeq(short, lo, hi) = SubSeq(long, lo + d, hi + d) BY <2>5, <2>6
  <2>8. ring(short) = SubSeq(short, lo, hi) BY <2>2 DEF lo, hi
  <2>9. ring(long) = SubSeq(long, lo + d, hi + d) BY <2>3, <2>4
  <2> QED BY <2>7, <2>8, <2>9
<1> QED BY <1>9, <1>10 DEF short, long, r

-----------------------------------------------------------------------------
(* One delta. *)

(* The text t up to its last newline, at b, and the rest q after it. *)
Cut(t, b, q) ==
  /\ LastBreak(t, Len(t), b)
  /\ q \in Seq(Chars) /\ Len(q) = Len(t) - b
  /\ \A j \in 1..(Len(t) - b) : q[j] = t[j + b]

(* The text t up to b is also v. *)
Halves(t, b, v, q) ==
  /\ t \in Seq(Chars) /\ v \in Seq(Chars) /\ q \in Seq(Chars)
  /\ b \in 0..Len(t) /\ (b = 0 \/ t[b] = NL)
  /\ Len(v) = b /\ \A j \in 1..b : v[j] = t[j]
  /\ Len(q) = Len(t) - b /\ \A j \in 1..(Len(t) - b) : q[j] = t[j + b]

LEMMA LinesOfHalves ==
  ASSUME NEW t, NEW b, NEW v, NEW q, Halves(t, b, v, q)
  PROVE  /\ counted_lines(t, 0) = counted_lines(v, 0) \o counted_lines(q, b)
         /\ counted_lines(v, 0) \in Seq(Seq(Chars)) /\ counted_lines(q, b) \in Seq(Seq(Chars))
<1> USE DEF Halves
<1>1. t \in Seq(Chars) /\ v \in Seq(Chars) /\ q \in Seq(Chars) OBVIOUS
<1>2. b \in 0..Len(t) /\ (b = 0 \/ t[b] = NL) OBVIOUS
<1>3. Len(v) = b /\ \A j \in 1..b : v[j] = t[j] OBVIOUS
<1>4. Len(q) = Len(t) - b /\ \A j \in 1..(Len(t) - b) : q[j] = t[j + b] OBVIOUS
<1>5. 0 \in Nat /\ 0 + b = b BY <1>1, <1>2
<1> HIDE DEF Halves
<1>6. /\ counted_lines(t, 0) = counted_lines(v, 0) \o counted_lines(q, 0 + b)
      /\ counted_lines(v, 0) \in Seq(Seq(Chars)) /\ counted_lines(q, 0 + b) \in Seq(Seq(Chars))
  BY <1>1, <1>2, <1>3, <1>4, <1>5, CountedSplit
<1> QED BY <1>5, <1>6

(* What is kept of the text and the delta is what the whole text has there.  *)
Joined(t, b, x, y) ==
  /\ x \in Seq(Chars) /\ y \in Seq(Chars)
  /\ b \in 0..Len(t) /\ (b = 0 \/ x[b] = NL)
  /\ Len(t) <= Len(x) /\ \A j \in 1..Len(t) : x[j] = t[j]
  /\ Len(y) = Len(x) - b /\ \A j \in 1..(Len(x) - b) : y[j] = x[j + b]

LEMMA BufferIsText ==
  ASSUME NEW t \in Seq(Chars), NEW delta \in Seq(Chars), NEW b, NEW q, Cut(t, b, q)
  PROVE  Joined(t, b, t \o delta, q \o delta)
<1> DEFINE n == Len(t)
           m == Len(delta)
           x == t \o delta
           y == q \o delta
<1>1. n \in Nat /\ m \in Nat OBVIOUS
<1>2. b \in 0..n /\ (b = 0 \/ t[b] = NL) BY DEF Cut, LastBreak
<1>3. q \in Seq(Chars) /\ Len(q) = n - b /\ \A j \in 1..(n - b) : q[j] = t[j + b] BY DEF Cut
<1>4. /\ x \in Seq(Chars) /\ Len(x) = n + m
      /\ \A i \in 1..(n + m) : x[i] = IF i <= n THEN t[i] ELSE delta[i - n]
  BY ConcatProperties
<1>5. /\ y \in Seq(Chars) /\ Len(y) = (n - b) + m
      /\ \A i \in 1..((n - b) + m) : y[i] = IF i <= n - b THEN q[i] ELSE delta[i - (n - b)]
  <2>1. /\ y \in Seq(Chars) /\ Len(y) = Len(q) + m
        /\ \A i \in 1..(Len(q) + m) : y[i] = IF i <= Len(q) THEN q[i] ELSE delta[i - Len(q)]
    BY <1>3, ConcatProperties
  <2> HIDE DEF y
  <2> QED BY <1>3, <2>1
<1> HIDE DEF x, y
<1>6. \A j \in 1..n : x[j] = t[j] BY <1>1, <1>4
<1>7. b = 0 \/ x[b] = NL
  <2>1. CASE b # 0
    <3>1. b \in 1..n BY <1>1, <1>2, <2>1
    <3> QED BY <1>2, <1>6, <2>1, <3>1
  <2> QED BY <2>1
<1>8. Len(y) = Len(x) - b BY <1>1, <1>2, <1>4, <1>5
<1>9. ASSUME NEW j \in 1..(Len(x) - b) PROVE y[j] = x[j + b]
  <2>1. j \in 1..((n - b) + m) /\ j + b \in 1..(n + m) BY <1>1, <1>2, <1>4
  <2>2. CASE j <= n - b
    <3>1. j \in 1..(n - b) /\ j + b <= n BY <1>1, <1>2, <2>1, <2>2
    <3> QED BY <1>3, <1>4, <1>5, <2>1, <2>2, <3>1
  <2>3. CASE ~(j <= n - b)
    <3>1. ~(j + b <= n) /\ (j + b) - n = j - (n - b) BY <1>1, <1>2, <2>1, <2>3
    <3>2. y[j] = delta[j - (n - b)] BY <1>5, <2>1, <2>3
    <3>3. x[j + b] = delta[(j + b) - n] BY <1>4, <2>1, <3>1
    <3> QED BY <3>1, <3>2, <3>3
  <2> QED BY <2>2, <2>3
<1>10. Len(t) <= Len(x) BY <1>1, <1>4
<1>11. Joined(t, b, x, y) BY <1>2, <1>4, <1>5, <1>6, <1>7, <1>8, <1>9, <1>10 DEF Joined
<1> QED BY <1>11 DEF x, y

(* The delta brings the lines of the buffer, after those of the text. *)
LEMMA LinesOfDelta ==
  ASSUME NEW t \in Seq(Chars), NEW delta \in Seq(Chars), NEW b, NEW q, Cut(t, b, q)
  PROVE  /\ counted_lines(t, 0) \in Seq(Seq(Chars))
         /\ counted_lines(q \o delta, b) \in Seq(Seq(Chars))
         /\ counted_lines(t \o delta, 0) = counted_lines(t, 0) \o counted_lines(q \o delta, b)
<1> DEFINE v == SubSeq(t, 1, b)
           x == t \o delta
           y == q \o delta
<1>1. /\ b \in 0..Len(t) /\ (b = 0 \/ t[b] = NL) /\ \A j \in (b + 1)..Len(t) : t[j] # NL
      /\ q \in Seq(Chars) /\ Len(q) = Len(t) - b /\ \A j \in 1..(Len(t) - b) : q[j] = t[j + b]
  BY DEF Cut, LastBreak
<1>0. Joined(t, b, x, y) BY BufferIsText
<1>3. v \in Seq(Chars) /\ Len(v) = b /\ \A j \in 1..b : v[j] = t[j]
  <2>1. \A j \in 1..b : t[j] \in Chars BY <1>1
  <2>2. b \in Int /\ 1 \in Int /\ b - 1 + 1 = b BY <1>1
  <2>3. /\ v \in Seq(Chars) /\ Len(v) = (IF 1 <= b THEN b - 1 + 1 ELSE 0)
        /\ \A i \in 1..(b - 1 + 1) : v[i] = t[1 + i - 1]
    BY <2>1, <2>2, SubSeqProperties
  <2> HIDE DEF v
  <2>4. Len(v) = b BY <1>1, <2>3
  <2>5. ASSUME NEW j \in 1..b PROVE v[j] = t[j]
    <3>1. 1 + j - 1 = j BY <2>2
    <3> QED BY <2>2, <2>3, <3>1
  <2> QED BY <2>3, <2>4, <2>5
<1> HIDE DEF v, x, y
<1>2. /\ x \in Seq(Chars) /\ y \in Seq(Chars)
      /\ b = 0 \/ x[b] = NL
      /\ Len(t) <= Len(x) /\ \A j \in 1..Len(t) : x[j] = t[j]
      /\ Len(y) = Len(x) - b /\ \A j \in 1..(Len(x) - b) : y[j] = x[j + b]
  BY <1>0 DEF Joined
<1>4. b \in 0..Len(x) /\ \A j \in 1..b : v[j] = x[j]
  <2>1. b \in 0..Len(x) BY <1>1, <1>2
  <2>2. ASSUME NEW j \in 1..b PROVE v[j] = x[j]
    <3>1. j \in 1..Len(t) BY <1>1
    <3> QED BY <1>2, <1>3, <3>1
  <2> QED BY <2>1, <2>2
<1>5. counted_lines(q, b) = <<>>
  <2>1. ASSUME NEW i \in 1..Len(q) PROVE q[i] # NL
    <3>1. i \in 1..(Len(t) - b) /\ i + b \in (b + 1)..Len(t) BY <1>1
    <3> QED BY <1>1, <3>1
  <2> QED BY <1>1, <2>1, NoLines
<1>6. /\ counted_lines(t, 0) = counted_lines(v, 0) \o counted_lines(q, b)
      /\ counted_lines(v, 0) \in Seq(Seq(Chars))
  <2>1. Halves(t, b, v, q) BY <1>1, <1>3 DEF Halves
  <2> QED BY <2>1, LinesOfHalves
<1>7. /\ counted_lines(x, 0) = counted_lines(v, 0) \o counted_lines(y, b)
      /\ counted_lines(y, b) \in Seq(Seq(Chars))
  <2>1. Halves(x, b, v, y) BY <1>2, <1>3, <1>4 DEF Halves
  <2> QED BY <2>1, LinesOfHalves
<1>8. counted_lines(t, 0) = counted_lines(v, 0)
  BY <1>5, <1>6, ConcatEmptySeq
<1> QED BY <1>6, <1>7, <1>8 DEF x, y

(* What follows the buffer's last newline follows the text's. *)
LEMMA RestOfDelta ==
  ASSUME NEW t \in Seq(Chars), NEW delta \in Seq(Chars), NEW b, NEW q, Cut(t, b, q)
  PROVE  Cut(t \o delta, b + Len(q \o delta) - Len(remainder(q \o delta)), remainder(q \o delta))
<1> DEFINE x == t \o delta
           y == q \o delta
           z == remainder(y)
<1>0. Joined(t, b, x, y) BY BufferIsText
<1> HIDE DEF x, y
<1>1. /\ x \in Seq(Chars) /\ y \in Seq(Chars)
      /\ b \in 0..Len(t) /\ (b = 0 \/ x[b] = NL)
      /\ Len(t) <= Len(x)
      /\ Len(y) = Len(x) - b /\ \A j \in 1..(Len(x) - b) : y[j] = x[j + b]
  BY <1>0 DEF Joined
<1>2. Len(x) \in Nat /\ Len(y) \in Nat /\ b \in Nat BY <1>1
<1>3. PICK p : LastBreak(y, Len(y), p)
  <2>1. Len(y) \in 0..Len(y) BY <1>2
  <2> QED BY <1>1, <2>1, LastBreakExists, Zenon
<1>4. p \in 0..Len(y) /\ (p = 0 \/ y[p] = NL) /\ \A j \in (p + 1)..Len(y) : y[j] # NL
  BY <1>3 DEF LastBreak
<1>5. z = SubSeq(y, p + 1, Len(y)) BY <1>1, <1>3, RemainderIs
<1>6. z \in Seq(Chars) /\ Len(z) = Len(y) - p /\ \A j \in 1..(Len(y) - p) : z[j] = y[j + p]
  <2>1. \A j \in (p + 1)..Len(y) : y[j] \in Chars BY <1>1, <1>4
  <2>2. p + 1 \in Int /\ Len(y) \in Int /\ Len(y) - (p + 1) + 1 = Len(y) - p BY <1>2, <1>4
  <2>3. /\ z \in Seq(Chars)
        /\ Len(z) = (IF p + 1 <= Len(y) THEN Len(y) - (p + 1) + 1 ELSE 0)
        /\ \A i \in 1..(Len(y) - (p + 1) + 1) : z[i] = y[(p + 1) + i - 1]
    BY <1>5, <2>1, <2>2, SubSeqProperties
  <2>4. Len(z) = Len(y) - p BY <1>2, <1>4, <2>3
  <2>5. ASSUME NEW j \in 1..(Len(y) - p) PROVE z[j] = y[j + p]
    <3>1. (p + 1) + j - 1 = j + p BY <1>4
    <3>2. z[j] = y[(p + 1) + j - 1] BY <2>2, <2>3
    <3> QED BY <3>1, <3>2
  <2> QED BY <2>3, <2>4, <2>5
<1> HIDE DEF z
<1>7. b + Len(y) - Len(z) = b + p /\ Len(z) = Len(x) - (b + p) BY <1>1, <1>2, <1>4, <1>6
<1>8. LastBreak(x, Len(x), b + p)
  <2>1. b + p \in 0..Len(x) BY <1>1, <1>2, <1>4
  <2>2. b + p = 0 \/ x[b + p] = NL
    <3>1. CASE p = 0 BY <1>1, <1>2, <3>1
    <3>2. CASE p # 0
      <4>1. p \in 1..(Len(x) - b) /\ p + b = b + p BY <1>1, <1>2, <1>4, <3>2
      <4> QED BY <1>1, <1>4, <3>2, <4>1
    <3> QED BY <3>1, <3>2
  <2>3. ASSUME NEW j \in ((b + p) + 1)..Len(x) PROVE x[j] # NL
    <3>1. j - b \in (p + 1)..Len(y) /\ j - b \in 1..(Len(x) - b) /\ (j - b) + b = j
      BY <1>1, <1>2, <1>4
    <3>2. y[j - b] # NL BY <1>4, <3>1
    <3>3. y[j - b] = x[(j - b) + b] BY <1>1, <3>1
    <3> QED BY <3>1, <3>2, <3>3
  <2> QED BY <2>1, <2>2, <2>3 DEF LastBreak
<1>9. ASSUME NEW j \in 1..(Len(x) - (b + p)) PROVE z[j] = x[j + (b + p)]
  <2>1. j \in 1..(Len(y) - p) /\ j + p \in 1..(Len(x) - b) /\ (j + p) + b = j + (b + p)
    BY <1>1, <1>2, <1>4
  <2>2. z[j] = y[j + p] BY <1>6, <2>1
  <2>3. y[j + p] = x[(j + p) + b] BY <1>1, <2>1
  <2> QED BY <2>1, <2>2, <2>3
<1>10. Cut(x, b + p, z) BY <1>6, <1>7, <1>8, <1>9 DEF Cut
<1> QED BY <1>7, <1>10 DEF x, y, z

-----------------------------------------------------------------------------
(* The invariant: as long as nothing has tripped, the guard's state is a     *)
(* function of the text fed, and the text is neither too long nor repeats.   *)
Judged ==
  /\ text \in Seq(Chars) /\ chars = Len(text)
  /\ tripped = None =>
       /\ Len(text) <= TokenCapChars
       /\ Cut(text, line_base, pending)
       /\ recent = ring(counted_lines(text, 0))
       /\ RunEnds(counted_lines(text, 0)) = {}
  /\ tripped # None => OverCap(text) \/ Repeats(text)

LEMMA InitJudged == Init => Judged
<1> SUFFICES ASSUME Init PROVE Judged OBVIOUS
<1>1. text = <<>> /\ pending = <<>> /\ line_base = 0 /\ recent = <<>> /\ chars = 0 /\ tripped = None
  BY DEF Init
<1>2. text \in Seq(Chars) /\ Len(text) = 0 BY <1>1
<1>3. Cut(text, line_base, pending) BY <1>1, <1>2 DEF Cut, LastBreak
<1>4. counted_lines(text, 0) = <<>>
  <2>1. \A i \in 1..Len(text) : text[i] # NL BY <1>2
  <2> QED BY <1>2, <2>1, NoLines
<1>5. ring(<<>>) = <<>>
  <2>1. <<>> \in Seq(Chars) /\ Len(<<>>) = 0 OBVIOUS
  <2>2. ring(<<>>) \in Seq(Chars) /\ Dropped(0) \in 0..0 /\ Len(ring(<<>>)) = 0 - Dropped(0)
    BY <2>1, RingIs
  <2>3. Len(ring(<<>>)) = 0 BY <2>2
  <2> QED BY <2>2, <2>3, EmptySeq
<1>6. RunEnds(<<>>) = {} BY DEF RunEnds
<1>7. Len(text) <= TokenCapChars BY <1>2, GuardAssumption
<1> QED BY <1>1, <1>2, <1>3, <1>4, <1>5, <1>6, <1>7 DEF Judged

LEMMA DeltaIsText == Deltas \subseteq Seq(Chars)
BY DEF Deltas, SeqOf

(* A delta the cap lets pass is judged as the whole text is. *)
LEMMA ScanJudged ==
  ASSUME Judged, tripped = None, NEW delta \in Seq(Chars), scan_for_repetition(delta),
         text' = text \o delta, chars' = Len(text'), text' \in Seq(Chars), Len(text') <= TokenCapChars
  PROVE  Judged'
<1> DEFINE old == counted_lines(text, 0)
           buffer == pending \o delta
           new == counted_lines(buffer, line_base)
           lines == recent \o new
           hits == {k \in RunEnds(lines) : k > Len(recent)}
           all == counted_lines(text', 0)
<1>1. /\ text \in Seq(Chars) /\ Cut(text, line_base, pending)
      /\ recent = ring(old) /\ RunEnds(old) = {}
  BY DEF Judged
<1>2. old \in Seq(Seq(Chars)) /\ new \in Seq(Seq(Chars)) /\ all = old \o new
  BY <1>1, LinesOfDelta
<1>3. Cut(text', line_base + Len(buffer) - Len(remainder(buffer)), remainder(buffer))
  BY <1>1, RestOfDelta
<1>4. /\ pending' = remainder(buffer)
      /\ IF hits # {} THEN tripped' = "repetition"
         ELSE /\ tripped' = None /\ recent' = ring(lines)
              /\ line_base' = line_base + Len(buffer) - Len(pending')
  BY DEF scan_for_repetition
<1> HIDE DEF old, new, buffer, all
<1>5. (RunEnds(all) # {} <=> hits # {}) /\ ring(lines) = ring(all)
  <2>1. /\ RunEnds(old \o new) # {} <=> {k \in RunEnds(ring(old) \o new) : k > Len(ring(old))} # {}
        /\ ring(ring(old) \o new) = ring(old \o new)
    BY <1>1, <1>2, RingJudges
  <2> QED BY <1>1, <1>2, <2>1
<1> HIDE DEF hits, lines
<1>6. CASE hits # {}
  <2>1. tripped' # None BY <1>4, <1>6, GuardAssumption
  <2>2. Repeats(text)' BY <1>5, <1>6 DEF Repeats, all
  <2> QED BY <2>1, <2>2 DEF Judged
<1>7. CASE hits = {}
  <2>1. tripped' = None /\ recent' = ring(all) /\ RunEnds(all) = {} BY <1>4, <1>5, <1>7
  <2>2. Cut(text, line_base, pending)' BY <1>3, <1>4, <1>7
  <2> QED BY <2>1, <2>2 DEF Judged, all
<1> QED BY <1>6, <1>7

LEMMA NextJudged == Judged /\ [Next]_vars => Judged'
<1> SUFFICES ASSUME Judged, [Next]_vars PROVE Judged' OBVIOUS
<1>1. ASSUME NEW delta \in Deltas, feed(delta) PROVE Judged'
  <2>1. delta \in Seq(Chars) BY DeltaIsText
  <2>2. text \in Seq(Chars) /\ chars = Len(text) /\ tripped = None BY <1>1 DEF Judged, feed
  <2>3. text' = text \o delta /\ chars' = chars + Len(delta) BY <1>1 DEF feed
  <2>4. text' \in Seq(Chars) /\ chars' = Len(text') BY <2>1, <2>2, <2>3, ConcatProperties
  <2>5. CASE chars' > TokenCapChars
    <3>1. tripped' = "token_cap" BY <1>1, <2>5 DEF feed
    <3>2. tripped' # None BY <3>1, GuardAssumption
    <3>3. OverCap(text)' BY <2>4, <2>5 DEF OverCap
    <3> QED BY <2>4, <3>2, <3>3 DEF Judged
  <2>6. CASE ~(chars' > TokenCapChars)
    <3>1. scan_for_repetition(delta) BY <1>1, <2>6 DEF feed
    <3>2. Len(text') <= TokenCapChars BY <2>4, <2>6, GuardAssumption
    <3> QED BY <2>1, <2>2, <2>3, <2>4, <3>1, <3>2, ScanJudged
  <2> QED BY <2>5, <2>6
<1>2. CASE UNCHANGED vars BY <1>2 DEF vars, Judged
<1> QED BY <1>1, <1>2 DEF Next, Latched

(* Every delta feed takes keeps the guard's state a function of the text.    *)
THEOREM GuardInductive == Spec => []Judged
BY InitJudged, NextJudged, PTL DEF Spec

(* D-DERAIL-002, for every text, every way the server may cut it into        *)
(* deltas, and every cap, threshold and warmup: feed has tripped exactly     *)
(* when the text fed so far is over the cap or repeats.                      *)
THEOREM CutsNeverShow == Spec => []TripIsChunkFree
<1>1. Judged => TripIsChunkFree
  <2> SUFFICES ASSUME Judged PROVE TripIsChunkFree OBVIOUS
  <2>1. CASE tripped # None BY <2>1 DEF Judged, TripIsChunkFree
  <2>2. CASE tripped = None
    <3>1. ~OverCap(text) BY <2>2, GuardAssumption DEF Judged, OverCap
    <3>2. ~Repeats(text) BY <2>2 DEF Judged, Repeats
    <3> QED BY <2>2, <3>1, <3>2 DEF TripIsChunkFree
  <2> QED BY <2>1, <2>2
<1> QED BY <1>1, GuardInductive, PTL
=============================================================================
