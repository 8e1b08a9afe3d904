--------------------------- MODULE WorktreeProofs ---------------------------
(***************************************************************************)
(* The keep-only boundary, the restore and the way of a reply into a file, *)
(* for every tree, every impl_path and every reply.                        *)
(***************************************************************************)
EXTENDS Worktree, SequenceTheorems, WellFoundedInduction, TLAPS

-----------------------------------------------------------------------------
(* Induction. *)

(* Every nonempty set of naturals has a least element. *)
LEMMA LeastNat ==
  ASSUME NEW T \in SUBSET Nat, T # {}
  PROVE  \E i \in T : \A j \in T : i <= j
<1> DEFINE R == OpToRel(<, Nat)
<1>1. IsWellFoundedOn(R, Nat) BY NatLessThanWellFounded
<1>2. PICK i \in T : \A j \in T : ~(<<j, i>> \in R)
  <2> HIDE DEF R
  <2> QED BY <1>1, WFMin
<1>3. \A j \in T : i <= j
  <2> SUFFICES ASSUME NEW j \in T PROVE i <= j OBVIOUS
  <2>1. i \in Nat /\ j \in Nat OBVIOUS
  <2>2. ~(j < i) BY <1>2, <2>1 DEF OpToRel
  <2> QED BY <2>1, <2>2
<1> QED BY <1>3

(* Induction up to a bound, for a set instead of a predicate. *)
LEMMA Induction ==
  ASSUME NEW m \in Nat, NEW S, 0 \in S, \A k \in 1..m : k - 1 \in S => k \in S
  PROVE  \A k \in 0..m : k \in S
<1> SUFFICES ASSUME NEW k \in 0..m, k \notin S PROVE FALSE OBVIOUS
<1> DEFINE T == {j \in 0..m : j \notin S}
<1>1. T \in SUBSET Nat /\ T # {} OBVIOUS
<1>2. PICK i \in T : \A j \in T : i <= j BY <1>1, LeastNat
<1>3. i \in 0..m /\ i # 0 /\ i \notin S OBVIOUS
<1>4. i \in 1..m /\ i - 1 \in 0..m /\ i - 1 \notin T BY <1>2, <1>3
<1>5. i - 1 \in S BY <1>4
<1> QED BY <1>3, <1>4, <1>5

-----------------------------------------------------------------------------
(* Path.resolve, one segment at a time. *)

(* Where the walk along a path stands after each of its segments. *)
Walk(tree, path, f) ==
  f = [i \in 0..Len(path) |->
         IF i = 0 THEN <<>>
         ELSE IF f[i - 1] = Nowhere THEN Nowhere ELSE Enter(tree, f[i - 1], path[i])]

Step(tree, at, name) == IF at = Nowhere THEN Nowhere ELSE Enter(tree, at, name)

(* The walk exists, by induction on the length of the path. *)
LEMMA WalkExists ==
  ASSUME NEW tree, NEW S, NEW path \in Seq(S)
  PROVE  \E f : Walk(tree, path, f)
<1> DEFINE N == Len(path)
           G(f, m) == /\ f = [i \in 0..m |-> f[i]] /\ f[0] = <<>>
                      /\ \A i \in 1..m : f[i] = Step(tree, f[i - 1], path[i])
           T == {m \in 0..N : \E f : G(f, m)}
<1>1. N \in Nat OBVIOUS
<1>2. 0 \in T
  <2>1. G([i \in 0..0 |-> <<>>], 0) OBVIOUS
  <2> HIDE DEF G
  <2> QED BY <1>1, <2>1
<1>3. ASSUME NEW k \in 1..N, k - 1 \in T PROVE k \in T
  <2>1. PICK f : G(f, k - 1) BY <1>3
  <2> DEFINE g == [i \in 0..k |-> IF i = k THEN Step(tree, f[k - 1], path[k]) ELSE f[i]]
  <2>2. g = [i \in 0..k |-> g[i]] OBVIOUS
  <2>3. g[0] = <<>> BY <2>1
  <2>4. ASSUME NEW i \in 1..k PROVE g[i] = Step(tree, g[i - 1], path[i])
    <3>1. CASE i = k BY <3>1
    <3>2. CASE i # k
      <4>1. i \in 1..(k - 1) /\ g[i] = f[i] /\ g[i - 1] = f[i - 1] BY <3>2
      <4> QED BY <2>1, <4>1
    <3> QED BY <3>1, <3>2
  <2> HIDE DEF g
  <2>5. G(g, k) BY <2>2, <2>3, <2>4
  <2>6. k \in 0..N BY <1>1
  <2> HIDE DEF G
  <2> QED BY <2>5, <2>6
<1>4. N \in T
  <2> HIDE DEF N, T
  <2>1. \A k \in 1..N : k - 1 \in T => k \in T BY <1>3
  <2>2. \A k \in 0..N : k \in T BY <1>1, <1>2, <2>1, Induction
  <2> QED BY <1>1, <2>2
<1>5. PICK f : G(f, N) BY <1>4
<1>6. f = [i \in 0..N |-> IF i = 0 THEN <<>> ELSE Step(tree, f[i - 1], path[i])]
  BY <1>1, <1>5
<1> QED BY <1>6 DEF Walk, Step

(* Real is its last place. *)
LEMMA RealIsWalk ==
  ASSUME NEW tree, NEW S, NEW path \in Seq(S)
  PROVE  \E f : Walk(tree, path, f) /\ Real(tree, path) = f[Len(path)]
<1> DEFINE f == CHOOSE g : g = [i \in 0..Len(path) |->
                  IF i = 0 THEN <<>>
                  ELSE IF g[i - 1] = Nowhere THEN Nowhere ELSE Enter(tree, g[i - 1], path[i])]
<1>1. \E g : g = [i \in 0..Len(path) |->
                  IF i = 0 THEN <<>>
                  ELSE IF g[i - 1] = Nowhere THEN Nowhere ELSE Enter(tree, g[i - 1], path[i])]
  <2>1. PICK g : Walk(tree, path, g) BY WalkExists
  <2> QED BY <2>1, Zenon DEF Walk
<1>2. f = [i \in 0..Len(path) |->
                  IF i = 0 THEN <<>>
                  ELSE IF f[i - 1] = Nowhere THEN Nowhere ELSE Enter(tree, f[i - 1], path[i])]
  BY <1>1, Zenon
<1>3. Real(tree, path) = f[Len(path)]
  BY DEF Real
<1> QED BY <1>2, <1>3 DEF Walk

(* The real path of the first n segments. *)
To(tree, path, n) == Real(tree, SubSeq(path, 1, n))

(* Resolving a path is resolving its front and entering one name more. *)
LEMMA RealStep ==
  ASSUME NEW tree, NEW S, NEW path \in Seq(S)
  PROVE  /\ To(tree, path, 0) = <<>> /\ To(tree, path, Len(path)) = Real(tree, path)
         /\ \A n \in 1..Len(path) : To(tree, path, n) = Step(tree, To(tree, path, n - 1), path[n])
<1>1. PICK f : Walk(tree, path, f) BY WalkExists
<1>2. Len(path) \in Nat /\ f[0] = <<>>
      /\ \A i \in 1..Len(path) : f[i] = Step(tree, f[i - 1], path[i])
  BY <1>1 DEF Walk, Step
<1>3. ASSUME NEW n \in 0..Len(path) PROVE To(tree, path, n) = f[n]
  <2> DEFINE b == SubSeq(path, 1, n)
  <2>1. b \in Seq(S) /\ Len(b) = n /\ \A i \in 1..n : b[i] = path[i]
    BY <1>2
  <2>2. PICK h : Walk(tree, b, h) /\ Real(tree, b) = h[n]
    BY <2>1, RealIsWalk
  <2>3. h[0] = <<>> /\ \A i \in 1..n : h[i] = Step(tree, h[i - 1], path[i])
    BY <2>1, <2>2 DEF Walk, Step
  <2> DEFINE T == {k \in 0..n : h[k] = f[k]}
  <2>4. 0 \in T BY <1>2, <2>3
  <2>5. ASSUME NEW k \in 1..n, k - 1 \in T PROVE k \in T
    <3>1. h[k - 1] = f[k - 1] /\ k \in 1..Len(path) BY <1>2, <2>5
    <3>2. h[k] = f[k] BY <1>2, <2>3, <3>1
    <3> QED BY <3>2
  <2>6. n \in T
    <3> HIDE DEF T
    <3>1. \A k \in 1..n : k - 1 \in T => k \in T BY <2>5
    <3>2. \A k \in 0..n : k \in T BY <2>4, <3>1, Induction
    <3> QED BY <3>2
  <2>7. h[n] = f[n] BY <2>6
  <2> QED BY <2>2, <2>7 DEF To
<1>4. To(tree, path, 0) = <<>> BY <1>2, <1>3
<1>5. ASSUME NEW n \in 1..Len(path)
      PROVE  To(tree, path, n) = Step(tree, To(tree, path, n - 1), path[n])
  <2>1. n \in 0..Len(path) /\ n - 1 \in 0..Len(path) BY <1>2
  <2>2. To(tree, path, n) = f[n] /\ To(tree, path, n - 1) = f[n - 1] BY <1>3, <2>1
  <2> QED BY <1>2, <2>2
<1>6. To(tree, path, Len(path)) = Real(tree, path)
  <2>1. SubSeq(path, 1, Len(path)) = path BY SubSeqFull
  <2> QED BY <2>1 DEF To
<1> QED BY <1>4, <1>5, <1>6

(* Entering a name other than ".." ends in the tree or nowhere. *)
LEMMA EnterInTree ==
  ASSUME NEW tree, NEW dir, NEW name, name # Up, Enter(tree, dir, name) # Nowhere
  PROVE  Enter(tree, dir, name) \in DOMAIN tree
BY DEF Enter

(* A path without a climb resolves to a node of the tree, if to anything. *)
LEMMA RealInTree ==
  ASSUME NEW tree, NEW S, NEW path \in Seq(S), ~Contains(path, Up), <<>> \in DOMAIN tree,
         NEW n \in 0..Len(path), To(tree, path, n) # Nowhere
  PROVE  To(tree, path, n) \in DOMAIN tree
<1>1. CASE n = 0 BY <1>1, RealStep
<1>2. CASE n # 0
  <2>1. n \in 1..Len(path) BY <1>2
  <2>2. To(tree, path, n) = Step(tree, To(tree, path, n - 1), path[n]) BY <2>1, RealStep
  <2>3. path[n] # Up BY <2>1 DEF Contains
  <2> QED BY <2>2, <2>3, EnterInTree DEF Step
<1> QED BY <1>1, <1>2

(* A tree that keeps every node of another, its kind and where it leads. *)
Keeps(a, b) ==
  \A p \in DOMAIN a : /\ p \in DOMAIN b /\ b[p].kind = a[p].kind
                      /\ a[p].kind = "link" => b[p].to = a[p].to

LEMMA EnterKept ==
  ASSUME NEW a, NEW b, Keeps(a, b), NEW dir, NEW name, Enter(a, dir, name) # Nowhere
  PROVE  Enter(b, dir, name) = Enter(a, dir, name)
<1>1. dir \in DOMAIN a /\ a[dir].kind = "dir" BY DEF Enter
<1>2. dir \in DOMAIN b /\ b[dir].kind = "dir" BY <1>1 DEF Keeps
<1>3. CASE name = Up BY <1>1, <1>2, <1>3 DEF Enter
<1>4. CASE name # Up
  <2> DEFINE p == Append(dir, name)
  <2>1. p \in DOMAIN a BY <1>1, <1>4 DEF Enter
  <2>2. p \in DOMAIN b /\ b[p].kind = a[p].kind BY <2>1 DEF Keeps
  <2>3. CASE a[p].kind # "link" BY <1>1, <1>2, <1>4, <2>1, <2>2, <2>3 DEF Enter
  <2>4. CASE a[p].kind = "link"
    <3>1. a[p].to \in DOMAIN a BY <1>1, <1>4, <2>1, <2>4 DEF Enter
    <3>2. b[p].to = a[p].to /\ b[p].to \in DOMAIN b BY <2>1, <2>4, <3>1 DEF Keeps
    <3> QED BY <1>1, <1>2, <1>4, <2>1, <2>2, <2>4, <3>1, <3>2 DEF Enter
  <2> QED BY <2>3, <2>4
<1> QED BY <1>3, <1>4

(* What resolves, resolves to the same place in a tree that keeps the nodes. *)
LEMMA RealKept ==
  ASSUME NEW a, NEW b, Keeps(a, b), NEW S, NEW path \in Seq(S), Real(a, path) # Nowhere
  PROVE  Real(b, path) = Real(a, path)
<1> DEFINE N == Len(path)
           T == {n \in 0..N : To(a, path, n) # Nowhere => To(b, path, n) = To(a, path, n)}
<1>1. N \in Nat OBVIOUS
<1>2. 0 \in T
  <2>1. To(a, path, 0) = <<>> /\ To(b, path, 0) = <<>> BY RealStep
  <2> QED BY <1>1, <2>1
<1>3. ASSUME NEW k \in 1..N, k - 1 \in T PROVE k \in T
  <2>1. SUFFICES ASSUME To(a, path, k) # Nowhere PROVE To(b, path, k) = To(a, path, k)
    BY <1>1
  <2>2. To(a, path, k) = Step(a, To(a, path, k - 1), path[k])
        /\ To(b, path, k) = Step(b, To(b, path, k - 1), path[k])
    BY RealStep
  <2>3. To(a, path, k - 1) # Nowhere /\ To(b, path, k - 1) = To(a, path, k - 1)
    BY <1>3, <2>1, <2>2 DEF Step
  <2> QED BY <2>1, <2>2, <2>3, EnterKept DEF Step
<1>4. N \in T
  <2> HIDE DEF N, T
  <2>1. \A k \in 1..N : k - 1 \in T => k \in T BY <1>3
  <2>2. \A k \in 0..N : k \in T BY <1>1, <1>2, <2>1, Induction
  <2> QED BY <1>1, <2>2
<1> QED BY <1>4, RealStep

(* A prefix, element by element. *)
LEMMA PrefixElements ==
  ASSUME NEW S, NEW s \in Seq(S), NEW t \in Seq(S)
  PROVE  IsPrefix(s, t) <=> Len(s) <= Len(t) /\ \A i \in 1..Len(s) : s[i] = t[i]
<1> SUFFICES ASSUME Len(s) <= Len(t)
             PROVE  SubSeq(s, 1, Len(s)) = SubSeq(t, 1, Len(s)) <=> \A i \in 1..Len(s) : s[i] = t[i]
  BY DEF IsPrefix
<1> DEFINE n == Len(s)
           u == SubSeq(t, 1, n)
<1>1. n \in Nat /\ SubSeq(s, 1, n) = s BY SubSeqFull
<1>2. u \in Seq(S) /\ Len(u) = n /\ \A i \in 1..n : u[i] = t[i] BY <1>1
<1> HIDE DEF u
<1>3. s = u <=> \A i \in 1..n : s[i] = t[i] BY <1>2, SeqEqual
<1> QED BY <1>1, <1>3 DEF u

(* One name below the root, or below what is not above it, is not above it. *)
LEMMA BelowRoot ==
  ASSUME NEW dir \in Seq(Names), NEW name \in Names, dir = Root \/ ~IsPrefix(dir, Root)
  PROVE  ~IsPrefix(Append(dir, name), Root)
<1> SUFFICES ASSUME IsPrefix(Append(dir, name), Root) PROVE FALSE OBVIOUS
<1>1. Root \in Seq(Names) BY PathAssumption
<1>2. /\ Append(dir, name) \in Seq(Names) /\ Len(Append(dir, name)) = Len(dir) + 1
      /\ \A i \in 1..Len(dir) : Append(dir, name)[i] = dir[i]
  BY AppendProperties
<1>3. Len(dir) \in Nat /\ Len(dir) + 1 <= Len(Root) /\ Len(Root) \in Nat
      /\ \A i \in 1..(Len(dir) + 1) : Append(dir, name)[i] = Root[i]
  <2>1. Len(Append(dir, name)) <= Len(Root)
        /\ \A i \in 1..Len(Append(dir, name)) : Append(dir, name)[i] = Root[i]
    BY <1>1, <1>2, PrefixElements
  <2> QED BY <1>1, <1>2, <2>1
<1>4. \A i \in 1..Len(dir) : dir[i] = Root[i] BY <1>2, <1>3
<1>5. IsPrefix(dir, Root) BY <1>1, <1>3, <1>4, PrefixElements
<1>6. dir # Root BY <1>3
<1> QED BY <1>5, <1>6

(* Beyond the root a path that does not climb stays off the root and what is *)
(* above it, as long as no link leads back there.                            *)
LEMMA BeyondRoot ==
  ASSUME NEW tree, WellFormed(tree), Direct(tree), NEW path \in Seq(Names), ~Contains(path, Up),
         Len(Root) < Len(path), \A i \in 1..Len(Root) : path[i] = Root[i]
  PROVE  Real(tree, path) = Nowhere \/ ~IsPrefix(Real(tree, path), Root)
<1> DEFINE L == Len(Root)
           N == Len(path)
           T == {n \in 0..N :
                   /\ n <= L => To(tree, path, n) = SubSeq(Root, 1, n)
                   /\ n > L => To(tree, path, n) = Nowhere \/ ~IsPrefix(To(tree, path, n), Root)}
<1>1. L \in Nat /\ N \in Nat /\ L < N /\ Root \in Seq(Names) BY PathAssumption
<1>2. <<>> \in DOMAIN tree
  <2>1. 0 \in 0..L /\ SubSeq(Root, 1, 0) = <<>> BY <1>1, SubSeqEmpty
  <2> QED BY <2>1 DEF WellFormed
<1>3. 0 \in T
  <2>1. SubSeq(Root, 1, 0) = <<>> BY <1>1, SubSeqEmpty
  <2>2. To(tree, path, 0) = SubSeq(Root, 1, 0) BY <2>1, RealStep
  <2>3. 0 \in 0..N /\ 0 <= L /\ ~(0 > L) BY <1>1
  <2> QED BY <2>2, <2>3
<1>4. ASSUME NEW k \in 1..N, k - 1 \in T PROVE k \in T
  <2> DEFINE dir == To(tree, path, k - 1)
  <2>1. To(tree, path, k) = Step(tree, dir, path[k]) BY RealStep
  <2>2. path[k] # Up /\ path[k] \in Names /\ k \in 0..N /\ k - 1 \in 0..N
    BY <1>1 DEF Contains
  <2>3. CASE k <= L
    <3>1. dir = SubSeq(Root, 1, k - 1) BY <1>1, <1>4, <2>3
    <3>2. k - 1 \in 0..L /\ k \in 0..L /\ k \in 1..L BY <1>1, <2>3
    <3>3. dir \in DOMAIN tree /\ tree[dir].kind = "dir" /\ dir # Nowhere
      <4>1. dir \in DOMAIN tree /\ tree[dir] = Dir BY <3>1, <3>2 DEF WellFormed
      <4>2. dir \in Seq(Names) BY <4>1 DEF WellFormed
      <4> QED BY <4>1, <4>2, PathAssumption DEF Dir
    <3>4. Append(dir, path[k]) = SubSeq(Root, 1, k)
      <4>1. SubSeq(Root, 1, k) = SubSeq(Root, 1, k - 1) \o <<Root[k]>>
        BY <1>1, <3>2, SubSeqRecursiveSecond
      <4>2. SubSeq(Root, 1, k - 1) \in Seq(Names) /\ Root[k] \in Names /\ path[k] = Root[k]
        BY <1>1, <3>2
      <4> QED BY <3>1, <4>1, <4>2, AppendIsConcat
    <3>5. Append(dir, path[k]) \in DOMAIN tree /\ tree[Append(dir, path[k])].kind # "link"
      <4>1. SubSeq(Root, 1, k) \in DOMAIN tree /\ tree[SubSeq(Root, 1, k)] = Dir
        BY <3>2 DEF WellFormed
      <4>2. tree[SubSeq(Root, 1, k)].kind # "link" BY <4>1 DEF Dir
      <4> HIDE DEF dir
      <4> QED BY <3>4, <4>1, <4>2, Zenon
    <3>6. Step(tree, dir, path[k]) = SubSeq(Root, 1, k)
      <4> HIDE DEF dir
      <4> QED BY <2>2, <3>3, <3>4, <3>5 DEF Step, Enter
    <3> HIDE DEF dir
    <3> QED BY <1>1, <2>1, <2>2, <2>3, <3>6
  <2>4. CASE k > L
    <3>1. SUFFICES ASSUME To(tree, path, k) # Nowhere PROVE ~IsPrefix(To(tree, path, k), Root)
      BY <1>1, <2>2, <2>4
    <3>2. dir # Nowhere /\ To(tree, path, k) = Enter(tree, dir, path[k])
      BY <2>1, <3>1 DEF Step
    <3>3. dir \in DOMAIN tree BY <1>2, <2>2, <3>2, RealInTree
    <3>4. dir \in Seq(Names) BY <3>3 DEF WellFormed
    <3>5. dir = Root \/ ~IsPrefix(dir, Root)
      <4>1. CASE k - 1 = L
        <5>1. dir = SubSeq(Root, 1, L) BY <1>1, <1>4, <4>1
        <5> QED BY <1>1, <5>1, SubSeqFull
      <4>2. CASE k - 1 # L
        <5>1. k - 1 > L BY <1>1, <2>4, <4>2
        <5> QED BY <1>1, <1>4, <3>2, <5>1
      <4> QED BY <4>1, <4>2
    <3>6. ~IsPrefix(Append(dir, path[k]), Root) BY <2>2, <3>4, <3>5, BelowRoot
    <3> DEFINE p == Append(dir, path[k])
    <3>7. p \in DOMAIN tree BY <2>2, <3>1, <3>2 DEF Enter
    <3>8. CASE tree[p].kind # "link"
      <4>1. To(tree, path, k) = p BY <2>2, <3>1, <3>2, <3>7, <3>8 DEF Enter
      <4> QED BY <3>6, <4>1
    <3>9. CASE tree[p].kind = "link"
      <4>1. To(tree, path, k) = tree[p].to BY <2>2, <3>1, <3>2, <3>7, <3>9 DEF Enter
      <4>2. ~IsPrefix(tree[p].to, Root) BY <3>7, <3>9 DEF Direct
      <4> QED BY <4>1, <4>2
    <3> QED BY <3>8, <3>9
  <2> QED BY <1>1, <2>3, <2>4
<1>5. N \in T
  <2> HIDE DEF N, T
  <2>1. \A k \in 1..N : k - 1 \in T => k \in T BY <1>4
  <2>2. \A k \in 0..N : k \in T BY <1>1, <1>3, <2>1, Induction
  <2> QED BY <1>1, <2>2
<1> QED BY <1>1, <1>5, RealStep

-----------------------------------------------------------------------------
(* What the steps of a run do to a tree. *)

(* New nodes are directories and files, old ones keep their kind, and a file *)
(* may have a new text.                                                      *)
Overlays(a, b) ==
  /\ Keeps(a, b)
  /\ DOMAIN b \subseteq Seq(Names)
  /\ \A p \in DOMAIN b : \/ p \in DOMAIN a /\ b[p] = a[p]
                         \/ b[p] = Dir
                         \/ b[p].kind = "file" /\ b[p] = File(b[p].text)

LEMMA OverlayWellFormed ==
  ASSUME NEW a, NEW b, WellFormed(a), Overlays(a, b)
  PROVE  WellFormed(b) /\ (Direct(a) => Direct(b))
<1>1. ASSUME NEW i \in 0..Len(Root)
      PROVE  SubSeq(Root, 1, i) \in DOMAIN b /\ b[SubSeq(Root, 1, i)] = Dir
  <2> DEFINE p == SubSeq(Root, 1, i)
  <2>1. p \in DOMAIN a /\ a[p] = Dir BY DEF WellFormed
  <2> HIDE DEF p
  <2>2. a[p].kind = "dir" BY <2>1 DEF Dir
  <2>3. p \in DOMAIN b /\ b[p].kind = "dir" BY <2>1, <2>2 DEF Overlays, Keeps
  <2>4. b[p] = Dir BY <2>1, <2>3 DEF Overlays
  <2> QED BY <2>3, <2>4 DEF p
<1>2. ASSUME NEW p \in DOMAIN b
      PROVE  \/ b[p] = Dir
             \/ b[p].kind = "file" /\ b[p] = File(b[p].text)
             \/ /\ b[p].kind = "link"
                /\ b[p].to \in Seq(Names)
                /\ b[p].to \in DOMAIN b => b[b[p].to].kind # "link"
  <2>1. CASE p \in DOMAIN a /\ b[p] = a[p] /\ a[p].kind = "link"
    <3>1. /\ a[p].to \in Seq(Names)
          /\ a[p].to \in DOMAIN a => a[a[p].to].kind # "link"
      BY <2>1 DEF WellFormed, Dir
    <3>2. ASSUME b[p].to \in DOMAIN b PROVE b[b[p].to].kind # "link"
      BY <2>1, <3>1, <3>2 DEF Overlays, Dir
    <3> QED BY <2>1, <3>1, <3>2
  <2>2. CASE p \in DOMAIN a /\ b[p] = a[p] /\ a[p].kind # "link"
    BY <2>2 DEF WellFormed
  <2> QED BY <2>1, <2>2 DEF Overlays
<1>3. DOMAIN b \subseteq Seq(Names) BY DEF Overlays
<1>4. WellFormed(b) BY <1>1, <1>2, <1>3 DEF WellFormed
<1>5. ASSUME Direct(a) PROVE Direct(b)
  <2>1. Dir.kind = "dir" BY DEF Dir
  <2> QED BY <1>5, <2>1 DEF Direct, Overlays
<1> QED BY <1>4, <1>5

(* The tree b is a with a text at one path. *)
Written(a, b, p, text) ==
  /\ Overlays(a, b) /\ DOMAIN b = DOMAIN a \cup {p} /\ b[p] = File(text)
  /\ \A q \in DOMAIN a : q # p => b[q] = a[q]

(* A write that lands where no directory and no link is. *)
LEMMA WriteOverlays ==
  ASSUME NEW tree, DOMAIN tree \subseteq Seq(Names), NEW path, NEW text,
         Landing(tree, path) \in Seq(Names),
         Landing(tree, path) \in DOMAIN tree => tree[Landing(tree, path)].kind = "file"
  PROVE  Written(tree, Write(tree, path, text), Landing(tree, path), text)
<1> DEFINE p == Landing(tree, path)
           b == Write(tree, path, text)
<1>1. b = [q \in DOMAIN tree \cup {p} |-> IF q = p THEN File(text) ELSE tree[q]]
  BY DEF Write
<1>2. p \in Seq(Names) /\ (p \in DOMAIN tree => tree[p].kind = "file") OBVIOUS
<1> HIDE DEF p, b
<1>3. /\ DOMAIN b = DOMAIN tree \cup {p} /\ b[p] = File(text)
      /\ \A q \in DOMAIN tree : q # p => b[q] = tree[q]
  BY <1>1
<1>4. b[p].kind = "file" /\ b[p] = File(b[p].text) BY <1>3 DEF File
<1>5. Keeps(tree, b) BY <1>2, <1>3, <1>4 DEF Keeps
<1>6. Overlays(tree, b) BY <1>2, <1>3, <1>4, <1>5 DEF Overlays
<1> QED BY <1>3, <1>6 DEF Written, p, b

(* mkdir adds directories and touches nothing else. *)
Grows(a, b) ==
  /\ DOMAIN a \subseteq DOMAIN b /\ DOMAIN b \subseteq Seq(Names)
  /\ \A p \in DOMAIN b : IF p \in DOMAIN a THEN b[p] = a[p] ELSE b[p] = Dir

LEMMA GrowthOverlays == ASSUME NEW a, NEW b, Grows(a, b) PROVE Overlays(a, b)
BY DEF Grows, Overlays, Keeps

(* One step of Mkdirs, and all of them. *)
Make(made, path, i) ==
  LET dir == IF made = Nowhere THEN Nowhere ELSE Real(made, SubSeq(path, 1, i - 1))
      p == Append(dir, path[i])
      at == Enter(made, dir, path[i])
  IN  IF dir = Nowhere \/ made[dir] # Dir \/ path[i] = Barred THEN Nowhere
      ELSE IF p \notin DOMAIN made
           THEN [q \in DOMAIN made \cup {p} |-> IF q = p THEN Dir ELSE made[q]]
      ELSE IF at = Nowhere \/ made[at] # Dir THEN Nowhere ELSE made

Making(tree, path, f) ==
  f = [i \in 0..Len(path) |-> IF i = 0 THEN tree ELSE Make(f[i - 1], path, i)]

(* The trees in between exist, by induction on the length of the path. *)
LEMMA MakingExists ==
  ASSUME NEW tree, NEW S, NEW path \in Seq(S)
  PROVE  \E f : Making(tree, path, f)
<1> DEFINE N == Len(path)
           G(f, m) == /\ f = [i \in 0..m |-> f[i]] /\ f[0] = tree
                      /\ \A i \in 1..m : f[i] = Make(f[i - 1], path, i)
           T == {m \in 0..N : \E f : G(f, m)}
<1>1. N \in Nat OBVIOUS
<1>2. 0 \in T
  <2>1. G([i \in 0..0 |-> tree], 0) OBVIOUS
  <2> HIDE DEF G
  <2> QED BY <1>1, <2>1
<1>3. ASSUME NEW k \in 1..N, k - 1 \in T PROVE k \in T
  <2>1. PICK f : G(f, k - 1) BY <1>3
  <2> DEFINE g == [i \in 0..k |-> IF i = k THEN Make(f[k - 1], path, k) ELSE f[i]]
  <2>2. g = [i \in 0..k |-> g[i]] OBVIOUS
  <2>3. g[0] = tree BY <2>1
  <2>4. ASSUME NEW i \in 1..k PROVE g[i] = Make(g[i - 1], path, i)
    <3>1. CASE i = k BY <3>1
    <3>2. CASE i # k
      <4>1. i \in 1..(k - 1) /\ g[i] = f[i] /\ g[i - 1] = f[i - 1] BY <3>2
      <4> QED BY <2>1, <4>1
    <3> QED BY <3>1, <3>2
  <2> HIDE DEF g
  <2>5. G(g, k) BY <2>2, <2>3, <2>4
  <2>6. k \in 0..N BY <1>1
  <2> HIDE DEF G
  <2> QED BY <2>5, <2>6
<1>4. N \in T
  <2> HIDE DEF N, T
  <2>1. \A k \in 1..N : k - 1 \in T => k \in T BY <1>3
  <2>2. \A k \in 0..N : k \in T BY <1>1, <1>2, <2>1, Induction
  <2> QED BY <1>1, <2>2
<1>5. PICK f : G(f, N) BY <1>4
<1>6. f = [i \in 0..N |-> IF i = 0 THEN tree ELSE Make(f[i - 1], path, i)]
  <2>1. ASSUME NEW i \in 0..N PROVE f[i] = IF i = 0 THEN tree ELSE Make(f[i - 1], path, i)
    <3>1. CASE i = 0 BY <1>5, <3>1
    <3>2. CASE i # 0
      <4>1. i \in 1..N BY <1>1, <3>2
      <4>2. f[i] = Make(f[i - 1], path, i) BY <1>5, <4>1
      <4> QED BY <3>2, <4>2
    <3> QED BY <3>1, <3>2
  <2>2. f = [i \in 0..N |-> f[i]] BY <1>5
  <2> HIDE DEF N, G
  <2> QED BY <2>1, <2>2, Zenon
<1> QED BY <1>6 DEF Making

(* Mkdirs is the last of them. *)
LEMMA MkdirsIsMade ==
  ASSUME NEW tree, NEW S, NEW path \in Seq(S)
  PROVE  \E f : Making(tree, path, f) /\ Mkdirs(tree, path) = f[Len(path)]
<1> DEFINE f == CHOOSE g : g = [i \in 0..Len(path) |-> IF i = 0 THEN tree ELSE Make(g[i - 1], path, i)]
<1>1. \E g : g = [i \in 0..Len(path) |-> IF i = 0 THEN tree ELSE Make(g[i - 1], path, i)]
  <2>1. PICK g : Making(tree, path, g) BY MakingExists
  <2> QED BY <2>1, Zenon DEF Making
<1>2. f = [i \in 0..Len(path) |-> IF i = 0 THEN tree ELSE Make(f[i - 1], path, i)]
  BY <1>1, Zenon
<1>3. Mkdirs(tree, path) = f[Len(path)]
  BY Zenon DEF Mkdirs, Make
<1> QED BY <1>2, <1>3 DEF Making

LEMMA MkdirsGrows ==
  ASSUME NEW tree, DOMAIN tree \subseteq Seq(Names), <<>> \in DOMAIN tree,
         NEW path \in Seq(Names), ~Contains(path, Up), Mkdirs(tree, path) # Nowhere
  PROVE  Grows(tree, Mkdirs(tree, path))
<1>1. PICK f : Making(tree, path, f) /\ Mkdirs(tree, path) = f[Len(path)] BY MkdirsIsMade
<1> DEFINE N == Len(path)
           T == {n \in 0..N : f[n] = Nowhere \/ Grows(tree, f[n])}
<1>2. N \in Nat /\ f[0] = tree /\ \A i \in 1..N : f[i] = Make(f[i - 1], path, i)
  <2>1. \A i \in 0..Len(path) : f[i] = IF i = 0 THEN tree ELSE Make(f[i - 1], path, i)
    BY <1>1, Zenon DEF Making
  <2>2. Len(path) \in Nat OBVIOUS
  <2>3. f[0] = tree BY <2>1, <2>2
  <2>4. ASSUME NEW i \in 1..N PROVE f[i] = Make(f[i - 1], path, i)
    <3>1. i \in 0..Len(path) /\ i # 0 BY <2>2
    <3> QED BY <2>1, <3>1, Zenon
  <2> QED BY <2>2, <2>3, <2>4
<1>3. 0 \in T
  <2>1. Grows(tree, tree) BY DEF Grows
  <2> QED BY <1>2, <2>1
<1>4. ASSUME NEW k \in 1..N, k - 1 \in T PROVE k \in T
  <2>1. SUFFICES ASSUME f[k] # Nowhere PROVE Grows(tree, f[k]) BY <1>2
  <2> DEFINE made == f[k - 1]
             dir == Real(made, SubSeq(path, 1, k - 1))
             p == Append(dir, path[k])
  <2>2. f[k] = Make(made, path, k) BY <1>2
  <2>3. made # Nowhere /\ dir # Nowhere BY <2>1, <2>2 DEF Make
  <2>4. Grows(tree, made) BY <1>4, <2>3
  <2>5. f[k] = made \/ f[k] = [q \in DOMAIN made \cup {p} |-> IF q = p THEN Dir ELSE made[q]]
    BY <2>1, <2>2, <2>3 DEF Make
  <2>6. dir \in DOMAIN made
    <3>1. k - 1 \in 0..Len(path) /\ <<>> \in DOMAIN made BY <1>2, <2>4 DEF Grows
    <3>2. dir = To(made, path, k - 1) BY DEF To
    <3> HIDE DEF made, dir
    <3> QED BY <2>3, <3>1, <3>2, RealInTree
  <2>7. p \in Seq(Names)
    <3>1. dir \in Seq(Names) /\ path[k] \in Names BY <2>4, <2>6 DEF Grows
    <3> HIDE DEF made, dir
    <3> QED BY <3>1
  <2> HIDE DEF made, dir, p
  <2>8. CASE f[k] = made BY <2>4, <2>8
  <2>9. CASE f[k] = [q \in DOMAIN made \cup {p} |-> IF q = p THEN Dir ELSE made[q]] /\ p \notin DOMAIN made
    BY <2>4, <2>7, <2>9 DEF Grows
  <2>10. f[k] # made => p \notin DOMAIN made
    BY <2>1, <2>2, <2>3 DEF Make, made, dir, p
  <2> QED BY <2>5, <2>8, <2>9, <2>10
<1>5. N \in T
  <2> HIDE DEF N, T
  <2>1. \A k \in 1..N : k - 1 \in T => k \in T BY <1>4
  <2>2. \A k \in 0..N : k \in T BY <1>2, <1>3, <2>1, Induction
  <2> QED BY <1>2, <2>2
<1> QED BY <1>1, <1>5

-----------------------------------------------------------------------------
(* One sequence after another. *)

(* The text x is a and b, and both can be had back. *)
Spliced(S, a, b, x) ==
  /\ x \in Seq(S) /\ Len(x) = Len(a) + Len(b)
  /\ \A i \in 1..Len(a) : x[i] = a[i]
  /\ \A i \in 1..Len(b) : x[Len(a) + i] = b[i]
  /\ SubSeq(x, 1, Len(a)) = a /\ SubSeq(x, Len(a) + 1, Len(x)) = b

(* Two texts one after the other can be had back. *)
LEMMA Parts ==
  ASSUME NEW S, NEW a \in Seq(S), NEW b \in Seq(S), NEW x, x = a \o b
  PROVE  Spliced(S, a, b, x)
<1> DEFINE n == Len(a)
           m == Len(b)
<1>1. n \in Nat /\ m \in Nat OBVIOUS
<1>2. /\ x \in Seq(S) /\ Len(x) = n + m
      /\ \A i \in 1..(n + m) : x[i] = IF i <= n THEN a[i] ELSE b[i - n]
  BY ConcatProperties
<1>3. \A i \in 1..n : x[i] = a[i] BY <1>1, <1>2
<1>4. ASSUME NEW i \in 1..m PROVE x[n + i] = b[i]
  <2>1. n + i \in 1..(n + m) /\ ~(n + i <= n) /\ (n + i) - n = i BY <1>1
  <2> QED BY <1>2, <2>1
<1>5. SubSeq(x, 1, n) = a
  <2> DEFINE y == SubSeq(x, 1, n)
  <2>1. \A i \in 1..n : x[i] \in S BY <1>1, <1>2
  <2>2. 1 \in Int /\ n \in Int BY <1>1
  <2>3. /\ y \in Seq(S) /\ Len(y) = (IF 1 <= n THEN n - 1 + 1 ELSE 0)
        /\ \A i \in 1..(n - 1 + 1) : y[i] = x[1 + i - 1]
    BY <2>1, <2>2, SubSeqProperties
  <2> HIDE DEF y
  <2>4. Len(y) = n BY <1>1, <2>3
  <2>5. ASSUME NEW i \in 1..Len(y) PROVE y[i] = a[i]
    <3>1. i \in 1..n /\ i \in 1..(n - 1 + 1) /\ 1 + i - 1 = i BY <1>1, <2>4
    <3> QED BY <1>3, <2>3, <3>1
  <2>6. y = a BY <2>3, <2>4, <2>5, SeqEqual
  <2> QED BY <2>6 DEF y
<1>6. SubSeq(x, n + 1, Len(x)) = b
  <2> DEFINE y == SubSeq(x, n + 1, n + m)
  <2>1. \A i \in (n + 1)..(n + m) : x[i] \in S BY <1>1, <1>2
  <2>2. n + 1 \in Int /\ n + m \in Int BY <1>1
  <2>3. /\ y \in Seq(S) /\ Len(y) = (IF n + 1 <= n + m THEN (n + m) - (n + 1) + 1 ELSE 0)
        /\ \A i \in 1..((n + m) - (n + 1) + 1) : y[i] = x[(n + 1) + i - 1]
    BY <2>1, <2>2, SubSeqProperties
  <2> HIDE DEF y
  <2>4. Len(y) = m BY <1>1, <2>3
  <2>5. ASSUME NEW i \in 1..Len(y) PROVE y[i] = b[i]
    <3>1. i \in 1..m /\ i \in 1..((n + m) - (n + 1) + 1) /\ (n + 1) + i - 1 = n + i
      BY <1>1, <2>4
    <3>2. y[i] = x[(n + 1) + i - 1] BY <2>3, <3>1
    <3> QED BY <1>4, <3>1, <3>2
  <2>6. y = b BY <2>3, <2>4, <2>5, SeqEqual
  <2> QED BY <1>2, <2>6 DEF y
<1> QED BY <1>2, <1>3, <1>4, <1>5, <1>6 DEF Spliced

(* A token is in the whole where it is in a part. *)
LEMMA ContainsParts ==
  ASSUME NEW S, NEW a \in Seq(S), NEW b \in Seq(S), NEW x, x = a \o b, NEW token
  PROVE  Contains(x, token) <=> Contains(a, token) \/ Contains(b, token)
<1> DEFINE n == Len(a)
           m == Len(b)
<1>1. n \in Nat /\ m \in Nat OBVIOUS
<1>2. /\ Len(x) = n + m
      /\ \A i \in 1..n : x[i] = a[i]
      /\ \A j \in 1..m : x[n + j] = b[j]
  BY Parts DEF Spliced
<1>3. ASSUME NEW i \in 1..Len(x), x[i] = token PROVE Contains(a, token) \/ Contains(b, token)
  <2>1. CASE i <= n
    <3>1. i \in 1..n BY <1>1, <1>2, <2>1
    <3> QED BY <1>2, <1>3, <3>1 DEF Contains
  <2>2. CASE ~(i <= n)
    <3>1. i - n \in 1..m /\ n + (i - n) = i BY <1>1, <1>2, <2>2
    <3>2. b[i - n] = token BY <1>2, <1>3, <3>1
    <3> QED BY <3>1, <3>2 DEF Contains
  <2> QED BY <2>1, <2>2
<1>4. ASSUME NEW i \in 1..n, a[i] = token PROVE Contains(x, token)
  <2>1. i \in 1..Len(x) BY <1>1, <1>2
  <2> QED BY <1>2, <1>4, <2>1 DEF Contains
<1>5. ASSUME NEW i \in 1..m, b[i] = token PROVE Contains(x, token)
  <2>1. n + i \in 1..Len(x) BY <1>1, <1>2
  <2> QED BY <1>2, <1>5, <2>1 DEF Contains
<1> QED BY <1>3, <1>4, <1>5 DEF Contains

-----------------------------------------------------------------------------
(* Where impl_path leads. *)

Way == Root \o Front(impl)
Home == Real(fs, Way)

(* An impl_path that the shape rule lets through. *)
Shapely == impl \in Seq(Names) /\ require_nested_relative_file(impl)

(* The way to the implementation goes beyond the root and never climbs. *)
LEMMA WayFacts ==
  ASSUME Shapely
  PROVE  /\ Way \in Seq(Names) /\ ~Contains(Way, Up) /\ Len(Root) < Len(Way)
         /\ \A i \in 1..Len(Root) : Way[i] = Root[i]
         /\ Front(Root \o impl) = Way /\ Last(Root \o impl) = Last(impl)
         /\ Root \o impl \in Seq(Names) /\ Root \o impl # <<>>
         /\ Last(impl) \in Names /\ Last(impl) # Up /\ parts(impl) = impl
<1> DEFINE L == Len(Root)
           M == Len(impl)
           f == Front(impl)
           raw == Root \o impl
<1>1. Root \in Seq(Names) /\ ~Contains(Root, Up) BY PathAssumption
<1>2. impl \in Seq(Names) /\ M >= 2 /\ ~Contains(impl, Up) /\ parts(impl) = impl
  BY DEF Shapely, require_nested_relative_file
<1>3. L \in Nat /\ M \in Nat BY <1>1, <1>2
<1>4. f \in Seq(Names) /\ Len(f) = M - 1 /\ \A i \in 1..(M - 1) : f[i] = impl[i]
  BY <1>2, <1>3 DEF Front
<1>5. /\ raw \in Seq(Names) /\ Len(raw) = L + M
      /\ \A i \in 1..(L + M) : raw[i] = IF i <= L THEN Root[i] ELSE impl[i - L]
  BY <1>1, <1>2, ConcatProperties
<1> HIDE DEF f, raw
<1>6. /\ Way \in Seq(Names) /\ Len(Way) = L + (M - 1)
      /\ \A i \in 1..(L + (M - 1)) : Way[i] = IF i <= L THEN Root[i] ELSE f[i - L]
  <2>1. Way = Root \o f BY DEF Way, f
  <2>2. /\ Way \in Seq(Names) /\ Len(Way) = Len(Root) + Len(f)
        /\ \A i \in 1..(Len(Root) + Len(f)) : Way[i] = IF i <= Len(Root) THEN Root[i] ELSE f[i - Len(Root)]
    BY <1>1, <1>4, <2>1, ConcatProperties
  <2>3. Len(f) = M - 1 BY <1>4
  <2> HIDE DEF M
  <2> QED BY <2>2, <2>3
<1>7. ~Contains(Way, Up)
  <2> SUFFICES ASSUME NEW i \in 1..Len(Way), Way[i] = Up PROVE FALSE BY DEF Contains
  <2>1. i \in 1..(L + (M - 1)) BY <1>6
  <2>2. CASE i <= L
    <3>1. i \in 1..L /\ Root[i] = Up BY <1>3, <1>6, <2>1, <2>2
    <3> QED BY <1>1, <3>1 DEF Contains
  <2>3. CASE ~(i <= L)
    <3>1. i - L \in 1..(M - 1) /\ f[i - L] = Up BY <1>3, <1>6, <2>1, <2>3
    <3> DEFINE j == i - L
    <3> HIDE DEF j
    <3>2. j \in 1..(M - 1) /\ f[j] = Up BY <3>1 DEF j
    <3>3. impl[j] = Up BY <1>4, <3>2
    <3>4. j \in 1..M BY <1>3, <3>2
    <3> QED BY <1>2, <3>3, <3>4 DEF Contains
  <2> QED BY <2>2, <2>3
<1>8. Front(raw) = Way
  <2> DEFINE g == SubSeq(raw, 1, L + M - 1)
  <2>1. g \in Seq(Names) /\ Len(g) = L + M - 1 /\ \A i \in 1..(L + M - 1) : g[i] = raw[i]
    BY <1>2, <1>3, <1>5
  <2>2. Front(raw) = g BY <1>5 DEF Front
  <2> HIDE DEF g
  <2>3. Len(g) = Len(Way) BY <1>3, <1>6, <2>1
  <2>4. ASSUME NEW i \in 1..Len(g) PROVE g[i] = Way[i]
    <3>1. i \in 1..(L + M - 1) /\ i \in 1..(L + M) /\ i \in 1..(L + (M - 1))
      BY <1>2, <1>3, <2>1
    <3>2. CASE i <= L BY <1>5, <1>6, <2>1, <3>1, <3>2
    <3>3. CASE ~(i <= L)
      <4>1. i - L \in 1..(M - 1) BY <1>3, <3>1, <3>3
      <4> QED BY <1>4, <1>5, <1>6, <2>1, <3>1, <3>3, <4>1
    <3> QED BY <3>2, <3>3
  <2>5. g = Way BY <1>6, <2>1, <2>3, <2>4, SeqEqual
  <2> QED BY <2>2, <2>5
<1>9. Last(raw) = Last(impl) /\ Last(impl) \in Names /\ Last(impl) # Up
  <2>1. Last(raw) = raw[L + M] /\ Last(impl) = impl[M] BY <1>5 DEF Last
  <2>2. L + M \in 1..(L + M) /\ ~(L + M <= L) /\ (L + M) - L = M /\ M \in 1..M BY <1>2, <1>3
  <2> QED BY <1>2, <1>5, <2>1, <2>2 DEF Contains
<1>10. L < Len(Way) /\ \A i \in 1..L : Way[i] = Root[i]
  BY <1>2, <1>3, <1>6
<1>11. raw # <<>> BY <1>2, <1>3, <1>5
<1> QED BY <1>2, <1>5, <1>6, <1>7, <1>8, <1>9, <1>10, <1>11 DEF raw

(* The implementation is not the oracle test. *)
LEMMA HomeFacts ==
  ASSUME WellFormed(fs), Shapely, Home # Nowhere
  PROVE  Home \in DOMAIN fs /\ Home \in Seq(Names) /\ Named \in Seq(Names)
         /\ Named = Append(Home, Last(impl)) /\ (Direct(fs) => Named # Oracle)
<1>1. <<>> \in DOMAIN fs
  <2>1. 0 \in 0..Len(Root) /\ SubSeq(Root, 1, 0) = <<>> BY PathAssumption, SubSeqEmpty
  <2> QED BY <2>1 DEF WellFormed
<1>2. Home \in DOMAIN fs
  <2>1. Len(Way) \in 0..Len(Way) BY WayFacts
  <2>2. Home = To(fs, Way, Len(Way)) BY WayFacts, RealStep DEF Home
  <2> QED BY <1>1, <2>1, <2>2, WayFacts, RealInTree
<1>3. Home \in Seq(Names) BY <1>2 DEF WellFormed
<1>4. Named = Append(Home, Last(impl)) BY DEF Named, Home, Way
<1>5. Named \in Seq(Names) BY <1>3, <1>4, WayFacts, AppendProperties
<1>6. Direct(fs) => ~IsPrefix(Home, Root) BY WayFacts, BeyondRoot DEF Home
<1>7. Root \in Seq(Names) /\ OracleName \in Names BY PathAssumption DEF Names
<1>8. IsPrefix(Root, Root) BY <1>7, PrefixElements
<1>9. ASSUME Direct(fs) PROVE Named # Oracle
  <2>1. Home # Root BY <1>6, <1>8, <1>9
  <2> QED BY <1>3, <1>4, <1>7, <2>1, WayFacts, AppendInjective DEF Oracle
<1> QED BY <1>2, <1>3, <1>4, <1>5, <1>9

(* A write goes where impl_path leads, inside the root, and never through a  *)
(* link (resolve_within).                                                    *)
LEMMA PermittedIsNamed ==
  ASSUME WellFormed(fs), Shapely, resolve_within(fs, impl) # Nowhere
  PROVE  /\ Home # Nowhere /\ resolve_within(fs, impl) = Named
         /\ IsPrefix(Root, Named)
         /\ Named \in DOMAIN fs => fs[Named].kind # "link"
<1> DEFINE raw == Root \o impl
           N == Len(raw)
           target == IF Real(fs, raw) # Nowhere THEN Real(fs, raw)
                     ELSE IF Home = Nowhere THEN Nowhere
                     ELSE Append(Home, Last(impl))
<1>1. Front(raw) = Way /\ Last(raw) = Last(impl) /\ raw \in Seq(Names) /\ raw # <<>>
      /\ parts(impl) = impl /\ Last(impl) # Up
  BY WayFacts
<1> HIDE DEF raw
<1>2. /\ ~is_symlink(fs, raw) /\ target # Nowhere /\ IsPrefix(Root, target)
      /\ resolve_within(fs, impl) = target
  BY <1>1 DEF resolve_within, Home, raw
<1>3. Real(fs, raw) = Step(fs, Home, Last(impl))
  <2>1. N \in 1..N BY <1>1
  <2>2. Real(fs, raw) = To(fs, raw, N) /\ To(fs, raw, N) = Step(fs, To(fs, raw, N - 1), raw[N])
    BY <1>1, <2>1, RealStep
  <2>3. To(fs, raw, N - 1) = Home BY <1>1 DEF To, Home, Front
  <2>4. raw[N] = Last(impl) BY <1>1 DEF Last
  <2> QED BY <2>2, <2>3, <2>4
<1>4. Home # Nowhere BY <1>2, <1>3 DEF Step
<1>5. Named = Append(Home, Last(impl)) BY DEF Named, Home, Way
<1>6. Named \in DOMAIN fs => fs[Named].kind # "link"
  BY <1>1, <1>2, <1>4, <1>5 DEF is_symlink, Home
<1>7. target = Named
  <2>1. Real(fs, raw) = Enter(fs, Home, Last(impl)) BY <1>3, <1>4 DEF Step
  <2>2. Real(fs, raw) # Nowhere => Real(fs, raw) = Named
    BY <1>1, <1>5, <1>6, <2>1 DEF Enter
  <2> QED BY <1>4, <1>5, <2>2
<1> HIDE DEF target
<1> QED BY <1>2, <1>4, <1>6, <1>7

-----------------------------------------------------------------------------
(* The inductive invariants. *)

Running == {"begin", "attempt", "apply", "written", "refused"}

Same(p) == p \in DOMAIN before /\ p \in DOMAIN fs /\ fs[p] = before[p]

(* Until the run is over the tree is well formed; once the store is made the *)
(* oracle test is in place, and what differs from the tree the run began     *)
(* with is the oracle test or the file impl_path leads to.                   *)
Kept ==
  /\ impl \in Seq(Names)
  /\ pc \in Running \cup {"rejected", "raised", "returned"}
  /\ pc \in Running => WellFormed(fs) /\ (Direct(before) => Direct(fs))
  /\ pc = "begin" => subtree = Nowhere /\ entries = <<>>
  /\ pc \in Running \ {"begin"} => Shapely /\ subtree # Nowhere
  /\ subtree = Nowhere => \A p \in FilesOf(before) \cup FilesOf(fs) : Same(p)
  /\ subtree # Nowhere =>
       /\ OracleFile \in DOMAIN fs /\ fs[OracleFile].kind = "file"
       /\ Named # OracleFile \/ Direct(before) => fs[OracleFile] = File(OracleText)
       /\ \A p \in FilesOf(before) \cup FilesOf(fs) :
            p = OracleFile \/ (Home # Nowhere /\ p = Named /\ IsPrefix(Root, Named)) \/ Same(p)

(* The file a captured path stands for: itself, or what it links to. *)
Spot(tree, p) == IF tree[p].kind = "link" THEN tree[p].to ELSE p

FilesIn(tree) == {p \in Under(tree, subtree) : is_file(tree, p)}

(* A capture names exactly the files the subtree has now; only the text of   *)
(* the implementation may differ, and paths of one file have one text.       *)
Faithful(files) ==
  /\ files = [p \in FilesIn(fs) |-> files[p]]
  /\ \A p \in FilesIn(fs) : Spot(fs, p) # Named => files[p] = fs[Spot(fs, p)].text
  /\ \A p, q \in FilesIn(fs) : Spot(fs, p) = Spot(fs, q) => files[p] = files[q]

(* While the run goes on every capture is faithful, and the implementation   *)
(* is there as soon as an attempt was written.                               *)
Taken ==
  /\ entries \in Seq(Range(entries))
  /\ \A i \in DOMAIN entries : entries[i].passed \in Nat
  /\ pc \in Running =>
       /\ \A i \in DOMAIN entries : Faithful(entries[i].files)
       /\ pc = "written" \/ entries # <<>> =>
            /\ Home # Nowhere /\ IsPrefix(Root, Named)
            /\ Named \in DOMAIN fs /\ fs[Named].kind = "file"

(* impl_path leads to the same place as long as nodes are kept. *)
LEMMA HomeKept ==
  ASSUME Shapely, Home # Nowhere, Keeps(fs, fs'), impl' = impl
  PROVE  Home' = Home /\ Named' = Named
<1>1. Way' = Way BY DEF Way
<1>2. Real(fs', Way) = Real(fs, Way) BY WayFacts, RealKept DEF Home
<1>3. Home' = Home BY <1>1, <1>2 DEF Home
<1>4. Named' = Append(Home', Last(impl')) /\ Named = Append(Home, Last(impl))
  BY DEF Named, Home, Way
<1> QED BY <1>3, <1>4

(* The preparation makes directories. *)
LEMMA Preparation ==
  ASSUME WellFormed(fs), Shapely, prepared # Nowhere
  PROVE  Grows(fs, prepared) /\ WellFormed(prepared) /\ (Direct(fs) => Direct(prepared))
<1>1. <<>> \in DOMAIN fs /\ DOMAIN fs \subseteq Seq(Names)
  <2>1. 0 \in 0..Len(Root) /\ SubSeq(Root, 1, 0) = <<>> BY PathAssumption, SubSeqEmpty
  <2> QED BY <2>1 DEF WellFormed
<1>2. prepared = Mkdirs(fs, Way) BY DEF prepared, Way
<1>3. Grows(fs, prepared) BY <1>1, <1>2, WayFacts, MkdirsGrows
<1> QED BY <1>3, GrowthOverlays, OverlayWellFormed

(* Directories that are made are no files. *)
LEMMA GrowthKeepsFiles ==
  ASSUME NEW a, NEW b, Grows(a, b)
  PROVE  FilesOf(b) = FilesOf(a) /\ \A p \in FilesOf(a) : p \in DOMAIN a /\ p \in DOMAIN b /\ b[p] = a[p]
BY DEF Grows, FilesOf

(* A write of the oracle test or of the implementation finds a file there or *)
(* nothing.                                                                  *)
LEMMA WritesFile ==
  ASSUME NEW tree, WellFormed(tree), NEW p, p \in DOMAIN tree => tree[p].kind # "link",
         ~(p \in DOMAIN tree /\ tree[p] = Dir)
  PROVE  p \in DOMAIN tree => tree[p].kind = "file"
BY DEF WellFormed

(* The steps up to the first attempt. *)
LEMMA BeginKeeps ==
  ASSUME Kept, pc = "begin", RefuseShape \/ MkdirRaises \/ RefuseEscape \/ OracleRaises \/ Begin
  PROVE  Kept'
<1>1. impl' = impl /\ before' = before /\ impl \in Seq(Names) /\ WellFormed(fs) /\ subtree = Nowhere
      /\ (Direct(before) => Direct(fs))
      /\ \A p \in FilesOf(before) \cup FilesOf(fs) : Same(p)
  BY DEF Kept, Running, RefuseShape, MkdirRaises, RefuseEscape, OracleRaises, Begin
<1>2. CASE RefuseShape
  BY <1>1, <1>2 DEF RefuseShape, Kept, Running, Same, FilesOf
<1>5. CASE MkdirRaises
  <2>1. Shapely /\ subtree' = Nowhere /\ pc' = "raised" BY <1>1, <1>5 DEF MkdirRaises, Shapely
  <2>2. PICK i \in 0..Len(impl) - 2 :
          fs' = Mkdirs(fs, Root \o SubSeq(impl, 1, i)) /\ fs' # Nowhere
    BY <1>5 DEF MkdirRaises
  <2>3. Root \o SubSeq(impl, 1, i) \in Seq(Names) /\ ~Contains(Root \o SubSeq(impl, 1, i), Up)
    <3> DEFINE p == SubSeq(impl, 1, i)
    <3>1. Root \in Seq(Names) /\ ~Contains(Root, Up) /\ ~Contains(impl, Up)
      BY <2>1, PathAssumption DEF Shapely, require_nested_relative_file
    <3>2. p \in Seq(Names) /\ \A k \in 1..Len(p) : k \in 1..Len(impl) /\ p[k] = impl[k]
      BY <1>1, <2>2
    <3>3. ~Contains(p, Up) BY <3>1, <3>2 DEF Contains
    <3> HIDE DEF p
    <3>4. Root \o p \in Seq(Names) BY <3>1, <3>2, ConcatProperties
    <3>5. ~Contains(Root \o p, Up) BY <3>1, <3>2, <3>3, ContainsParts
    <3> QED BY <3>4, <3>5 DEF p
  <2>4. <<>> \in DOMAIN fs /\ DOMAIN fs \subseteq Seq(Names)
    <3>1. 0 \in 0..Len(Root) /\ SubSeq(Root, 1, 0) = <<>> BY PathAssumption, SubSeqEmpty
    <3> QED BY <1>1, <3>1 DEF WellFormed
  <2>5. Grows(fs, fs') BY <2>2, <2>3, <2>4, MkdirsGrows
  <2>6. \A p \in FilesOf(before') \cup FilesOf(fs') : Same(p)'
    BY <1>1, <2>5, GrowthKeepsFiles DEF Same, FilesOf
  <2> QED BY <1>1, <2>1, <2>6 DEF Kept, Running
<1>3. CASE RefuseEscape \/ OracleRaises
  <2>1. Shapely /\ prepared # Nowhere /\ fs' = prepared /\ subtree' = Nowhere
        /\ pc' \in {"rejected", "raised"}
    BY <1>1, <1>3 DEF RefuseEscape, OracleRaises, Shapely
  <2>2. Grows(fs, prepared) BY <1>1, <2>1, Preparation
  <2>3. \A p \in FilesOf(before') \cup FilesOf(fs') : Same(p)'
    BY <1>1, <2>1, <2>2, GrowthKeepsFiles DEF Same, FilesOf
  <2> QED BY <1>1, <2>1, <2>3 DEF Kept, Running
<1>4. CASE Begin
  <2>1. Shapely /\ prepared # Nowhere /\ subtree' # Nowhere /\ pc' = "attempt"
        /\ fs' = Write(prepared, Oracle, OracleText)
        /\ ~Unwritable(prepared, Oracle)
    BY <1>1, <1>4 DEF Begin, Shapely
  <2>2. Grows(fs, prepared) /\ WellFormed(prepared) /\ (Direct(before) => Direct(prepared))
    BY <1>1, <2>1, Preparation
  <2>3. Oracle \in Seq(Names)
    <3>1. Root \in Seq(Names) /\ OracleName \in Names BY PathAssumption DEF Names
    <3> QED BY <3>1, AppendProperties DEF Oracle
  <2>4. Landing(prepared, Oracle) = OracleFile
    <3>1. \A p \in FilesOf(before) \cup FilesOf(prepared) :
            p \in DOMAIN before /\ p \in DOMAIN prepared /\ prepared[p] = before[p]
      BY <1>1, <2>2, GrowthKeepsFiles DEF Same, FilesOf
    <3>2. Oracle \in DOMAIN before /\ before[Oracle].kind = "link" => Oracle \in FilesOf(before)
      BY DEF FilesOf, Dir
    <3>3. Oracle \in DOMAIN prepared /\ prepared[Oracle].kind = "link" => Oracle \in FilesOf(prepared)
      BY DEF FilesOf, Dir
    <3> QED BY <3>1, <3>2, <3>3 DEF OracleFile, Landing
  <2>5. /\ OracleFile \in Seq(Names)
        /\ OracleFile \in DOMAIN prepared => prepared[OracleFile].kind = "file"
    <3>1. OracleFile \in Seq(Names) BY <2>2, <2>3, <2>4 DEF Landing, WellFormed, Dir
    <3>2. OracleFile \in DOMAIN prepared => prepared[OracleFile] # Dir
      BY <2>1, <2>4 DEF Unwritable
    <3>3. OracleFile \in DOMAIN prepared => prepared[OracleFile].kind # "link"
      BY <2>2, <2>4 DEF Landing, WellFormed, Dir
    <3> QED BY <2>2, <3>1, <3>2, <3>3, WritesFile
  <2>6. DOMAIN prepared \subseteq Seq(Names) BY <2>2 DEF WellFormed
  <2>7. /\ Overlays(prepared, fs') /\ DOMAIN fs' = DOMAIN prepared \cup {OracleFile}
        /\ fs'[OracleFile] = File(OracleText)
        /\ \A q \in DOMAIN prepared : q # OracleFile => fs'[q] = prepared[q]
    <3>1. Written(prepared, Write(prepared, Oracle, OracleText), OracleFile, OracleText)
      BY <2>4, <2>5, <2>6, WriteOverlays
    <3> QED BY <2>1, <3>1 DEF Written
  <2>8. WellFormed(fs') /\ (Direct(before) => Direct(fs')) BY <2>2, <2>7, OverlayWellFormed
  <2>9. \A p \in FilesOf(before) \cup FilesOf(prepared) :
          p \in DOMAIN before /\ p \in DOMAIN prepared /\ prepared[p] = before[p]
    BY <1>1, <2>2, GrowthKeepsFiles DEF Same, FilesOf
  <2>10. \A p \in FilesOf(before') \cup FilesOf(fs') : p = OracleFile \/ Same(p)'
    BY <1>1, <2>7, <2>9 DEF Same, FilesOf
  <2>11. Shapely' /\ WellFormed(fs)' /\ pc' \in Running /\ (Direct(before') => Direct(fs'))
    BY <1>1, <2>1, <2>8 DEF Shapely, Running, WellFormed
  <2>12. fs'[OracleFile].kind = "file" /\ OracleFile' = OracleFile BY <1>1, <2>7 DEF File, OracleFile
  <2> QED BY <1>1, <2>1, <2>7, <2>10, <2>11, <2>12 DEF Kept, Running
<1> QED BY <1>2, <1>3, <1>4, <1>5

(* What a write finds and leaves. *)
LEMMA ApplyFacts ==
  ASSUME Kept, Apply, pc' = "written"
  PROVE  /\ fs'[Named] = File(reply.file.payload)
         /\ Home # Nowhere /\ IsPrefix(Root, Named) /\ Home' = Home /\ Named' = Named
         /\ (Direct(before) => Named # OracleFile) /\ Overlays(fs, fs')
         /\ Named \in DOMAIN fs => fs[Named].kind = "file"
         /\ DOMAIN fs' = DOMAIN fs \cup {Named} /\ fs'[Named].kind = "file"
         /\ \A q \in DOMAIN fs : q # Named => fs'[q] = fs[q]
<1>1. WellFormed(fs) /\ Shapely /\ subtree # Nowhere /\ (Direct(before) => Direct(fs))
  BY DEF Kept, Apply, Running
<1>2. aim # Nowhere /\ impl' = impl /\ ~Unwritable(fs, aim)
      /\ fs' = Write(fs, aim, reply.file.payload)
  BY DEF Apply
<1>3. resolve_within(fs, impl) # Nowhere /\ aim = resolve_within(fs, impl)
  BY <1>2 DEF aim, writable_target
<1>4. /\ Home # Nowhere /\ aim = Named /\ IsPrefix(Root, Named)
      /\ Named \in DOMAIN fs => fs[Named].kind # "link"
  BY <1>1, <1>3, PermittedIsNamed
<1>5. Named \in Seq(Names) /\ (Direct(before) => Named # OracleFile)
  <2>1. Direct(before) => OracleFile = Oracle BY DEF Direct, OracleFile, Landing
  <2> QED BY <1>1, <1>4, <2>1, HomeFacts
<1>12. Landing(fs, Named) = Named BY <1>4 DEF Landing
<1>6. Named \in DOMAIN fs => fs[Named].kind = "file"
  <2>1. ~(Named \in DOMAIN fs /\ fs[Named] = Dir) BY <1>2, <1>4, <1>12 DEF Unwritable
  <2> QED BY <1>1, <1>4, <2>1, WritesFile
<1>7. DOMAIN fs \subseteq Seq(Names) BY <1>1 DEF WellFormed
<1>8. fs' = Write(fs, Named, reply.file.payload) BY <1>2, <1>4
<1>9. /\ Overlays(fs, fs') /\ DOMAIN fs' = DOMAIN fs \cup {Named}
      /\ fs'[Named] = File(reply.file.payload)
      /\ \A q \in DOMAIN fs : q # Named => fs'[q] = fs[q]
  <2>1. Written(fs, Write(fs, Named, reply.file.payload), Named, reply.file.payload)
    BY <1>5, <1>6, <1>7, <1>12, WriteOverlays
  <2> QED BY <1>8, <2>1 DEF Written
<1>10. Home' = Home /\ Named' = Named BY <1>1, <1>2, <1>4, <1>9, HomeKept DEF Overlays
<1>11. fs'[Named].kind = "file" BY <1>9 DEF File
<1> QED BY <1>4, <1>5, <1>6, <1>8, <1>9, <1>10, <1>11

(* apply_file changes the implementation and nothing else. *)
LEMMA ApplyKeeps == ASSUME Kept, Apply PROVE Kept'
<1>1. WellFormed(fs) /\ Shapely /\ subtree # Nowhere /\ impl \in Seq(Names)
      /\ (Direct(before) => Direct(fs))
      /\ (Named # OracleFile \/ Direct(before) => fs[OracleFile] = File(OracleText))
      /\ OracleFile \in DOMAIN fs /\ fs[OracleFile].kind = "file"
      /\ \A p \in FilesOf(before) \cup FilesOf(fs) :
           p = OracleFile \/ (Home # Nowhere /\ p = Named /\ IsPrefix(Root, Named)) \/ Same(p)
  BY DEF Kept, Apply, Running
<1>2. impl' = impl /\ before' = before /\ subtree' = subtree /\ entries' = entries
      /\ OracleFile' = OracleFile
  BY DEF Apply, OracleFile
<1>3. CASE pc' = "written"
  <2>1. WellFormed(fs') /\ (Direct(before) => Direct(fs'))
    BY <1>1, <1>3, ApplyFacts, OverlayWellFormed
  <2>2. \A p \in FilesOf(before') \cup FilesOf(fs') :
          p = OracleFile \/ (Home' # Nowhere /\ p = Named' /\ IsPrefix(Root, Named')) \/ Same(p)'
    BY <1>1, <1>2, <1>3, ApplyFacts DEF Same, FilesOf
  <2>3. OracleFile \in DOMAIN fs' /\ fs'[OracleFile].kind = "file"
        /\ (Named' # OracleFile \/ Direct(before) => fs'[OracleFile] = File(OracleText))
    BY <1>1, <1>3, ApplyFacts
  <2>4. Shapely' BY <1>1, <1>2 DEF Shapely
  <2> QED BY <1>1, <1>2, <1>3, <2>1, <2>2, <2>3, <2>4 DEF Kept, Running, WellFormed
<1>4. CASE pc' # "written"
  <2>1. fs' = fs /\ pc' = "raised" BY <1>4 DEF Apply
  <2>2. Home' = Home /\ Named' = Named BY <1>2, <2>1 DEF Home, Named, Way
  <2> QED BY <1>1, <1>2, <2>1, <2>2 DEF Kept, Running, Same, FilesOf
<1> QED BY <1>3, <1>4

-----------------------------------------------------------------------------
(* The restore. *)

(* There is a best entry. *)
LEMMA BestIsEntry ==
  ASSUME entries \in Seq(Range(entries)), entries # <<>>,
         \A i \in DOMAIN entries : entries[i].passed \in Nat
  PROVE  \E i \in DOMAIN entries : best = entries[i]
<1> DEFINE N == Len(entries)
           Beats(i, j) == \/ entries[i].passed > entries[j].passed
                          \/ entries[i].passed = entries[j].passed /\ i <= j
           T == {n \in 0..N : n = 0 \/ \E i \in 1..n : \A j \in 1..n : Beats(i, j)}
<1>1. N \in Nat /\ N # 0 /\ DOMAIN entries = 1..N OBVIOUS
<1>2. 0 \in T BY <1>1
<1>3. ASSUME NEW k \in 1..N, k - 1 \in T PROVE k \in T
  <2>1. k \in 0..N /\ \A j \in 1..k : entries[j].passed \in Nat BY <1>1
  <2>2. CASE k = 1
    <3>1. 1 \in 1..1 /\ \A j \in 1..1 : Beats(1, j) BY <2>1, <2>2
    <3> QED BY <2>1, <2>2, <3>1
  <2>3. CASE k # 1
    <3>1. PICK i \in 1..(k - 1) : \A j \in 1..(k - 1) : Beats(i, j) BY <1>1, <1>3, <2>3
    <3>2. CASE entries[k].passed > entries[i].passed
      <4>1. \A j \in 1..k : Beats(k, j)
        <5> SUFFICES ASSUME NEW j \in 1..k PROVE Beats(k, j) OBVIOUS
        <5>1. CASE j = k BY <2>1, <5>1
        <5>2. CASE j # k
          <6>1. j \in 1..(k - 1) /\ i \in 1..k BY <5>2
          <6>2. Beats(i, j) BY <3>1, <6>1
          <6> QED BY <2>1, <3>2, <6>1, <6>2
        <5> QED BY <5>1, <5>2
      <4> QED BY <2>1, <4>1
    <3>3. CASE ~(entries[k].passed > entries[i].passed)
      <4>1. i \in 1..k OBVIOUS
      <4>2. \A j \in 1..k : Beats(i, j)
        <5> SUFFICES ASSUME NEW j \in 1..k PROVE Beats(i, j) OBVIOUS
        <5>1. CASE j = k BY <2>1, <3>3, <4>1, <5>1
        <5>2. CASE j # k
          <6>1. j \in 1..(k - 1) BY <5>2
          <6> QED BY <3>1, <6>1
        <5> QED BY <5>1, <5>2
      <4> QED BY <2>1, <4>1, <4>2
    <3> QED BY <3>2, <3>3
  <2> QED BY <2>2, <2>3
<1>4. N \in T
  <2> HIDE DEF N, T
  <2>1. \A k \in 1..N : k - 1 \in T => k \in T BY <1>3
  <2>2. \A k \in 0..N : k \in T BY <1>1, <1>2, <2>1, Induction
  <2> QED BY <1>1, <2>2
<1>5. \E i \in DOMAIN entries : \A j \in DOMAIN entries : Beats(i, j)
  <2> HIDE DEF Beats
  <2> QED BY <1>1, <1>4
<1> DEFINE b == CHOOSE i \in DOMAIN entries : \A j \in DOMAIN entries : Beats(i, j)
<1>6. b \in DOMAIN entries
  <2> HIDE DEF Beats
  <2> QED BY <1>5
<1>7. best = entries[b] BY DEF best
<1> HIDE DEF b
<1> QED BY <1>6, <1>7

(* Two trees with the same nodes, but for the texts of their files. *)
Alike(a, b) ==
  /\ DOMAIN b = DOMAIN a
  /\ \A p \in DOMAIN a : b[p].kind = a[p].kind /\ (a[p].kind = "link" => b[p].to = a[p].to)

LEMMA AlikeFiles ==
  ASSUME NEW a, NEW b, Alike(a, b)
  PROVE  FilesIn(b) = FilesIn(a) /\ \A p \in FilesIn(a) : Spot(b, p) = Spot(a, p)
<1>1. Under(b, subtree) = Under(a, subtree) /\ Under(a, subtree) \subseteq DOMAIN a
  BY DEF Alike, Under
<1>2. \A p \in DOMAIN a : is_file(b, p) <=> is_file(a, p) BY DEF Alike, is_file
<1> QED BY <1>1, <1>2 DEF FilesIn, Alike, Spot

(* A captured path stands for a file. *)
LEMMA SpotIsFile ==
  ASSUME WellFormed(fs), NEW p \in FilesIn(fs)
  PROVE  /\ p \in DOMAIN fs /\ Spot(fs, p) \in DOMAIN fs
         /\ fs[Spot(fs, p)].kind = "file" /\ fs[Spot(fs, p)] = File(fs[Spot(fs, p)].text)
         /\ read_bytes(fs, p) = fs[Spot(fs, p)].text
<1>1. p \in DOMAIN fs /\ is_file(fs, p) BY DEF FilesIn, Under
<1>2. Spot(fs, p) \in DOMAIN fs /\ fs[Spot(fs, p)].kind = "file" BY <1>1 DEF is_file, Spot
<1>3. fs[Spot(fs, p)] = File(fs[Spot(fs, p)].text) BY <1>2 DEF WellFormed, Dir
<1> QED BY <1>1, <1>2, <1>3 DEF read_bytes, Spot

(* Writing a faithful capture changes the text of the implementation and     *)
(* removes nothing.                                                          *)
LEMMA RestoredFacts ==
  ASSUME WellFormed(fs), NEW files, Faithful(files), NEW R, R = Restored(fs, files)
  PROVE  /\ Alike(fs, R)
         /\ \A p \in DOMAIN fs : p # Named => R[p] = fs[p]
         /\ \A p \in FilesIn(fs) : R[Spot(fs, p)] = File(files[p])
<1> DEFINE D == FilesIn(fs)
           target(p) == Landing(fs, p)
           targets == {target(p) : p \in DOMAIN files}
           text(t) == files[CHOOSE p \in DOMAIN files : target(p) = t]
           W == [p \in DOMAIN fs \cup targets |-> IF p \in targets THEN File(text(p)) ELSE fs[p]]
<1>1. R = Without(W, {p \in Under(W, subtree) : is_file(W, p) /\ p \notin DOMAIN files})
  BY DEF Restored
<1>2. DOMAIN files = D BY DEF Faithful
<1>3. \A p \in D : p \in DOMAIN fs /\ target(p) = Spot(fs, p) /\ target(p) \in DOMAIN fs
                   /\ fs[target(p)].kind = "file"
  <2> SUFFICES ASSUME NEW p \in D
               PROVE  p \in DOMAIN fs /\ target(p) = Spot(fs, p) /\ target(p) \in DOMAIN fs
                      /\ fs[target(p)].kind = "file"
    OBVIOUS
  <2>1. p \in DOMAIN fs /\ Spot(fs, p) \in DOMAIN fs /\ fs[Spot(fs, p)].kind = "file"
    BY SpotIsFile
  <2>2. target(p) = Spot(fs, p) BY <2>1 DEF Spot, Landing
  <2> QED BY <2>1, <2>2
<1>4. \A p \in D : text(target(p)) = files[p]
  <2> SUFFICES ASSUME NEW p \in D PROVE text(target(p)) = files[p] OBVIOUS
  <2> DEFINE q == CHOOSE r \in DOMAIN files : target(r) = target(p)
  <2>1. q \in D /\ target(q) = target(p) BY <1>2
  <2> HIDE DEF q
  <2>2. Spot(fs, q) = Spot(fs, p) BY <1>3, <2>1
  <2>3. files[q] = files[p] BY <2>1, <2>2 DEF Faithful
  <2> QED BY <2>3 DEF q
<1>5. targets \subseteq DOMAIN fs /\ \A t \in targets : \E p \in D : t = target(p) BY <1>2, <1>3
<1> HIDE DEF text, target
<1>6. DOMAIN W = DOMAIN fs /\ \A p \in DOMAIN fs : W[p] = IF p \in targets THEN File(text(p)) ELSE fs[p]
  BY <1>5
<1> HIDE DEF W, targets
<1>7. ASSUME NEW p \in D PROVE W[Spot(fs, p)] = File(files[p])
  <2>1. target(p) \in targets BY <1>2 DEF targets
  <2>2. W[target(p)] = File(text(target(p))) BY <1>3, <1>6, <2>1
  <2> QED BY <1>3, <1>4, <2>2
<1>8. ASSUME NEW p \in DOMAIN fs, p # Named PROVE W[p] = fs[p]
  <2>1. CASE p \notin targets BY <1>6, <2>1
  <2>2. CASE p \in targets
    <3>1. PICK r \in D : p = target(r) BY <1>5, <2>2
    <3>2. p = Spot(fs, r) BY <1>3, <3>1
    <3>3. files[r] = fs[p].text BY <1>8, <3>2 DEF Faithful
    <3>4. fs[p] = File(fs[p].text) BY <3>2, SpotIsFile
    <3> QED BY <1>7, <3>2, <3>3, <3>4
  <2> QED BY <2>1, <2>2
<1>9. Alike(fs, W)
  <2>1. ASSUME NEW p \in DOMAIN fs
        PROVE  W[p].kind = fs[p].kind /\ (fs[p].kind = "link" => W[p].to = fs[p].to)
    <3>1. CASE p \notin targets BY <1>6, <3>1
    <3>2. CASE p \in targets
      <4>1. fs[p].kind = "file" BY <1>3, <1>5, <3>2
      <4>2. W[p].kind = "file" BY <1>6, <3>2 DEF File
      <4> QED BY <4>1, <4>2
    <3> QED BY <3>1, <3>2
  <2> QED BY <1>6, <2>1 DEF Alike
<1>10. R = W
  <2>1. FilesIn(W) = D BY <1>9, AlikeFiles
  <2>2. {p \in Under(W, subtree) : is_file(W, p) /\ p \notin DOMAIN files} = {}
    BY <1>2, <2>1 DEF FilesIn
  <2>3. R = Without(W, {}) BY <1>1, <2>2
  <2>4. W = [p \in DOMAIN W |-> W[p]] BY DEF W
  <2>5. Without(W, {}) = [p \in DOMAIN W |-> W[p]] BY DEF Without
  <2> QED BY <2>3, <2>4, <2>5
<1> QED BY <1>7, <1>8, <1>9, <1>10

(* Pruning empty directories loses no file. *)
LEMMA PruneKeepsFiles ==
  ASSUME WellFormed(fs), NEW files, Faithful(files), NEW R, R = Restored(fs, files),
         NEW gone, gone \subseteq Empty(R), NEW F, F = Without(R, gone)
  PROVE  /\ FilesIn(F) = FilesIn(fs) /\ Captured(F) = files
         /\ FilesOf(F) = FilesOf(R) /\ \A p \in FilesOf(R) : F[p] = R[p]
<1>1. /\ Alike(fs, R) /\ \A p \in FilesIn(fs) : R[Spot(fs, p)] = File(files[p])
  BY RestoredFacts
<1>2. FilesIn(R) = FilesIn(fs) /\ \A p \in FilesIn(fs) : Spot(R, p) = Spot(fs, p)
  BY <1>1, AlikeFiles
<1>3. DOMAIN F = DOMAIN R \ gone /\ \A p \in DOMAIN R \ gone : F[p] = R[p] BY DEF Without
<1>4. \A p \in gone : p \in DOMAIN R /\ R[p] = Dir BY DEF Empty, Under
<1>5. FilesOf(F) = FilesOf(R) /\ \A p \in FilesOf(R) : p \in DOMAIN F /\ F[p] = R[p]
  BY <1>3, <1>4 DEF FilesOf
<1>6. ASSUME NEW p \in FilesIn(fs)
      PROVE  /\ p \in FilesOf(R) /\ Spot(R, p) \in FilesOf(R) /\ p \in Under(R, subtree)
             /\ R[p].kind = "link" \/ Spot(R, p) = p
  <2>1. p \in Under(R, subtree) /\ is_file(R, p) /\ p \in DOMAIN R BY <1>2 DEF FilesIn, Under
  <2>2. R[p].kind # "dir" /\ Spot(R, p) \in DOMAIN R /\ R[Spot(R, p)].kind = "file"
    BY <2>1 DEF is_file, Spot
  <2>3. Dir.kind = "dir" BY DEF Dir
  <2> QED BY <2>1, <2>2, <2>3 DEF FilesOf, Spot
<1>7. FilesIn(F) = FilesIn(fs)
  <2>1. ASSUME NEW p \in FilesIn(fs) PROVE p \in FilesIn(F)
    <3>1. p \in DOMAIN F /\ F[p] = R[p] /\ Spot(R, p) \in DOMAIN F /\ F[Spot(R, p)] = R[Spot(R, p)]
      BY <1>5, <1>6
    <3>2. is_file(R, p) BY <1>2 DEF FilesIn
    <3>3. is_file(F, p) BY <3>1, <3>2 DEF is_file, Spot
    <3> QED BY <1>6, <3>1, <3>3 DEF FilesIn, Under
  <2>2. ASSUME NEW p \in FilesIn(F) PROVE p \in FilesIn(R)
    <3>1. p \in DOMAIN F /\ is_file(F, p) /\ IsStrictPrefix(subtree, p) BY DEF FilesIn, Under
    <3>2. p \in DOMAIN R /\ F[p] = R[p] BY <1>3, <3>1
    <3>3. is_file(R, p) BY <1>3, <3>1, <3>2 DEF is_file
    <3> QED BY <3>1, <3>2, <3>3 DEF FilesIn, Under
  <2> QED BY <1>2, <2>1, <2>2
<1>8. ASSUME NEW p \in FilesIn(fs) PROVE read_bytes(F, p) = files[p]
  <2>1. p \in DOMAIN F /\ F[p] = R[p] /\ F[Spot(R, p)] = R[Spot(R, p)] BY <1>5, <1>6
  <2>2. read_bytes(F, p) = F[Spot(R, p)].text BY <1>6, <2>1 DEF read_bytes, Spot
  <2>3. F[Spot(R, p)] = File(files[p]) BY <1>1, <1>2, <2>1
  <2> QED BY <2>2, <2>3 DEF File
<1>9. Captured(F) = files
  <2>1. Captured(F) = [p \in FilesIn(F) |-> read_bytes(F, p)] BY DEF Captured, FilesIn
  <2>2. files = [p \in FilesIn(fs) |-> files[p]] BY DEF Faithful
  <2> QED BY <1>7, <1>8, <2>1, <2>2, Zenon
<1> QED BY <1>5, <1>7, <1>9

(* What is below a directory. *)
LEMMA ChildBelow ==
  ASSUME NEW dir \in Seq(Names), NEW name \in Names
  PROVE  Append(dir, name) \in Seq(Names) /\ IsStrictPrefix(dir, Append(dir, name))
<1>1. /\ Append(dir, name) \in Seq(Names) /\ Len(Append(dir, name)) = Len(dir) + 1
      /\ \A i \in 1..Len(dir) : Append(dir, name)[i] = dir[i]
  BY AppendProperties
<1>2. Len(dir) \in Nat /\ Len(dir) <= Len(Append(dir, name)) /\ dir # Append(dir, name) BY <1>1
<1>3. IsPrefix(dir, Append(dir, name)) BY <1>1, <1>2, PrefixElements
<1> QED BY <1>1, <1>2, <1>3 DEF IsStrictPrefix

LEMMA BelowBelow ==
  ASSUME NEW a \in Seq(Names), NEW b \in Seq(Names), NEW c \in Seq(Names),
         IsStrictPrefix(a, b), IsStrictPrefix(b, c)
  PROVE  IsStrictPrefix(a, c)
<1>1. Len(a) \in Nat /\ Len(b) \in Nat /\ Len(c) \in Nat OBVIOUS
<1>2. Len(a) <= Len(b) /\ \A i \in 1..Len(a) : a[i] = b[i] BY PrefixElements DEF IsStrictPrefix
<1>3. Len(b) <= Len(c) /\ \A i \in 1..Len(b) : b[i] = c[i] BY PrefixElements DEF IsStrictPrefix
<1>4. Len(a) <= Len(c) /\ \A i \in 1..Len(a) : a[i] = c[i] BY <1>1, <1>2, <1>3
<1>5. IsPrefix(a, c) BY <1>4, PrefixElements
<1>6. a # c
  <2> SUFFICES ASSUME a = c PROVE FALSE OBVIOUS
  <2>1. Len(b) = Len(a) BY <1>1, <1>2, <1>3
  <2>2. \A i \in 1..Len(a) : a[i] = b[i] BY <1>2
  <2>3. a = b BY <2>1, <2>2, SeqEqual
  <2> QED BY <2>3 DEF IsStrictPrefix
<1> QED BY <1>5, <1>6 DEF IsStrictPrefix

(* A directory with nothing but directories below it. *)
Barren(tree, d) == tree[d] = Dir /\ \A q \in Under(tree, d) : tree[q] = Dir

(* No directory on the way to the implementation is barren: each has a link, *)
(* the next directory or the implementation below it.                        *)
LEMMA WayIsKept ==
  ASSUME WellFormed(fs), Shapely, Home # Nowhere, Named \in DOMAIN fs, fs[Named].kind = "file",
         NEW R, Alike(fs, R), \A p \in DOMAIN fs : p # Named => R[p] = fs[p],
         NEW n \in 0..Len(Way)
  PROVE  To(fs, Way, n) # Nowhere /\ ~Barren(R, To(fs, Way, n))
<1> DEFINE N == Len(Way)
           at(k) == To(fs, Way, N - k)
           T == {k \in 0..N : at(k) # Nowhere /\ ~Barren(R, at(k))}
<1>1. N \in Nat /\ Way \in Seq(Names) BY WayFacts
<1>2. <<>> \in DOMAIN fs
  <2>1. 0 \in 0..Len(Root) /\ SubSeq(Root, 1, 0) = <<>> BY PathAssumption, SubSeqEmpty
  <2> QED BY <2>1 DEF WellFormed
<1>3. Dir.kind = "dir" BY DEF Dir
<1>4. 0 \in T
  <2>1. N - 0 = N BY <1>1
  <2>2. at(0) = Home BY <1>1, <2>1, RealStep DEF Home
  <2>3. IsStrictPrefix(Home, Named) BY HomeFacts, WayFacts, ChildBelow
  <2>4. Named \in Under(R, Home) /\ R[Named].kind = "file" BY <2>3 DEF Under, Alike
  <2>5. ~Barren(R, Home) BY <1>3, <2>4 DEF Barren
  <2> QED BY <1>1, <2>2, <2>5
<1>5. ASSUME NEW k \in 1..N, k - 1 \in T PROVE k \in T
  <2> DEFINE m == (N - k) + 1
             d == To(fs, Way, N - k)
             c == To(fs, Way, m)
             p == Append(d, Way[m])
  <2>1. m \in 1..N /\ m - 1 = N - k /\ m = N - (k - 1) /\ N - k \in 0..N /\ k \in 0..N BY <1>1
  <2>2. c # Nowhere /\ ~Barren(R, c) BY <1>5, <2>1
  <2>3. c = Step(fs, d, Way[m]) BY <1>1, <2>1, RealStep
  <2>4. Way[m] \in Names /\ Way[m] # Up BY <1>1, <2>1, WayFacts DEF Contains
  <2> HIDE DEF c, m
  <2>5. d # Nowhere /\ c = Enter(fs, d, Way[m]) BY <2>2, <2>3 DEF Step
  <2>6. d \in DOMAIN fs BY <1>1, <1>2, <2>1, <2>5, WayFacts, RealInTree
  <2> HIDE DEF d
  <2>7. d \in Seq(Names) BY <2>6 DEF WellFormed
  <2>8. p \in Seq(Names) /\ IsStrictPrefix(d, p) BY <2>4, <2>7, ChildBelow
  <2>9. p \in DOMAIN fs /\ (fs[p].kind # "link" => c = p) BY <2>2, <2>4, <2>5 DEF Enter
  <2> HIDE DEF p
  <2>10. ~Barren(R, d)
    <3> SUFFICES ASSUME Barren(R, d) PROVE FALSE OBVIOUS
    <3>1. p \in Under(R, d) BY <2>8, <2>9 DEF Under, Alike
    <3>2. R[p] = Dir BY <3>1 DEF Barren
    <3>3. fs[p].kind = "dir" BY <1>3, <2>9, <3>2 DEF Alike
    <3>4. c = p BY <2>9, <3>3
    <3>5. PICK q \in Under(R, p) : R[q] # Dir BY <2>2, <3>2, <3>4 DEF Barren
    <3>6. q \in DOMAIN R /\ q \in Seq(Names) /\ IsStrictPrefix(p, q)
      BY <3>5 DEF Under, Alike, WellFormed
    <3>7. IsStrictPrefix(d, q) BY <2>7, <2>8, <3>6, BelowBelow
    <3>8. q \in Under(R, d) BY <3>6, <3>7 DEF Under
    <3> QED BY <3>5, <3>8 DEF Barren
  <2>11. at(k) = d BY DEF d
  <2> HIDE DEF at
  <2> QED BY <2>1, <2>5, <2>10, <2>11
<1>6. \A k \in 0..N : k \in T
  <2> HIDE DEF N, T
  <2>1. \A k \in 1..N : k - 1 \in T => k \in T BY <1>5
  <2> QED BY <1>1, <1>4, <2>1, Induction
<1>7. N - n \in 0..N /\ N - (N - n) = n BY <1>1
<1>8. N - n \in T BY <1>6, <1>7
<1> QED BY <1>7, <1>8

(* So impl_path leads to the same file after the restore. *)
LEMMA HomePruned ==
  ASSUME WellFormed(fs), Shapely, Home # Nowhere, Named \in DOMAIN fs, fs[Named].kind = "file",
         NEW R, Alike(fs, R), \A p \in DOMAIN fs : p # Named => R[p] = fs[p],
         NEW gone, gone \subseteq Empty(R), NEW F, F = Without(R, gone)
  PROVE  Real(F, Way) = Home
<1> DEFINE N == Len(Way)
           T == {n \in 0..N : To(F, Way, n) = To(fs, Way, n)}
<1>1. N \in Nat /\ Way \in Seq(Names) BY WayFacts
<1>2. <<>> \in DOMAIN fs
  <2>1. 0 \in 0..Len(Root) /\ SubSeq(Root, 1, 0) = <<>> BY PathAssumption, SubSeqEmpty
  <2> QED BY <2>1 DEF WellFormed
<1>3. DOMAIN F = DOMAIN R \ gone /\ \A p \in DOMAIN R \ gone : F[p] = R[p] BY DEF Without
<1>4. \A p \in gone : Barren(R, p) BY DEF Empty, Barren
<1>5. \A n \in 0..N : To(fs, Way, n) # Nowhere /\ ~Barren(R, To(fs, Way, n)) BY WayIsKept
<1>6. ASSUME NEW n \in 0..N
      PROVE  /\ To(fs, Way, n) \in DOMAIN fs /\ To(fs, Way, n) \in DOMAIN F
             /\ F[To(fs, Way, n)].kind = fs[To(fs, Way, n)].kind
  <2>1. To(fs, Way, n) \in DOMAIN fs BY <1>1, <1>2, <1>5, WayFacts, RealInTree
  <2>2. To(fs, Way, n) \notin gone BY <1>4, <1>5
  <2> QED BY <1>3, <2>1, <2>2 DEF Alike
<1>7. Dir.kind = "dir" BY DEF Dir
<1>8. 0 \in T
  <2>1. To(F, Way, 0) = <<>> /\ To(fs, Way, 0) = <<>> BY <1>1, RealStep
  <2> QED BY <1>1, <2>1
<1>9. ASSUME NEW k \in 1..N, k - 1 \in T PROVE k \in T
  <2> DEFINE d == To(fs, Way, k - 1)
             c == To(fs, Way, k)
             p == Append(d, Way[k])
  <2>1. k \in 0..N /\ k - 1 \in 0..N /\ To(F, Way, k - 1) = d BY <1>1, <1>9
  <2>2. c = Step(fs, d, Way[k]) /\ To(F, Way, k) = Step(F, d, Way[k]) BY <1>1, <2>1, RealStep
  <2>3. Way[k] # Up BY <1>1, WayFacts DEF Contains
  <2>4. d # Nowhere /\ c # Nowhere BY <1>5, <2>1
  <2>5. d \in DOMAIN F /\ F[d].kind = fs[d].kind /\ c \in DOMAIN F BY <1>6, <2>1
  <2> HIDE DEF d, c
  <2>6. c = Enter(fs, d, Way[k]) BY <2>2, <2>4 DEF Step
  <2>7. d \in DOMAIN fs /\ fs[d].kind = "dir" /\ p \in DOMAIN fs
        /\ IF fs[p].kind = "link" THEN c = fs[p].to ELSE c = p
    BY <2>3, <2>4, <2>6 DEF Enter
  <2>8. p \in DOMAIN F /\ F[p].kind = fs[p].kind /\ (fs[p].kind = "link" => F[p].to = fs[p].to)
    <3>1. CASE fs[p].kind = "link"
      <4>1. R[p] # Dir BY <1>7, <2>7, <3>1 DEF Alike
      <4>2. p \notin gone BY <1>4, <4>1 DEF Barren
      <4> QED BY <1>3, <2>7, <4>2 DEF Alike
    <3>2. CASE fs[p].kind # "link"
      <4>1. p \notin gone BY <1>3, <2>5, <2>7, <3>2
      <4> QED BY <1>3, <2>7, <3>2, <4>1 DEF Alike
    <3> QED BY <3>1, <3>2
  <2>9. Enter(F, d, Way[k]) = c
    <3>1. d \in DOMAIN F /\ F[d].kind = "dir" BY <2>5, <2>7
    <3>2. CASE fs[p].kind = "link" BY <2>3, <2>5, <2>7, <2>8, <3>1, <3>2 DEF Enter
    <3>3. CASE fs[p].kind # "link" BY <2>3, <2>5, <2>7, <2>8, <3>1, <3>3 DEF Enter
    <3> QED BY <3>2, <3>3
  <2>10. To(F, Way, k) = c BY <2>2, <2>4, <2>9 DEF Step
  <2> QED BY <2>1, <2>10 DEF c
<1>10. N \in T
  <2> HIDE DEF N, T
  <2>1. \A k \in 1..N : k - 1 \in T => k \in T BY <1>9
  <2>2. \A k \in 0..N : k \in T BY <1>1, <1>8, <2>1, Induction
  <2> QED BY <1>1, <2>2
<1> QED BY <1>1, <1>10, RealStep DEF Home

-----------------------------------------------------------------------------
(* The steps of a run. *)

(* Nothing that the invariants look at moves. *)
LEMMA NothingMoves ==
  ASSUME UNCHANGED <<impl, fs, subtree>>
  PROVE  /\ Home' = Home /\ Named' = Named /\ FilesIn(fs)' = FilesIn(fs)
         /\ \A p : Spot(fs, p)' = Spot(fs, p)
<1>1. Home' = Home /\ Named' = Named BY DEF Home, Named, Way
<1>2. FilesIn(fs)' = FilesIn(fs) BY DEF FilesIn, Under, is_file
<1>3. \A p : Spot(fs, p)' = Spot(fs, p) BY DEF Spot
<1> QED BY <1>1, <1>2, <1>3

LEMMA TalkKeeps ==
  ASSUME Kept, Generate \/ Refuse \/ AskAgain \/ Record
  PROVE  Kept'
<1>1. pc \in Running \ {"begin"} /\ pc' \in Running \ {"begin"} /\ UNCHANGED <<impl, fs, before, subtree>>
  BY DEF Generate, Refuse, AskAgain, Record, Running
<1>2. Home' = Home /\ Named' = Named BY <1>1, NothingMoves
<1>3. Shapely' = Shapely /\ WellFormed(fs)' = WellFormed(fs) BY <1>1 DEF Shapely, WellFormed
<1>4. \A p \in FilesOf(before') \cup FilesOf(fs') : Same(p)' = Same(p) BY <1>1 DEF Same
<1>5. OracleFile' = OracleFile BY <1>1 DEF OracleFile
<1> QED BY <1>1, <1>2, <1>3, <1>4, <1>5 DEF Kept, Running, FilesOf

(* A capture taken now is faithful. *)
LEMMA CaptureIsFaithful == ASSUME WellFormed(fs) PROVE Faithful(Captured(fs))
<1> DEFINE files == Captured(fs)
<1>1. files = [p \in FilesIn(fs) |-> read_bytes(fs, p)] BY DEF Captured, FilesIn
<1> HIDE DEF files
<1>2. \A p \in FilesIn(fs) : files[p] = fs[Spot(fs, p)].text BY <1>1, SpotIsFile
<1>3. files = [p \in FilesIn(fs) |-> files[p]] BY <1>1
<1>4. Faithful(files) BY <1>2, <1>3 DEF Faithful
<1> QED BY <1>4 DEF files

LEMMA RecordTakes == ASSUME Kept, Taken, Record PROVE Taken'
<1>1. WellFormed(fs) /\ UNCHANGED <<impl, fs, subtree>> /\ pc = "written" /\ pc' = "attempt"
  BY DEF Kept, Record, Running
<1>2. PICK n \in Scores : entries' = Append(entries, [passed |-> n, files |-> Captured(fs)])
  BY DEF Record
<1> DEFINE e == [passed |-> n, files |-> Captured(fs)]
           S == Range(entries) \cup {e}
           N == Len(entries)
<1>3. e.passed = n /\ e.files = Captured(fs) OBVIOUS
<1>4. n \in Nat BY ScoresAssumption
<1> HIDE DEF e
<1>5. entries \in Seq(S) /\ e \in S
  <2>1. entries \in Seq(Range(entries)) BY DEF Taken
  <2> QED BY <2>1
<1>6. N \in Nat /\ DOMAIN entries = 1..N BY <1>5
<1>7. /\ entries' \in Seq(S) /\ Len(entries') = N + 1 /\ entries'[N + 1] = e
      /\ \A i \in 1..N : entries'[i] = entries[i]
  BY <1>2, <1>5, AppendProperties DEF e
<1>8. DOMAIN entries' = 1..(N + 1) BY <1>7
<1>9. Range(entries') = S
  <2>1. \A i \in DOMAIN entries' : entries'[i] \in S BY <1>7
  <2>2. ASSUME NEW x \in S PROVE \E i \in DOMAIN entries' : entries'[i] = x
    <3>1. CASE x = e BY <1>6, <1>7, <1>8, <3>1
    <3>2. CASE x \in Range(entries)
      <4>1. PICK i \in 1..N : entries[i] = x BY <1>6, <3>2 DEF Range
      <4>2. i \in 1..(N + 1) BY <1>6
      <4> QED BY <1>7, <1>8, <4>1, <4>2
    <3> QED BY <2>2, <3>1, <3>2
  <2> QED BY <2>1, <2>2 DEF Range
<1>10. \A i \in DOMAIN entries' : i = N + 1 \/ i \in DOMAIN entries BY <1>6, <1>8
<1>11. \A i \in DOMAIN entries' : entries'[i].passed \in Nat
  BY <1>3, <1>4, <1>6, <1>7, <1>10 DEF Taken
<1>12. /\ Home' = Home /\ Named' = Named /\ FilesIn(fs)' = FilesIn(fs)
       /\ \A p : Spot(fs, p)' = Spot(fs, p)
  BY <1>1, NothingMoves
<1>13. \A i \in DOMAIN entries' : Faithful(entries'[i].files)
  <2> SUFFICES ASSUME NEW i \in DOMAIN entries' PROVE Faithful(entries'[i].files) OBVIOUS
  <2>1. CASE i = N + 1 BY <1>1, <1>3, <1>7, <2>1, CaptureIsFaithful
  <2>2. CASE i \in DOMAIN entries
    <3>1. Faithful(entries[i].files) BY <1>1, <2>2 DEF Taken, Running
    <3> QED BY <1>6, <1>7, <2>2, <3>1
  <2> QED BY <1>10, <2>1, <2>2
<1>14. ASSUME NEW i \in DOMAIN entries' PROVE Faithful(entries[i].files)'
  <2> DEFINE g == entries[i].files
  <2>1. Faithful(g') BY <1>13
  <2> HIDE DEF g
  <2>2. Faithful(g)' BY <1>1, <1>12, <2>1 DEF Faithful
  <2> QED BY <2>2 DEF g
<1>15. /\ Home # Nowhere /\ IsPrefix(Root, Named) /\ Named \in DOMAIN fs /\ fs[Named].kind = "file"
  BY <1>1 DEF Taken, Running
<1>16. entries' \in Seq(Range(entries)') BY <1>7, <1>9 DEF Range
<1> QED BY <1>1, <1>11, <1>12, <1>14, <1>15, <1>16 DEF Taken

LEMMA TalkTakes == ASSUME Taken, Generate \/ Refuse \/ AskAgain PROVE Taken'
<1>1. /\ UNCHANGED <<impl, fs, subtree, entries>>
      /\ pc \in Running \ {"written"} /\ pc' \in Running \ {"written"}
  BY DEF Generate, Refuse, AskAgain, Running
<1>2. /\ Home' = Home /\ Named' = Named /\ FilesIn(fs)' = FilesIn(fs)
      /\ \A p : Spot(fs, p)' = Spot(fs, p)
  BY <1>1, NothingMoves
<1>3. ASSUME NEW i \in DOMAIN entries' PROVE Faithful(entries[i].files)'
  <2> DEFINE g == entries[i].files
  <2>1. Faithful(g) /\ g' = g BY <1>1 DEF Taken
  <2> HIDE DEF g
  <2>2. Faithful(g)' BY <1>1, <1>2, <2>1 DEF Faithful
  <2> QED BY <2>2 DEF g
<1>4. Range(entries)' = Range(entries) BY <1>1 DEF Range
<1> QED BY <1>1, <1>2, <1>3, <1>4 DEF Taken

LEMMA ApplyTakes == ASSUME Kept, Taken, Apply PROVE Taken'
<1>1. pc = "apply" /\ entries' = entries /\ subtree' = subtree /\ pc' \in {"raised", "written"}
  BY DEF Apply
<1>2. Range(entries)' = Range(entries) BY <1>1 DEF Range
<1>3. CASE pc' = "raised" BY <1>1, <1>2, <1>3 DEF Taken, Running
<1>4. CASE pc' = "written"
  <2>1. ASSUME NEW i \in DOMAIN entries PROVE Faithful(entries[i].files)'
    <3>1. Faithful(entries[i].files) BY <1>1 DEF Taken, Running
    <3>2. entries # <<>> BY <2>1
    <3>3. Named \in DOMAIN fs /\ fs[Named].kind = "file" BY <1>1, <3>2 DEF Taken, Running
    <3>4. /\ DOMAIN fs' = DOMAIN fs /\ fs'[Named].kind = "file" /\ Named' = Named
          /\ \A q \in DOMAIN fs : q # Named => fs'[q] = fs[q]
      BY <1>4, <3>3, ApplyFacts
    <3>5. Alike(fs, fs') BY <3>3, <3>4 DEF Alike
    <3>6. FilesIn(fs') = FilesIn(fs) /\ \A p \in FilesIn(fs) : Spot(fs', p) = Spot(fs, p)
      BY <3>5, AlikeFiles
    <3>7. FilesIn(fs)' = FilesIn(fs') /\ \A p \in FilesIn(fs) : Spot(fs, p)' = Spot(fs', p)
      BY <1>1 DEF FilesIn, Under, is_file, Spot
    <3>8. WellFormed(fs) BY <1>1 DEF Kept, Running
    <3>9. \A p \in FilesIn(fs) : Spot(fs, p) \in DOMAIN fs BY <3>8, SpotIsFile
    <3> DEFINE g == entries[i].files
    <3>10. g' = g BY <1>1
    <3> HIDE DEF g
    <3>11. Faithful(g)
      BY <3>1 DEF g
    <3>12. Faithful(g)'
      BY <3>4, <3>6, <3>7, <3>9, <3>10, <3>11 DEF Faithful
    <3> QED BY <3>12 DEF g
  <2>2. ASSUME NEW i \in DOMAIN entries' PROVE Faithful(entries[i].files)' BY <1>1, <2>1
  <2> QED BY <1>1, <1>2, <1>4, <2>2, ApplyFacts DEF Taken
<1> QED BY <1>1, <1>3, <1>4

(* What the restore leaves. *)
LEMMA FinishFacts ==
  ASSUME Kept, Taken, Finish, entries # <<>>
  PROVE  /\ Home' = Home /\ Named' = Named /\ (Direct(before) => Named # OracleFile)
         /\ Captured(fs') = best.files /\ fs'[Named].kind = "file"
         /\ FilesOf(fs') = FilesOf(fs)
         /\ \A p \in FilesOf(fs) : p # Named => fs'[p] = fs[p]
<1>1. /\ WellFormed(fs) /\ Shapely /\ impl' = impl /\ (Direct(before) => Direct(fs))
      /\ Home # Nowhere /\ Named \in DOMAIN fs /\ fs[Named].kind = "file"
  BY DEF Kept, Taken, Finish, Running
<1>2. PICK i \in DOMAIN entries : best = entries[i] BY BestIsEntry DEF Taken
<1>3. Faithful(best.files) BY <1>2 DEF Taken, Finish, Running
<1> DEFINE files == best.files
           R == Restored(fs, files)
<1>4. \E gone \in SUBSET Empty(R) : fs' = Without(R, gone)
  BY DEF Finish
<1>5. PICK gone \in SUBSET Empty(R) : fs' = Without(R, gone) BY <1>4
<1> HIDE DEF R, files
<1>6. Faithful(files) BY <1>3 DEF files
<1>7. R = Restored(fs, files) BY DEF R
<1>8. /\ Alike(fs, R) /\ \A p \in DOMAIN fs : p # Named => R[p] = fs[p]
  BY <1>1, <1>6, <1>7, RestoredFacts
<1>9. /\ Captured(fs') = files /\ FilesOf(fs') = FilesOf(R) /\ \A p \in FilesOf(R) : fs'[p] = R[p]
  BY <1>1, <1>5, <1>6, <1>7, PruneKeepsFiles
<1>10. FilesOf(R) = FilesOf(fs)
  <2>1. R[Named] # Dir /\ fs[Named] # Dir BY <1>1, <1>8 DEF Alike, Dir
  <2> QED BY <1>1, <1>8, <2>1 DEF FilesOf, Alike
<1>11. \A p \in FilesOf(fs) : p # Named => fs'[p] = fs[p] BY <1>8, <1>9, <1>10 DEF FilesOf
<1>12. Real(fs', Way) = Home BY <1>1, <1>5, <1>8, HomePruned
<1>13. Home' = Home /\ Named' = Named
  <2>1. Way' = Way BY <1>1 DEF Way
  <2>2. Home' = Home BY <1>12, <2>1 DEF Home
  <2>3. Named' = Append(Home', Last(impl')) /\ Named = Append(Home, Last(impl))
    BY DEF Named, Home, Way
  <2> QED BY <1>1, <2>2, <2>3
<1>14. Direct(before) => Named # OracleFile
  <2>1. Direct(before) => OracleFile = Oracle BY DEF Direct, OracleFile, Landing
  <2> QED BY <1>1, <2>1, HomeFacts
<1>15. fs'[Named].kind = "file"
  <2>1. R[Named].kind = "file" /\ Named \in FilesOf(R) BY <1>1, <1>8 DEF Alike, FilesOf, Dir
  <2> QED BY <1>9, <2>1
<1> QED BY <1>9, <1>10, <1>11, <1>13, <1>14, <1>15 DEF files

LEMMA FinishKeeps ==
  ASSUME Kept, Taken, Finish
  PROVE  Kept' /\ Taken' /\ RestoreIsExact'
<1>1. /\ UNCHANGED <<impl, before, subtree, entries>> /\ pc' \in {"returned", "raised"}
      /\ pc \in Running \ {"begin"} /\ OracleFile' = OracleFile
  BY DEF Finish, Running, OracleFile
<1>2. /\ subtree # Nowhere /\ impl \in Seq(Names)
      /\ OracleFile \in DOMAIN fs /\ fs[OracleFile].kind = "file"
      /\ Named # OracleFile \/ Direct(before) => fs[OracleFile] = File(OracleText)
      /\ \A p \in FilesOf(before) \cup FilesOf(fs) :
           p = OracleFile \/ (Home # Nowhere /\ p = Named /\ IsPrefix(Root, Named)) \/ Same(p)
  BY <1>1 DEF Kept
<1>3. Taken'
  <2>1. Range(entries)' = Range(entries) BY <1>1 DEF Range
  <2> QED BY <1>1, <2>1 DEF Taken, Running
<1>4. CASE entries = <<>>
  <2>1. fs' = fs BY <1>4 DEF Finish
  <2>2. Home' = Home /\ Named' = Named BY <1>1, <2>1, NothingMoves
  <2>3. Kept' BY <1>1, <1>2, <2>1, <2>2 DEF Kept, Running, Same, FilesOf
  <2>4. RestoreIsExact' BY <1>1, <1>4 DEF RestoreIsExact
  <2> QED BY <1>3, <2>3, <2>4
<1>5. CASE entries # <<>>
  <2>1. /\ Home' = Home /\ Named' = Named /\ (Direct(before) => Named # OracleFile)
        /\ Captured(fs') = best.files /\ fs'[Named].kind = "file"
        /\ FilesOf(fs') = FilesOf(fs)
        /\ \A p \in FilesOf(fs) : p # Named => fs'[p] = fs[p]
    BY <1>5, FinishFacts
  <2>2. OracleFile \in FilesOf(fs) BY <1>2 DEF FilesOf, Dir
  <2>3. OracleFile \in DOMAIN fs' /\ fs'[OracleFile].kind = "file"
        /\ (Named' # OracleFile \/ Direct(before) => fs'[OracleFile] = File(OracleText))
    BY <1>2, <2>1, <2>2 DEF FilesOf
  <2>4. ASSUME NEW p \in FilesOf(before') \cup FilesOf(fs')
        PROVE  p = OracleFile \/ (Home' # Nowhere /\ p = Named' /\ IsPrefix(Root, Named')) \/ Same(p)'
    <3>1. p \in FilesOf(before) \cup FilesOf(fs) BY <1>1, <2>1 DEF FilesOf
    <3>2. CASE Same(p) /\ p # Named
      <4>1. p \in FilesOf(fs) BY <3>1, <3>2 DEF Same, FilesOf
      <4>2. p \in FilesOf(fs') /\ fs'[p] = fs[p] BY <2>1, <3>2, <4>1
      <4> QED BY <1>1, <3>2, <4>2 DEF Same, FilesOf
    <3>3. CASE p = Named
      <4>1. Home # Nowhere /\ IsPrefix(Root, Named) BY <1>1, <1>5 DEF Taken
      <4> QED BY <2>1, <3>3, <4>1
    <3> QED BY <1>2, <2>1, <3>1, <3>2, <3>3
  <2>5. Kept' BY <1>1, <1>2, <2>3, <2>4 DEF Kept, Running
  <2>6. Captured(fs)' = Captured(fs') /\ best' = best
    <3>1. best' = best BY <1>1 DEF best
    <3>2. Captured(fs)' = Captured(fs') BY <1>1 DEF Captured, Under
    <3> QED BY <3>1, <3>2
  <2>7. RestoreIsExact' BY <2>1, <2>6 DEF RestoreIsExact
  <2> QED BY <1>3, <2>5, <2>7
<1> QED BY <1>4, <1>5

-----------------------------------------------------------------------------
(* Texts: where a token is first or last, and what a strip or a partition    *)
(* leaves of two texts one after the other.                                  *)

Triple(S, s, t, u) == s \in Seq(S) /\ t \in Seq(S) /\ u \in Seq(S)

(* Concatenation is associative. *)
LEMMA Regrouped ==
  ASSUME NEW S, NEW s, NEW t, NEW u, Triple(S, s, t, u)
  PROVE  (s \o t) \o u = s \o (t \o u)
BY ConcatAssociative DEF Triple

(* The least and the greatest element of a set. *)
LEMMA LeastIs ==
  ASSUME NEW A, NEW p \in A, \A j \in A : j \in Int /\ p <= j
  PROVE  Min(A) = p
<1> DEFINE m == CHOOSE x \in A : \A y \in A : x =< y
<1>1. m \in A /\ \A y \in A : m =< y OBVIOUS
<1>2. Min(A) = m BY DEF Min
<1> HIDE DEF m
<1>3. m <= p /\ p <= m /\ m \in Int /\ p \in Int BY <1>1
<1> QED BY <1>2, <1>3

LEMMA GreatestIs ==
  ASSUME NEW A, NEW p \in A, \A j \in A : j \in Int /\ j <= p
  PROVE  Max(A) = p
<1> DEFINE m == CHOOSE x \in A : \A y \in A : x >= y
<1>1. m \in A /\ \A y \in A : m >= y OBVIOUS
<1>2. Max(A) = m BY DEF Max
<1> HIDE DEF m
<1>3. m <= p /\ p <= m /\ m \in Int /\ p \in Int BY <1>1
<1> QED BY <1>2, <1>3

(* Where a token is first and last. *)
LEMMA FirstIs ==
  ASSUME NEW S, NEW x \in Seq(S), NEW token, NEW i \in 1..Len(x), x[i] = token,
         \A j \in 1..(i - 1) : x[j] # token
  PROVE  First(x, token) = i /\ Contains(x, token)
<1> DEFINE A == {j \in 1..Len(x) : x[j] = token}
<1>1. i \in A OBVIOUS
<1>2. \A j \in A : j \in Int /\ i <= j OBVIOUS
<1>3. First(x, token) = IF A # {} THEN Min(A) ELSE 0 BY DEF First, SelectInSeq
<1> HIDE DEF A
<1>4. Min(A) = i BY <1>1, <1>2, LeastIs
<1> QED BY <1>1, <1>3, <1>4 DEF Contains

LEMMA LatestIs ==
  ASSUME NEW S, NEW x \in Seq(S), NEW token, NEW i \in 1..Len(x), x[i] = token,
         \A j \in (i + 1)..Len(x) : x[j] # token
  PROVE  Latest(x, token) = i /\ Contains(x, token)
<1> DEFINE A == {j \in 1..Len(x) : x[j] = token}
<1>1. i \in A OBVIOUS
<1>2. \A j \in A : j \in Int /\ j <= i OBVIOUS
<1>3. Latest(x, token) = IF A # {} THEN Max(A) ELSE 0 BY DEF Latest, SelectLastInSeq
<1> HIDE DEF A
<1>4. Max(A) = i BY <1>1, <1>2, GreatestIs
<1> QED BY <1>1, <1>3, <1>4 DEF Contains

(* The text x is a, one token, and b. *)
Cloven(S, a, token, b, x) ==
  /\ a \in Seq(S) /\ b \in Seq(S) /\ token \in S
  /\ x = (a \o <<token>>) \o b

LEMMA ClovenParts ==
  ASSUME NEW S, NEW a, NEW token, NEW b, NEW x, Cloven(S, a, token, b, x)
  PROVE  /\ x \in Seq(S) /\ Len(a) \in Nat /\ Len(b) \in Nat /\ Len(x) = (Len(a) + 1) + Len(b)
         /\ \A i \in 1..Len(a) : x[i] = a[i]
         /\ x[Len(a) + 1] = token
         /\ \A i \in 1..Len(b) : x[(Len(a) + 1) + i] = b[i]
         /\ SubSeq(x, 1, Len(a)) = a
         /\ SubSeq(x, (Len(a) + 1) + 1, Len(x)) = b
<1> DEFINE n == Len(a)
           k == <<token>>
           c == a \o k
<1>1. a \in Seq(S) /\ b \in Seq(S) /\ k \in Seq(S) /\ Len(k) = 1 /\ k[1] = token /\ x = c \o b
  BY DEF Cloven
<1>2. n \in Nat /\ Len(b) \in Nat BY <1>1
<1> HIDE DEF k
<1>3. Spliced(S, a, k, c) BY <1>1, Parts
<1> HIDE DEF c
<1>4. c \in Seq(S) /\ Len(c) = n + 1 BY <1>1, <1>3 DEF Spliced
<1>5. c[n + 1] = token
  <2>1. 1 \in 1..Len(k) BY <1>1
  <2> QED BY <1>1, <1>3, <2>1 DEF Spliced
<1>6. \A i \in 1..n : c[i] = a[i] BY <1>3 DEF Spliced
<1>7. Spliced(S, c, b, x) BY <1>1, <1>4, Parts
<1>8. x \in Seq(S) /\ Len(x) = (n + 1) + Len(b) BY <1>4, <1>7 DEF Spliced
<1>9. \A i \in 1..(n + 1) : x[i] = c[i] BY <1>4, <1>7 DEF Spliced
<1>10. \A i \in 1..Len(b) : x[(n + 1) + i] = b[i] BY <1>4, <1>7 DEF Spliced
<1>11. SubSeq(x, (n + 1) + 1, Len(x)) = b BY <1>4, <1>7 DEF Spliced
<1>12. SubSeq(x, 1, n) = a
  <2> DEFINE z == k \o b
  <2>0. Triple(S, a, k, b) BY <1>1 DEF Triple
  <2>1. x = a \o z /\ z \in Seq(S) BY <1>1, <2>0, Regrouped, ConcatProperties DEF c
  <2> HIDE DEF z
  <2>2. Spliced(S, a, z, x) BY <1>1, <2>1, Parts
  <2> QED BY <2>2 DEF Spliced
<1>13. \A i \in 1..n : x[i] = a[i]
  <2>1. \A i \in 1..n : i \in 1..(n + 1) BY <1>2
  <2> QED BY <1>6, <1>9, <2>1
<1>14. x[n + 1] = token
  <2>1. n + 1 \in 1..(n + 1) BY <1>2
  <2> QED BY <1>5, <1>9, <2>1
<1> QED BY <1>2, <1>8, <1>10, <1>11, <1>12, <1>13, <1>14

(* str.partition at the first such token. *)
LEMMA PartitionFirst ==
  ASSUME NEW S, NEW a, NEW token, NEW b, NEW x, Cloven(S, a, token, b, x), ~Contains(a, token)
  PROVE  /\ Contains(x, token) /\ First(x, token) = Len(a) + 1
         /\ Before(x, token) = a /\ After(x, First(x, token)) = b
<1> DEFINE n == Len(a)
<1>1. x \in Seq(S) /\ n \in Nat /\ Len(b) \in Nat /\ Len(x) = (n + 1) + Len(b) BY ClovenParts
<1>2. x[n + 1] = token BY ClovenParts
<1>3. \A i \in 1..n : x[i] = a[i] BY ClovenParts
<1>4. SubSeq(x, 1, n) = a BY ClovenParts
<1>5. SubSeq(x, (n + 1) + 1, Len(x)) = b BY ClovenParts
<1>6. n + 1 \in 1..Len(x) /\ (n + 1) - 1 = n BY <1>1
<1>7. ASSUME NEW j \in 1..((n + 1) - 1) PROVE x[j] # token
  <2>1. j \in 1..n BY <1>6
  <2> QED BY <1>3, <2>1 DEF Contains
<1> HIDE DEF n
<1>8. x \in Seq(S) BY <1>1
<1>9. First(x, token) = n + 1 /\ Contains(x, token) BY <1>2, <1>6, <1>7, <1>8, FirstIs
<1>10. Before(x, token) = a BY <1>4, <1>6, <1>9 DEF Before
<1>11. After(x, n + 1) = b BY <1>5 DEF After
<1> QED BY <1>9, <1>10, <1>11 DEF n

(* str.rpartition at the last one. *)
LEMMA PartitionLatest ==
  ASSUME NEW S, NEW a, NEW token, NEW b, NEW x, Cloven(S, a, token, b, x), ~Contains(b, token)
  PROVE  /\ Contains(x, token) /\ Latest(x, token) = Len(a) + 1
         /\ After(x, Latest(x, token)) = b
<1> DEFINE n == Len(a)
<1>1. x \in Seq(S) /\ n \in Nat /\ Len(b) \in Nat /\ Len(x) = (n + 1) + Len(b) BY ClovenParts
<1>2. x[n + 1] = token BY ClovenParts
<1>3. \A i \in 1..Len(b) : x[(n + 1) + i] = b[i] BY ClovenParts
<1>4. SubSeq(x, (n + 1) + 1, Len(x)) = b BY ClovenParts
<1>5. n + 1 \in 1..Len(x) BY <1>1
<1>6. ASSUME NEW j \in ((n + 1) + 1)..Len(x) PROVE x[j] # token
  <2>1. j - (n + 1) \in 1..Len(b) /\ (n + 1) + (j - (n + 1)) = j BY <1>1
  <2>2. x[j] = b[j - (n + 1)] BY <1>3, <2>1
  <2> QED BY <2>1, <2>2 DEF Contains
<1> HIDE DEF n
<1>7. x \in Seq(S) BY <1>1
<1>8. Latest(x, token) = n + 1 /\ Contains(x, token) BY <1>2, <1>5, <1>6, <1>7, LatestIs
<1> QED BY <1>4, <1>8 DEF After, n

(* Nothing is cut off where the token does not occur. *)
LEMMA BeforeNothing ==
  ASSUME NEW x, NEW token, ~Contains(x, token)
  PROVE  Before(x, token) = x
BY DEF Before

(* Blank lines before and after. *)
LEMMA LStripBlank ==
  ASSUME NEW S, NEW a \in Seq(S), NEW b \in Seq(S), NEW x, x = a \o b,
         \A i \in 1..Len(a) : a[i] = Nl, b # <<>>, b[1] # Nl
  PROVE  lstrip(x) = b
<1> DEFINE n == Len(a)
           A == {j \in 1..Len(x) : x[j] # Nl}
<1>1. n \in Nat /\ Len(b) \in Nat /\ Len(b) # 0 BY EmptySeq
<1>2. /\ x \in Seq(S) /\ Len(x) = n + Len(b) /\ SubSeq(x, n + 1, Len(x)) = b
      /\ \A i \in 1..n : x[i] = a[i]
  BY Parts DEF Spliced
<1>3. \A j \in 1..Len(b) : x[n + j] = b[j] BY Parts DEF Spliced
<1>4. n + 1 \in A
  <2>1. 1 \in 1..Len(b) /\ n + 1 \in 1..Len(x) BY <1>1, <1>2
  <2> QED BY <1>3, <2>1
<1>5. ASSUME NEW j \in A PROVE j \in Int /\ n + 1 <= j
  <2>1. j \in 1..Len(x) /\ x[j] # Nl OBVIOUS
  <2>2. ~(j \in 1..n) BY <1>2, <2>1
  <2> QED BY <1>1, <1>2, <2>1, <2>2
<1>6. SelectInSeq(x, LAMBDA t : t # Nl) = IF A # {} THEN Min(A) ELSE 0 BY DEF SelectInSeq
<1> HIDE DEF A
<1>7. Min(A) = n + 1 BY <1>4, <1>5, LeastIs
<1>8. SelectInSeq(x, LAMBDA t : t # Nl) = n + 1 BY <1>4, <1>6, <1>7
<1>9. n + 1 # 0 /\ ((n + 1) - 1) + 1 = n + 1 BY <1>1
<1> QED BY <1>2, <1>8, <1>9 DEF lstrip, After

LEMMA RStripBlank ==
  ASSUME NEW S, NEW a \in Seq(S), NEW b \in Seq(S), NEW x, x = a \o b,
         a # <<>>, a[Len(a)] # Nl, \A i \in 1..Len(b) : b[i] = Nl
  PROVE  rstrip(x) = a
<1> DEFINE n == Len(a)
           A == {j \in 1..Len(x) : x[j] # Nl}
<1>1. n \in Nat /\ n # 0 /\ Len(b) \in Nat BY EmptySeq
<1>2. x \in Seq(S) /\ Len(x) = n + Len(b) /\ SubSeq(x, 1, n) = a BY Parts DEF Spliced
<1>3. \A i \in 1..n : x[i] = a[i] BY Parts DEF Spliced
<1>4. \A j \in 1..Len(b) : x[n + j] = b[j] BY Parts DEF Spliced
<1>5. n \in A
  <2>1. n \in 1..n /\ n \in 1..Len(x) BY <1>1, <1>2
  <2> QED BY <1>3, <2>1
<1>6. ASSUME NEW j \in A PROVE j \in Int /\ j <= n
  <2>1. j \in 1..Len(x) /\ x[j] # Nl OBVIOUS
  <2>2. ASSUME ~(j <= n) PROVE FALSE
    <3>1. j - n \in 1..Len(b) /\ n + (j - n) = j BY <1>1, <1>2, <2>1, <2>2
    <3> QED BY <1>4, <2>1, <3>1
  <2> QED BY <2>1, <2>2
<1>7. SelectLastInSeq(x, LAMBDA t : t # Nl) = IF A # {} THEN Max(A) ELSE 0 BY DEF SelectLastInSeq
<1> HIDE DEF A
<1>8. Max(A) = n BY <1>5, <1>6, GreatestIs
<1>9. SelectLastInSeq(x, LAMBDA t : t # Nl) = n BY <1>5, <1>7, <1>8
<1> QED BY <1>2, <1>9 DEF rstrip

LEMMA MiddlePart ==
  ASSUME NEW S, NEW a \in Seq(S), NEW b \in Seq(S), NEW c \in Seq(S),
         NEW d, d = a \o b, NEW x, x = d \o c
  PROVE  SubSeq(x, Len(a) + 1, Len(a) + Len(b)) = b
<1> DEFINE n == Len(a)
           m == Len(b)
           y == SubSeq(x, n + 1, n + m)
<1>1. n \in Nat /\ m \in Nat /\ Len(c) \in Nat OBVIOUS
<1>2. d \in Seq(S) /\ Len(d) = n + m /\ \A i \in 1..m : d[n + i] = b[i] BY Parts DEF Spliced
<1>4. x \in Seq(S) /\ Len(x) = Len(d) + Len(c) /\ \A i \in 1..Len(d) : x[i] = d[i]
  BY <1>2, Parts DEF Spliced
<1>5. \A i \in (n + 1)..(n + m) : x[i] \in S BY <1>1, <1>2, <1>4
<1>6. n + 1 \in Int /\ n + m \in Int BY <1>1
<1>7. /\ y \in Seq(S) /\ Len(y) = (IF n + 1 <= n + m THEN (n + m) - (n + 1) + 1 ELSE 0)
      /\ \A i \in 1..((n + m) - (n + 1) + 1) : y[i] = x[(n + 1) + i - 1]
  BY <1>5, <1>6, SubSeqProperties
<1> HIDE DEF y
<1>8. Len(y) = m BY <1>1, <1>7
<1>9. ASSUME NEW i \in 1..Len(y) PROVE y[i] = b[i]
  <2>1. i \in 1..m /\ i \in 1..((n + m) - (n + 1) + 1) /\ (n + 1) + i - 1 = n + i /\ n + i \in 1..Len(d)
    BY <1>1, <1>2, <1>8
  <2>2. y[i] = x[n + i] BY <1>7, <2>1
  <2> QED BY <1>2, <1>4, <2>1, <2>2
<1>10. y = b BY <1>7, <1>8, <1>9, SeqEqual
<1> QED BY <1>10 DEF y

LEMMA SingleToken ==
  ASSUME NEW S, NEW token \in S
  PROVE  /\ <<token>> \in Seq(S) /\ <<token>> # <<>> /\ Len(<<token>>) = 1 /\ <<token>>[1] = token
         /\ \A t : Contains(<<token>>, t) <=> t = token
BY DEF Contains

-----------------------------------------------------------------------------
(* What extract_file and assistant_content read. *)

(* The text x is one whole fence around the payload, with blank lines after. *)
Fenced(S, opener, payload, trail, x) ==
  /\ Nl \in S /\ Fence \in S
  /\ opener \in Seq(S) /\ payload \in Seq(S) /\ trail \in Seq(S)
  /\ is_fence_opener(opener) /\ ~Contains(opener, Nl)
  /\ \A i \in 1..Len(trail) : trail[i] = Nl
  /\ payload = <<>> \/ (Last(payload) = Nl /\ payload # <<Nl>>)
  /\ x = (((opener \o <<Nl>>) \o payload) \o <<Fence>>) \o trail

(* The fence is removed, and the payload is as it was. *)
LEMMA FenceUnwraps ==
  ASSUME NEW S, NEW opener, NEW payload, NEW trail, NEW x, Fenced(S, opener, payload, trail, x)
  PROVE  unwrap_fence(x) = payload
<1>a. /\ Nl \in S /\ Fence \in S
      /\ opener \in Seq(S) /\ payload \in Seq(S) /\ trail \in Seq(S)
      /\ is_fence_opener(opener) /\ ~Contains(opener, Nl)
      /\ \A i \in 1..Len(trail) : trail[i] = Nl
      /\ payload = <<>> \/ (Last(payload) = Nl /\ payload # <<Nl>>)
      /\ x = (((opener \o <<Nl>>) \o payload) \o <<Fence>>) \o trail
  BY DEF Fenced
<1> USE <1>a
<1> DEFINE h == opener \o <<Nl>>
           y == (h \o payload) \o <<Fence>>
           n == Len(opener)
           nl == <<Nl>>
           f == <<Fence>>
<1>1. <<Nl>> \in Seq(S) /\ <<Fence>> \in Seq(S) /\ Fence # Nl BY MarkupAssumption
<1>2. h \in Seq(S) /\ h \o payload \in Seq(S) BY <1>1, ConcatProperties
<1>3. y \in Seq(S) /\ y # <<>> /\ y[Len(y)] = Fence
  <2> DEFINE g == h \o payload
  <2> HIDE DEF g
  <2>1. g \in Seq(S) /\ y = g \o <<Fence>> BY <1>2 DEF g
  <2> HIDE DEF y
  <2>2. /\ y \in Seq(S) /\ Len(y) = Len(g) + Len(<<Fence>>)
        /\ \A i \in 1..Len(<<Fence>>) : y[Len(g) + i] = <<Fence>>[i]
    BY <1>1, <2>1, Parts DEF Spliced
  <2>3. Len(<<Fence>>) = 1 /\ <<Fence>>[1] = Fence /\ Len(g) \in Nat BY <2>1
  <2>4. Len(y) = Len(g) + 1 /\ y[Len(g) + 1] = Fence BY <2>2, <2>3
  <2> QED BY <2>2, <2>3, <2>4, EmptySeq
<1>4. rstrip(x) = y
  <2>1. x = y \o trail OBVIOUS
  <2> HIDE DEF y
  <2> QED BY <1>1, <1>3, <2>1, RStripBlank
<1>0. /\ nl \in Seq(S) /\ Len(nl) = 1 /\ nl[1] = Nl /\ nl = <<Nl>> /\ h = opener \o nl
      /\ f \in Seq(S) /\ f = <<Fence>> /\ ~Contains(f, Nl)
  BY <1>1, SingleToken
<1> HIDE DEF nl, f
<1>5. Contains(y, Nl) /\ First(y, Nl) = n + 1 /\ Before(y, Nl) = opener
  <2> DEFINE r == payload \o <<Fence>>
  <2>1. r \in Seq(S) BY <1>1, ConcatProperties
  <2>0. Triple(S, h, payload, <<Fence>>) BY <1>1, <1>2 DEF Triple
  <2>2. y = h \o r BY <2>0, Regrouped
  <2> HIDE DEF r, y, h
  <2>3. Cloven(S, opener, Nl, r, y) BY <1>0, <2>1, <2>2 DEF Cloven
  <2> QED BY <2>3, PartitionFirst
<1>6. n \in Nat OBVIOUS
<1>7. CASE payload = <<>>
  <2>1. y = h \o <<Fence>> BY <1>2, <1>7, ConcatEmptySeq
  <2> HIDE DEF y, h
  <2>3. Latest(y, Nl) = n + 1 /\ After(y, Latest(y, Nl)) = <<Fence>>
    <3>1. y = h \o f BY <1>0, <2>1
    <3>3. Cloven(S, opener, Nl, f, y) BY <1>0, <3>1 DEF Cloven
    <3>2. Latest(y, Nl) = n + 1 /\ After(y, Latest(y, Nl)) = f BY <1>0, <3>3, PartitionLatest
    <3> QED BY <1>0, <3>2
  <2>4. SubSeq(y, (n + 1) + 1, (n + 1) - 1) = <<>> BY <1>6, SubSeqEmpty
  <2> QED BY <1>4, <1>5, <1>7, <2>3, <2>4 DEF unwrap_fence
<1>8. CASE payload # <<>>
  <2>1. PICK g \in Seq(S), e \in S : payload = Append(g, e) BY <1>8, SequenceEmptyOrAppend
  <2>2. e = Nl /\ g # <<>> /\ payload = g \o <<Nl>>
    <3>1. Len(payload) = Len(g) + 1 /\ payload[Len(g) + 1] = e BY <2>1, AppendProperties
    <3>2. e = Nl BY <1>8, <3>1 DEF Last
    <3>3. payload = g \o <<Nl>> BY <2>1, <3>2, AppendIsConcat
    <3>4. g # <<>> BY <1>1, <1>8, <3>3, ConcatEmptySeq
    <3> QED BY <3>2, <3>3, <3>4
  <2> DEFINE q == h \o g
  <2>3. q \in Seq(S) /\ Len(q) = (n + 1) + Len(g)
    <3>1. Len(h) = n + 1 BY <1>1
    <3>2. q \in Seq(S) /\ Len(q) = Len(h) + Len(g) BY <1>2, ConcatProperties
    <3> QED BY <3>1, <3>2
  <2>4. h \o payload = q \o <<Nl>>
    <3>1. Triple(S, h, g, <<Nl>>) BY <1>1, <1>2 DEF Triple
    <3> QED BY <2>2, <3>1, Regrouped
  <2>5. y = (q \o <<Nl>>) \o <<Fence>> BY <2>4
  <2>7. Latest(y, Nl) = Len(q) + 1 /\ After(y, Latest(y, Nl)) = <<Fence>>
    <3> DEFINE k == q \o nl
    <3>1. k = q \o nl /\ y = k \o f BY <1>0, <2>5
    <3> HIDE DEF y, q, k
    <3>3. Cloven(S, q, Nl, f, y) BY <1>0, <2>3, <3>1 DEF Cloven
    <3>2. Latest(y, Nl) = Len(q) + 1 /\ After(y, Latest(y, Nl)) = f BY <1>0, <3>3, PartitionLatest
    <3> QED BY <1>0, <3>2
  <2>8. SubSeq(y, (n + 1) + 1, (n + 1) + Len(g)) = g
    <3>1. Len(h) = n + 1 BY <1>1
    <3>2. <<Nl>> \o <<Fence>> \in Seq(S) BY <1>1, ConcatProperties
    <3>3. y = q \o (<<Nl>> \o <<Fence>>)
      <4> HIDE DEF y, q
      <4>1. Triple(S, q, <<Nl>>, <<Fence>>) BY <1>1, <2>3 DEF Triple
      <4> QED BY <2>5, <4>1, Regrouped
    <3> DEFINE z == <<Nl>> \o <<Fence>>
    <3>4. q = h \o g /\ y = q \o z /\ z \in Seq(S) BY <3>2, <3>3
    <3> HIDE DEF y, q, h, z
    <3>5. SubSeq(y, Len(h) + 1, Len(h) + Len(g)) = g BY <1>2, <3>4, MiddlePart
    <3> QED BY <3>1, <3>5
  <2>9. (Len(q) + 1) - 1 = (n + 1) + Len(g) BY <1>6, <2>3
  <2>10. Append(g, Nl) = payload BY <2>1, <2>2
  <2> HIDE DEF y, q
  <2> QED BY <1>4, <1>5, <2>2, <2>7, <2>8, <2>9, <2>10 DEF unwrap_fence
<1> QED BY <1>7, <1>8

(* The text x has a header line after blank ones. *)
Headed(S, lead, path, rest, x) ==
  /\ Nl \in S /\ FilePrefix \in S
  /\ lead \in Seq(S) /\ path \in Seq(S) /\ rest \in Seq(S)
  /\ \A i \in 1..Len(lead) : lead[i] = Nl
  /\ path # <<>> /\ ~Contains(path, Nl) /\ ~Contains(path, Cr)
  /\ ~Contains(path, Surrogate) /\ ~Contains(unwrap_fence(removeprefix(rest)), Surrogate)
  /\ x = (((lead \o <<FilePrefix>>) \o path) \o <<Nl>>) \o rest

(* The path is read as it is spelled, and the rest of the text is the        *)
(* payload's.                                                                *)
LEMMA ExtractsFrame ==
  ASSUME NEW S, NEW lead, NEW path, NEW rest, NEW x, Headed(S, lead, path, rest, x)
  PROVE  /\ lstrip(x) # <<>> /\ Head(lstrip(x)) = FilePrefix
         /\ extract_file(x) = [path |-> path, payload |-> unwrap_fence(removeprefix(rest))]
<1>a. /\ Nl \in S /\ FilePrefix \in S
      /\ lead \in Seq(S) /\ path \in Seq(S) /\ rest \in Seq(S)
      /\ \A i \in 1..Len(lead) : lead[i] = Nl
      /\ path # <<>> /\ ~Contains(path, Nl) /\ ~Contains(path, Cr)
      /\ ~Contains(path, Surrogate) /\ ~Contains(unwrap_fence(removeprefix(rest)), Surrogate)
      /\ x = (((lead \o <<FilePrefix>>) \o path) \o <<Nl>>) \o rest
  BY DEF Headed
<1> USE <1>a
<1> DEFINE nl == <<Nl>>
           fp == <<FilePrefix>>
           h == fp \o path
           c == h \o nl
           r == c \o rest
<1>1. /\ nl \in Seq(S) /\ fp \in Seq(S) /\ Len(fp) = 1 /\ fp[1] = FilePrefix
      /\ \A t : Contains(fp, t) <=> t = FilePrefix
  BY SingleToken
<1>2. FilePrefix # Nl /\ FilePrefix # Cr BY MarkupAssumption
<1>3. x = (((lead \o fp) \o path) \o nl) \o rest OBVIOUS
<1>4. Cloven(S, h, Nl, rest, r) <=> h \in Seq(S) BY DEF Cloven
<1> HIDE DEF nl, fp
<1>5. Spliced(S, fp, path, h) BY <1>1, Parts
<1>6. h \in Seq(S) /\ Len(h) = 1 + Len(path) BY <1>1, <1>5 DEF Spliced
<1>7. h[1] = FilePrefix
  <2>1. 1 \in 1..Len(fp) BY <1>1
  <2> QED BY <1>1, <1>5, <2>1 DEF Spliced
<1>8. Len(path) \in Nat /\ Len(nl) \in Nat /\ Len(rest) \in Nat BY <1>1
<1>9. h # <<>> BY <1>6, <1>8
<1>10. Head(h) = FilePrefix BY <1>6, <1>7, <1>9
<1>11. Tail(h) = path
  <2>1. Tail(h) = SubSeq(h, 2, Len(h)) BY <1>6, <1>9, TailIsSubSeq
  <2>2. SubSeq(h, Len(fp) + 1, Len(h)) = path BY <1>5 DEF Spliced
  <2>3. Len(fp) + 1 = 2 BY <1>1
  <2> QED BY <2>1, <2>2, <2>3
<1>12. ~Contains(h, Nl) /\ ~Contains(h, Cr) BY <1>1, <1>2, ContainsParts
<1>13. x = lead \o r
  <2>1. (lead \o fp) \o path = lead \o h
    <3>1. Triple(S, lead, fp, path) BY <1>1 DEF Triple
    <3> QED BY <3>1, Regrouped
  <2> HIDE DEF h
  <2>2. (lead \o h) \o nl = lead \o c
    <3>1. Triple(S, lead, h, nl) BY <1>1, <1>6 DEF Triple
    <3> QED BY <3>1, Regrouped
  <2>3. c \in Seq(S) BY <1>1, <1>6, ConcatProperties
  <2> HIDE DEF c
  <2>4. (lead \o c) \o rest = lead \o r
    <3>1. Triple(S, lead, c, rest) BY <2>3 DEF Triple
    <3> QED BY <3>1, Regrouped
  <2> QED BY <1>3, <2>1, <2>2, <2>4
<1> HIDE DEF h
<1>14. Cloven(S, h, Nl, rest, r) BY <1>4, <1>6
<1> HIDE DEF c, r
<1>15. r \in Seq(S) /\ Len(r) = (Len(h) + 1) + Len(rest) /\ \A i \in 1..Len(h) : r[i] = h[i]
  BY <1>14, ClovenParts
<1>16. r # <<>> /\ r[1] = FilePrefix
  <2>1. 1 \in 1..Len(h) /\ Len(r) # 0 BY <1>6, <1>8, <1>15
  <2>2. r[1] = h[1] BY <1>15, <2>1
  <2> QED BY <1>7, <2>1, <2>2, EmptySeq
<1>17. lstrip(x) = r BY <1>2, <1>13, <1>15, <1>16, LStripBlank
<1>18. Head(r) = FilePrefix BY <1>15, <1>16
<1>19. /\ Contains(r, Nl) /\ Before(r, Nl) = h /\ After(r, First(r, Nl)) = rest
  BY <1>12, <1>14, PartitionFirst
<1>20. extract_file(x) = [path |-> path, payload |-> unwrap_fence(removeprefix(rest))]
  BY <1>10, <1>11, <1>12, <1>17, <1>19 DEF extract_file
<1> QED BY <1>16, <1>17, <1>18, <1>20

(* The last final message of a transcript, to its first terminator. *)
LEMMA ReadsFinal ==
  ASSUME NEW S, NEW a, NEW content \in Seq(S), NEW b, NEW x,
         Cloven(S, a, Final, b, x), b = content \o <<Return>>, Return \in S,
         x[1] \in {Analysis, Final}, \A t \in {Final, Return, End} : ~Contains(content, t)
  PROVE  assistant_content(x) = content
<1> DEFINE k == <<Return>>
<1>1. k \in Seq(S) /\ \A t : Contains(k, t) <=> t = Return BY SingleToken
<1>2. Final # Return /\ Nl \notin {Analysis, Final} BY MarkupAssumption
<1>3. b = content \o k /\ b \o <<>> = (content \o <<Return>>) \o <<>> OBVIOUS
<1>4. b \in Seq(S) BY DEF Cloven
<1>5. Cloven(S, content, Return, <<>>, b)
  <2>1. b \o <<>> = b BY <1>4, ConcatEmptySeq
  <2> QED BY <1>3, <2>1 DEF Cloven
<1> HIDE DEF k
<1>6. ~Contains(b, Final) BY <1>1, <1>2, <1>3, ContainsParts
<1>7. Contains(x, Final) /\ After(x, Latest(x, Final)) = b BY <1>6, PartitionLatest
<1>8. Before(b, Return) = content BY <1>5, PartitionFirst
<1>9. Before(content, End) = content BY BeforeNothing
<1>10. lstrip(x) = x /\ x # <<>> /\ Head(x) \in {Analysis, Final}
  <2>1. x \in Seq(S) BY ClovenParts
  <2>2. x # <<>> BY <1>7 DEF Contains
  <2>3. <<>> \o x = x /\ <<>> \in Seq(S) /\ \A i \in 1..Len(<<>>) : <<>>[i] = Nl
    BY <2>1, ConcatEmptySeq
  <2>4. lstrip(x) = x BY <1>2, <2>1, <2>2, <2>3, LStripBlank
  <2>5. Head(x) = x[1] BY <2>1, <2>2
  <2> QED BY <2>2, <2>4, <2>5
<1> QED BY <1>7, <1>8, <1>9, <1>10 DEF assistant_content

-----------------------------------------------------------------------------
(* What the framings carry. *)

(* Framings, taken apart. *)
LEMMA RepeatIs ==
  ASSUME NEW S, NEW token \in S, NEW n \in Nat
  PROVE  /\ Repeat(token, n) \in Seq(S) /\ Len(Repeat(token, n)) = n
         /\ \A i \in 1..n : Repeat(token, n)[i] = token
BY DEF Repeat

LEMMA MarkupIsToken ==
  /\ Nl \in Tokens /\ FilePrefix \in Tokens /\ Fence \in Tokens /\ Info \in Tokens
  /\ Analysis \in Tokens /\ Final \in Tokens /\ Return \in Tokens /\ End \in Tokens
BY DEF Tokens, Markup

Framing(f) ==
  /\ f.lead \in Nat /\ f.blank \in 0..1 /\ f.trail \in Nat
  /\ f.fence \in {"none", "bare", "info"}

Opener(f) == IF f.fence = "bare" THEN <<Fence>> ELSE <<Fence, Info>>

Wrapped(payload, f) ==
  IF f.fence = "none" THEN payload
  ELSE (((Opener(f) \o <<Nl>>) \o payload) \o <<Fence>>) \o Repeat(Nl, f.trail)

LEMMA OpenerFacts ==
  ASSUME NEW f
  PROVE  /\ Opener(f) \in Seq(Tokens) /\ is_fence_opener(Opener(f))
         /\ \A t : t \notin {Fence, Info} => ~Contains(Opener(f), t)
         /\ Opener(f)[1] = Fence /\ Len(Opener(f)) \in Nat \ {0}
<1>1. Fence \in Tokens /\ Info \in Tokens /\ Fence # Info BY MarkupIsToken, MarkupAssumption
<1>2. CASE f.fence = "bare" BY <1>1, <1>2 DEF Opener, is_fence_opener, Contains
<1>3. CASE f.fence # "bare" BY <1>1, <1>3 DEF Opener, is_fence_opener, Contains
<1> QED BY <1>2, <1>3

(* A wrapped payload has no token but its own and the fence's. *)
LEMMA WrappedFacts ==
  ASSUME NEW payload \in Seq(Tokens), NEW f, Framing(f)
  PROVE  /\ Wrapped(payload, f) \in Seq(Tokens)
         /\ \A t : t \notin {Fence, Info, Nl} /\ ~Contains(payload, t) => ~Contains(Wrapped(payload, f), t)
         /\ f.fence # "none" => Wrapped(payload, f) # <<>> /\ Wrapped(payload, f)[1] = Fence
<1>1. CASE f.fence = "none" BY <1>1 DEF Wrapped
<1>2. CASE f.fence # "none"
  <2> DEFINE o == Opener(f)
             nl == <<Nl>>
             fence == <<Fence>>
             trail == Repeat(Nl, f.trail)
             a == o \o nl
             b == a \o payload
             c == b \o fence
             d == c \o trail
  <2>1. /\ nl \in Seq(Tokens) /\ fence \in Seq(Tokens)
        /\ \A t : Contains(nl, t) <=> t = Nl
        /\ \A t : Contains(fence, t) <=> t = Fence
    BY MarkupIsToken, SingleToken
  <2>2. trail \in Seq(Tokens) /\ \A t : Contains(trail, t) => t = Nl
    BY MarkupIsToken, RepeatIs DEF Framing, Contains
  <2>3. o \in Seq(Tokens) /\ o[1] = Fence /\ Len(o) \in Nat \ {0}
        /\ \A t : t \notin {Fence, Info} => ~Contains(o, t)
    BY OpenerFacts
  <2>4. Wrapped(payload, f) = d BY <1>2 DEF Wrapped
  <2> HIDE DEF o, nl, fence, trail
  <2>5. Spliced(Tokens, o, nl, a) BY <2>1, <2>3, Parts
  <2>6. \A t : Contains(a, t) <=> Contains(o, t) \/ Contains(nl, t) BY <2>1, <2>3, ContainsParts
  <2> HIDE DEF a
  <2>7. a \in Seq(Tokens) /\ Len(a) = Len(o) + Len(nl) /\ \A i \in 1..Len(o) : a[i] = o[i]
    BY <2>5 DEF Spliced
  <2>8. Spliced(Tokens, a, payload, b) BY <2>7, Parts
  <2>9. \A t : Contains(b, t) <=> Contains(a, t) \/ Contains(payload, t) BY <2>7, ContainsParts
  <2> HIDE DEF b
  <2>10. b \in Seq(Tokens) /\ Len(b) = Len(a) + Len(payload) /\ \A i \in 1..Len(a) : b[i] = a[i]
    BY <2>8 DEF Spliced
  <2>11. Spliced(Tokens, b, fence, c) BY <2>1, <2>10, Parts
  <2>12. \A t : Contains(c, t) <=> Contains(b, t) \/ Contains(fence, t) BY <2>1, <2>10, ContainsParts
  <2> HIDE DEF c
  <2>13. c \in Seq(Tokens) /\ Len(c) = Len(b) + Len(fence) /\ \A i \in 1..Len(b) : c[i] = b[i]
    BY <2>11 DEF Spliced
  <2>14. Spliced(Tokens, c, trail, d) BY <2>2, <2>13, Parts
  <2>15. \A t : Contains(d, t) <=> Contains(c, t) \/ Contains(trail, t) BY <2>2, <2>13, ContainsParts
  <2> HIDE DEF d
  <2>16. d \in Seq(Tokens) /\ Len(d) = Len(c) + Len(trail) /\ \A i \in 1..Len(c) : d[i] = c[i]
    BY <2>14 DEF Spliced
  <2>17. /\ Len(o) \in Nat \ {0} /\ Len(nl) \in Nat /\ Len(payload) \in Nat /\ Len(fence) \in Nat
         /\ Len(trail) \in Nat
    BY <2>1, <2>2, <2>3
  <2>18. 1 \in 1..Len(o) /\ 1 \in 1..Len(a) /\ 1 \in 1..Len(b) /\ 1 \in 1..Len(c) /\ Len(d) # 0
    BY <2>7, <2>10, <2>13, <2>16, <2>17
  <2>19. d[1] = Fence BY <2>3, <2>7, <2>10, <2>13, <2>16, <2>18
  <2>20. d # <<>> BY <2>16, <2>18, EmptySeq
  <2>21. \A t : t \notin {Fence, Info, Nl} /\ ~Contains(payload, t) => ~Contains(d, t)
    BY <2>1, <2>2, <2>3, <2>6, <2>9, <2>12, <2>15
  <2> QED BY <2>4, <2>16, <2>19, <2>20, <2>21
<1> QED BY <1>1, <1>2

(* One blank line and a fence, or neither, come off again. *)
LEMMA PayloadIsRead ==
  ASSUME NEW payload \in Seq(Tokens), NEW f, Framing(f), Carries(f, payload)
  PROVE  unwrap_fence(removeprefix(Repeat(Nl, f.blank) \o Wrapped(payload, f))) = payload
<1> DEFINE w == Wrapped(payload, f)
           b == Repeat(Nl, f.blank)
           x == b \o w
<1>1. w \in Seq(Tokens) BY WrappedFacts
<1>2. f.blank \in {0, 1} /\ Nl \in Tokens BY MarkupIsToken DEF Framing
<1>3. unwrap_fence(w) = payload
  <2>1. CASE f.fence = "none" BY <2>1 DEF Wrapped, Carries
  <2>2. CASE f.fence # "none"
    <3> DEFINE o == Opener(f)
               trail == Repeat(Nl, f.trail)
    <3>1. o \in Seq(Tokens) /\ is_fence_opener(o) /\ ~Contains(o, Nl)
      BY OpenerFacts, MarkupAssumption
    <3>2. trail \in Seq(Tokens) /\ \A i \in 1..Len(trail) : trail[i] = Nl
      BY MarkupIsToken, RepeatIs DEF Framing
    <3>3. w = (((o \o <<Nl>>) \o payload) \o <<Fence>>) \o trail BY <2>2 DEF Wrapped
    <3>4. payload = <<>> \/ (Last(payload) = Nl /\ payload # <<Nl>>) BY <2>2 DEF Carries
    <3> HIDE DEF o, trail, w
    <3>5. Fenced(Tokens, o, payload, trail, w) BY <3>1, <3>2, <3>3, <3>4, MarkupIsToken DEF Fenced
    <3> QED BY <3>5, FenceUnwraps
  <2> QED BY <2>1, <2>2
<1>4. removeprefix(x) = w
  <2>1. CASE f.blank = 0
    <3>1. b = <<>> BY <2>1 DEF Repeat
    <3>2. x = w BY <1>1, <3>1, ConcatEmptySeq
    <3>3. w = <<>> \/ Head(w) # Nl
      <4>1. CASE f.fence = "none" BY <2>1, <4>1 DEF Wrapped, Carries
      <4>2. CASE f.fence # "none"
        <5>1. w # <<>> /\ w[1] = Fence BY <4>2, WrappedFacts
        <5> HIDE DEF w
        <5>2. Head(w) = Fence BY <1>1, <5>1
        <5> QED BY <5>2, MarkupAssumption
      <4> QED BY <4>1, <4>2
    <3> QED BY <3>2, <3>3 DEF removeprefix
  <2>2. CASE f.blank = 1
    <3>1. b = <<Nl>> BY <2>2 DEF Repeat
    <3> HIDE DEF w, b
    <3>2. b \in Seq(Tokens) /\ Len(b) = 1 /\ b[1] = Nl BY <1>2, <3>1
    <3>3. Spliced(Tokens, b, w, x) BY <1>1, <3>2, Parts
    <3> HIDE DEF x
    <3>4. x \in Seq(Tokens) /\ Len(x) = 1 + Len(w) /\ Len(w) \in Nat BY <1>1, <3>2, <3>3 DEF Spliced
    <3>5. x[1] = Nl
      <4>1. 1 \in 1..Len(b) BY <3>2
      <4> QED BY <3>2, <3>3, <4>1 DEF Spliced
    <3>6. x # <<>> BY <3>4
    <3>7. Head(x) = Nl BY <3>4, <3>5, <3>6
    <3>8. Tail(x) = w
      <4>1. Tail(x) = SubSeq(x, 2, Len(x)) BY <3>4, <3>6, TailIsSubSeq
      <4>2. SubSeq(x, Len(b) + 1, Len(x)) = w BY <3>3 DEF Spliced
      <4>3. Len(b) + 1 = 2 BY <3>2
      <4> QED BY <4>1, <4>2, <4>3
    <3> QED BY <3>6, <3>7, <3>8 DEF removeprefix
  <2> QED BY <1>2, <2>1, <2>2
<1> QED BY <1>3, <1>4

(* A framed text, from its header on, and the tokens it may contain. *)
LEMMA FramedFacts ==
  ASSUME NEW path \in Seq(Tokens), NEW payload \in Seq(Tokens), NEW f, Framing(f), ~f.crlf
  PROVE  /\ Framed(path, payload, f) \in Seq(Tokens)
         /\ Framed(path, payload, f) =
              (((Repeat(Nl, f.lead) \o <<FilePrefix>>) \o path) \o <<Nl>>)
                \o (Repeat(Nl, f.blank) \o Wrapped(payload, f))
         /\ \A t : /\ t \notin {Nl, FilePrefix, Fence, Info}
                   /\ ~Contains(path, t) /\ ~Contains(payload, t)
                   => ~Contains(Framed(path, payload, f), t)
<1> DEFINE lead == Repeat(Nl, f.lead)
           fp == <<FilePrefix>>
           nl == <<Nl>>
           blank == Repeat(Nl, f.blank)
           w == Wrapped(payload, f)
           a == lead \o fp
           b == a \o path
           c == b \o nl
           d == c \o blank
           e == d \o w
<1>1. e = Framed(path, payload, f)
  <2>1. CASE f.fence = "none" BY <2>1 DEF Framed, Wrapped
  <2>2. CASE f.fence = "bare"
    <3>1. <<Fence, Nl>> = <<Fence>> \o <<Nl>> OBVIOUS
    <3>2. w = ((<<Fence, Nl>> \o payload) \o <<Fence>>) \o Repeat(Nl, f.trail)
      BY <2>2, <3>1 DEF Wrapped, Opener
    <3> HIDE DEF w
    <3> QED BY <2>2, <3>2 DEF Framed
  <2>3. CASE f.fence = "info"
    <3>1. <<Fence, Info, Nl>> = <<Fence, Info>> \o <<Nl>> OBVIOUS
    <3>2. w = ((<<Fence, Info, Nl>> \o payload) \o <<Fence>>) \o Repeat(Nl, f.trail)
      BY <2>3, <3>1 DEF Wrapped, Opener
    <3> HIDE DEF w
    <3> QED BY <2>3, <3>2 DEF Framed
  <2> QED BY <2>1, <2>2, <2>3 DEF Framing
<1>2. /\ fp \in Seq(Tokens) /\ nl \in Seq(Tokens)
      /\ \A t : Contains(fp, t) <=> t = FilePrefix
      /\ \A t : Contains(nl, t) <=> t = Nl
  BY MarkupIsToken, SingleToken
<1>3. lead \in Seq(Tokens) /\ \A t : Contains(lead, t) => t = Nl
  <2>1. f.lead \in Nat BY DEF Framing
  <2> QED BY <2>1, MarkupIsToken, RepeatIs DEF Contains
<1>4. blank \in Seq(Tokens) /\ \A t : Contains(blank, t) => t = Nl
  <2>1. f.blank \in Nat BY DEF Framing
  <2> QED BY <2>1, MarkupIsToken, RepeatIs DEF Contains
<1>5. w \in Seq(Tokens)
      /\ \A t : t \notin {Fence, Info, Nl} /\ ~Contains(payload, t) => ~Contains(w, t)
  BY WrappedFacts
<1>6. fp = <<FilePrefix>> /\ nl = <<Nl>> OBVIOUS
<1> HIDE DEF lead, fp, nl, blank, w
<1>7. a \in Seq(Tokens) /\ \A t : Contains(a, t) <=> Contains(lead, t) \/ Contains(fp, t)
  BY <1>2, <1>3, ConcatProperties, ContainsParts
<1> HIDE DEF a
<1>8. b \in Seq(Tokens) /\ \A t : Contains(b, t) <=> Contains(a, t) \/ Contains(path, t)
  BY <1>7, ConcatProperties, ContainsParts
<1> HIDE DEF b
<1>9. c \in Seq(Tokens) /\ \A t : Contains(c, t) <=> Contains(b, t) \/ Contains(nl, t)
  BY <1>2, <1>8, ConcatProperties, ContainsParts
<1> HIDE DEF c
<1>10. d \in Seq(Tokens) /\ \A t : Contains(d, t) <=> Contains(c, t) \/ Contains(blank, t)
  BY <1>4, <1>9, ConcatProperties, ContainsParts
<1>11. e = c \o (blank \o w)
  <2>1. Triple(Tokens, c, blank, w) BY <1>4, <1>5, <1>9 DEF Triple
  <2> QED BY <2>1, Regrouped
<1> HIDE DEF d
<1>12. e \in Seq(Tokens) /\ \A t : Contains(e, t) <=> Contains(d, t) \/ Contains(w, t)
  BY <1>5, <1>10, ConcatProperties, ContainsParts
<1> HIDE DEF e
<1>13. \A t : t \notin {Nl, FilePrefix, Fence, Info} /\ ~Contains(path, t) /\ ~Contains(payload, t)
              => ~Contains(e, t)
  BY <1>2, <1>3, <1>4, <1>5, <1>7, <1>8, <1>9, <1>10, <1>12
<1> QED BY <1>1, <1>6, <1>11, <1>12, <1>13 DEF a, b, c, lead, blank, w

(* What the model meant is what is read: the parser undoes every framing     *)
(* that can carry the text, a leaked or revised transcript around it         *)
(* included (assistant_content, extract_file, _unwrap_fence).                *)
THEOREM ReadAsMeant ==
  ASSUME NEW path \in Seq(Tokens), path # <<>>,
         \A t \in {Nl, Cr, Final, Return, End, Surrogate} : ~Contains(path, t),
         NEW payload \in Seq(Tokens), NEW f, Framing(f),
         f.channel \in {"none", "final", "revised", "unfinished"}, Carries(f, payload)
  PROVE  extract_file(assistant_content(Sent(path, payload, f))) = [path |-> path, payload |-> payload]
<1> DEFINE content == Framed(path, payload, f)
<1>1. ~f.crlf /\ f.channel # "unfinished" BY DEF Carries
<1>2. content \in Seq(Tokens) BY <1>1, FramedFacts
<1>3. /\ lstrip(content) # <<>> /\ Head(lstrip(content)) = FilePrefix
      /\ extract_file(content) = [path |-> path, payload |-> payload]
  <2> DEFINE lead == Repeat(Nl, f.lead)
             rest == Repeat(Nl, f.blank) \o Wrapped(payload, f)
  <2>1. content = (((lead \o <<FilePrefix>>) \o path) \o <<Nl>>) \o rest BY <1>1, FramedFacts
  <2>2. lead \in Seq(Tokens) /\ \A i \in 1..Len(lead) : lead[i] = Nl
    <3>1. f.lead \in Nat BY DEF Framing
    <3>2. Nl \in Tokens BY MarkupIsToken
    <3> QED BY <3>1, <3>2, RepeatIs
  <2>3. rest \in Seq(Tokens)
    <3>1. f.blank \in Nat BY DEF Framing
    <3>2. Repeat(Nl, f.blank) \in Seq(Tokens) BY <3>1, MarkupIsToken, RepeatIs
    <3> QED BY <3>2, WrappedFacts, ConcatProperties
  <2>4. unwrap_fence(removeprefix(rest)) = payload BY PayloadIsRead
  <2>6. ~Contains(payload, Surrogate) BY DEF Carries
  <2> HIDE DEF lead, rest, content
  <2>5. Headed(Tokens, lead, path, rest, content)
    BY <2>1, <2>2, <2>3, <2>4, <2>6, MarkupIsToken DEF Headed
  <2> QED BY <2>4, <2>5, ExtractsFrame
<1>4. FilePrefix \notin {Analysis, Final} BY MarkupAssumption
<1>5. CASE f.channel = "none"
  <2>1. Sent(path, payload, f) = content BY <1>5 DEF Sent
  <2> HIDE DEF content
  <2>2. assistant_content(content) = content BY <1>3, <1>4 DEF assistant_content
  <2> QED BY <1>3, <2>1, <2>2
<1>6. ASSUME f.channel # "none" PROVE \A t \in {Final, Return, End} : ~Contains(content, t)
  <2>1. \A t \in {Final, Return, End} : ~Contains(payload, t) BY <1>6 DEF Carries
  <2>2. \A t \in {Final, Return, End} : t \notin {Nl, FilePrefix, Fence, Info} BY MarkupAssumption
  <2> QED BY <1>1, <2>1, <2>2, FramedFacts
<1> DEFINE k == <<Return>>
           b == content \o k
<1>7. b = content \o <<Return>> /\ b \in Seq(Tokens) /\ Return \in Tokens /\ k \in Seq(Tokens)
  <2>1. Return \in Tokens /\ k \in Seq(Tokens) BY MarkupIsToken
  <2> HIDE DEF content
  <2> QED BY <1>2, <2>1, ConcatProperties
<1>8. ASSUME f.channel # "none", NEW a \in Seq(Tokens), NEW x, x = (a \o <<Final>>) \o b, x[1] \in {Analysis, Final},
             x = Sent(path, payload, f)
      PROVE  extract_file(assistant_content(Sent(path, payload, f))) = [path |-> path, payload |-> payload]
  <2>1. \A t \in {Final, Return, End} : ~Contains(content, t) BY <1>6, <1>8
  <2> HIDE DEF content, k, b
  <2>2. Cloven(Tokens, a, Final, b, x) BY <1>7, <1>8, MarkupIsToken DEF Cloven
  <2>3. assistant_content(x) = content BY <1>2, <1>7, <1>8, <2>1, <2>2, ReadsFinal
  <2> QED BY <1>3, <1>8, <2>3
<1>9. CASE f.channel = "final"
  <2> DEFINE g == <<Analysis, End>>
             m == <<Analysis, End, Final>>
             x == (m \o content) \o k
  <2>1. x = Sent(path, payload, f) BY <1>9 DEF Sent
  <2>2. m \in Seq(Tokens) /\ g \in Seq(Tokens) /\ m = g \o <<Final>> /\ m[1] = Analysis /\ Len(m) = 3
    BY MarkupIsToken
  <2> HIDE DEF content, k, m, g
  <2>3. x = m \o b
    <3>1. m \in Seq(Tokens) /\ content \in Seq(Tokens) /\ k \in Seq(Tokens) BY <1>2, <1>7, <2>2
    <3>2. Triple(Tokens, m, content, k) BY <3>1 DEF Triple
    <3> QED BY <3>2, Regrouped
  <2> HIDE DEF b, x
  <2>4. x[1] = Analysis
    <3>1. Spliced(Tokens, m, b, x) BY <1>7, <2>2, <2>3, Parts
    <3>2. 1 \in 1..Len(m) BY <2>2
    <3> QED BY <2>2, <3>1, <3>2 DEF Spliced
  <2> QED BY <1>8, <1>9, <2>1, <2>2, <2>3, <2>4
<1>10. CASE f.channel = "revised"
  <2> DEFINE old == Framed(path, <<Info>>, f)
             s == <<Final>>
             p == s \o old
             m == <<End, Final>>
             q == p \o m
             g == p \o <<End>>
             x == (q \o content) \o k
  <2>1. x = Sent(path, payload, f) BY <1>10 DEF Sent
  <2>2. old \in Seq(Tokens)
    <3>1. <<Info>> \in Seq(Tokens) BY MarkupIsToken
    <3> QED BY <1>1, <3>1, FramedFacts
  <2>3. /\ s \in Seq(Tokens) /\ s[1] = Final /\ Len(s) = 1
        /\ m \in Seq(Tokens) /\ m = <<End>> \o <<Final>> /\ <<End>> \in Seq(Tokens) /\ <<Final>> \in Seq(Tokens)
    BY MarkupIsToken
  <2> HIDE DEF old, s, m, content, k
  <2>4. Spliced(Tokens, s, old, p) BY <2>2, <2>3, Parts
  <2> HIDE DEF p
  <2>5. p \in Seq(Tokens) /\ Len(p) = Len(s) + Len(old) /\ \A i \in 1..Len(s) : p[i] = s[i]
    BY <2>4 DEF Spliced
  <2>6. Spliced(Tokens, p, m, q) BY <2>3, <2>5, Parts
  <2>7. q = g \o <<Final>> /\ g \in Seq(Tokens)
    <3>1. Triple(Tokens, p, <<End>>, <<Final>>) BY <2>3, <2>5 DEF Triple
    <3> QED BY <2>3, <2>5, <3>1, Regrouped, ConcatProperties
  <2> HIDE DEF q, g
  <2>8. q \in Seq(Tokens) /\ Len(q) = Len(p) + Len(m) /\ \A i \in 1..Len(p) : q[i] = p[i]
    BY <2>6 DEF Spliced
  <2>9. x = q \o b
    <3>1. q \in Seq(Tokens) /\ content \in Seq(Tokens) /\ k \in Seq(Tokens) BY <1>2, <1>7, <2>8
    <3>2. Triple(Tokens, q, content, k) BY <3>1 DEF Triple
    <3> QED BY <3>2, Regrouped
  <2> HIDE DEF b, x
  <2>10. x[1] = Final
    <3>1. Spliced(Tokens, q, b, x) BY <1>7, <2>8, <2>9, Parts
    <3>2. Len(old) \in Nat /\ Len(m) \in Nat BY <2>2, <2>3
    <3>3. 1 \in 1..Len(s) /\ 1 \in 1..Len(p) /\ 1 \in 1..Len(q) BY <2>3, <2>5, <2>8, <3>2
    <3>4. x[1] = q[1] BY <3>1, <3>3 DEF Spliced
    <3> QED BY <2>3, <2>5, <2>8, <3>3, <3>4
  <2> QED BY <1>8, <1>10, <2>1, <2>7, <2>9, <2>10
<1> QED BY <1>1, <1>5, <1>9, <1>10

-----------------------------------------------------------------------------
(* From the reply to the file. *)

(* What impl_path leads to is the permitted target, once a file is there. *)
LEMMA StaysPermitted ==
  ASSUME Shapely, NEW tree, Real(tree, Way) # Nowhere,
         NEW named \in Seq(Names), named = Append(Real(tree, Way), Last(impl)),
         IsPrefix(Root, named), named \in DOMAIN tree, tree[named].kind # "link"
  PROVE  resolve_within(tree, impl) = named
<1> DEFINE raw == Root \o impl
           N == Len(raw)
           home == Real(tree, Way)
<1>1. Front(raw) = Way /\ Last(raw) = Last(impl) /\ raw \in Seq(Names) /\ raw # <<>>
      /\ parts(impl) = impl /\ Last(impl) # Up
  BY WayFacts
<1>2. impl # <<>> /\ ~is_absolute(impl) BY DEF Shapely, require_nested_relative_file, parts
<1>3. named # Nowhere BY PathAssumption
<1> HIDE DEF raw, home
<1>4. Real(tree, raw) = Step(tree, home, Last(impl))
  <2>1. N \in 1..N BY <1>1
  <2>2. Real(tree, raw) = To(tree, raw, N) /\ To(tree, raw, N) = Step(tree, To(tree, raw, N - 1), raw[N])
    BY <1>1, <2>1, RealStep
  <2>3. To(tree, raw, N - 1) = home BY <1>1 DEF To, home, Front
  <2>4. raw[N] = Last(impl) BY <1>1 DEF Last
  <2> QED BY <2>2, <2>3, <2>4
<1>5. home # Nowhere /\ named = Append(home, Last(impl)) BY DEF home
<1>6. Real(tree, raw) \in {Nowhere, named} BY <1>1, <1>4, <1>5 DEF Step, Enter
<1>7. ~is_symlink(tree, raw) BY <1>1, <1>5 DEF is_symlink, home
<1>8. Real(tree, Front(raw)) = home BY <1>1 DEF home
<1>9. resolve_within(tree, impl) =
        (LET target == IF Real(tree, raw) # Nowhere THEN Real(tree, raw)
                       ELSE IF home = Nowhere THEN Nowhere ELSE Append(home, Last(impl))
         IN  IF target = Nowhere \/ ~IsPrefix(Root, target) THEN Nowhere ELSE target)
  BY <1>1, <1>2, <1>7, <1>8 DEF resolve_within, raw
<1> QED BY <1>3, <1>5, <1>6, <1>9

(* A reply in hand is one of those the model may send, as it was read. *)
Heard ==
  /\ impl \in ImplPaths
  /\ pc \in {"apply", "written", "refused"} =>
       \E r \in Replies :
         reply = [meant |-> r,
                  file |-> extract_file(assistant_content(Sent(r.path, r.payload, r.framing)))]

(* The parser returns the path and the text the model meant. *)
LEMMA MeantIsRead ==
  ASSUME Kept, Heard, pc = "apply", reply.meant.path = impl,
         Carries(reply.meant.framing, reply.meant.payload)
  PROVE  reply.file = [path |-> impl, payload |-> reply.meant.payload] /\ reply.file # NoReply
<1>1. PICK r \in Replies :
        reply = [meant |-> r,
                 file |-> extract_file(assistant_content(Sent(r.path, r.payload, r.framing)))]
  BY DEF Heard
<1> DEFINE f == r.framing
           payload == r.payload
<1>2. /\ reply.meant = r /\ impl = r.path
      /\ reply.file = extract_file(assistant_content(Sent(impl, payload, f)))
  BY <1>1
<1>3. payload \in Seq(Tokens) /\ Framing(f) /\ f.channel \in {"none", "final", "revised", "unfinished"}
  BY ReplyAssumption DEF Framing
<1>4. Carries(f, payload) BY <1>2
<1>5. impl \in Seq(Tokens) /\ impl # <<>>
  <2>1. impl \in Seq(Names) /\ impl # <<>>
    BY DEF Kept, Running, Shapely, require_nested_relative_file, parts
  <2>2. Names \subseteq Tokens BY DEF Tokens
  <2> HIDE DEF f, payload
  <2> QED BY <2>1, <2>2
<1>6. \A t \in {Nl, Cr, Final, Return, End, Surrogate} : ~Contains(impl, t)
  BY ReplyAssumption DEF Heard
<1> HIDE DEF f, payload
<1>7. reply.file = [path |-> impl, payload |-> payload]
  BY <1>2, <1>3, <1>4, <1>5, <1>6, ReadAsMeant
<1>8. reply.file \in [path : Seq(Tokens), payload : Seq(Tokens)] BY <1>3, <1>5, <1>7
<1>9. reply.file # NoReply BY <1>8, ReplyAssumption
<1> QED BY <1>2, <1>7, <1>9 DEF payload

(* A carried reply is refused only where impl_path itself is. *)
LEMMA RefuseMeans ==
  ASSUME Kept, Heard, Refuse
  PROVE  WrittenAsMeant'
<1>1. /\ pc = "apply" /\ aim = Nowhere /\ pc' = "refused"
      /\ UNCHANGED <<impl, fs, reply>>
  BY DEF Refuse
<1> SUFFICES ASSUME reply.meant.path = impl, Carries(reply.meant.framing, reply.meant.payload)
             PROVE  resolve_within(fs, impl) = Nowhere
  BY <1>1 DEF WrittenAsMeant
<1>2. reply.file.path = impl /\ reply.file # NoReply BY <1>1, MeantIsRead
<1> QED BY <1>1, <1>2 DEF aim, writable_target

(* What is written is what was meant, and the target stays permitted. *)
LEMMA ApplyMeans ==
  ASSUME Kept, Heard, Apply
  PROVE  WrittenAsMeant'
<1>1. pc = "apply" /\ UNCHANGED <<impl, reply>> BY DEF Apply
<1>2. pc' \in {"raised", "written"} BY DEF Apply
<1> SUFFICES ASSUME pc' = "written", reply.meant.path = impl,
                    Carries(reply.meant.framing, reply.meant.payload)
             PROVE  resolve_within(fs', impl) # Nowhere /\ fs'[Named'] = File(reply.meant.payload)
  BY <1>1, <1>2 DEF WrittenAsMeant
<1>3. reply.file.payload = reply.meant.payload BY <1>1, MeantIsRead
<1>4. /\ fs'[Named] = File(reply.file.payload)
      /\ Home # Nowhere /\ IsPrefix(Root, Named) /\ Home' = Home /\ Named' = Named
      /\ Named \in DOMAIN fs => fs[Named].kind = "file"
      /\ DOMAIN fs' = DOMAIN fs \cup {Named} /\ fs'[Named].kind = "file"
  BY ApplyFacts
<1>5. fs'[Named] = File(reply.file.payload) BY <1>4
<1>6. Shapely /\ WellFormed(fs) BY <1>1 DEF Kept, Running
<1>7. Named \in Seq(Names) /\ Named = Append(Home, Last(impl)) /\ Named # Nowhere
  BY <1>4, <1>6, HomeFacts, PathAssumption
<1>8. Real(fs', Way) = Home BY <1>1, <1>4 DEF Home, Way
<1>9. resolve_within(fs', impl) = Named
  BY <1>4, <1>6, <1>7, <1>8, StaysPermitted
<1> QED BY <1>3, <1>4, <1>5, <1>7, <1>9

(* No step changes a reply in hand. *)
LEMMA StepHeard == ASSUME Heard, [Next]_vars PROVE Heard'
<1>1. CASE RefuseShape \/ MkdirRaises \/ RefuseEscape \/ OracleRaises \/ Begin
  BY <1>1 DEF RefuseShape, MkdirRaises, RefuseEscape, OracleRaises, Begin, Heard
<1>2. CASE Generate BY <1>2 DEF Generate, Heard
<1>3. CASE Refuse \/ LookupRaises \/ Apply BY <1>3 DEF Refuse, LookupRaises, Apply, Heard
<1>4. CASE Record \/ AskAgain \/ Finish BY <1>4 DEF Record, AskAgain, Finish, Heard
<1>5. CASE UNCHANGED vars BY <1>5 DEF vars, Heard
<1> QED BY <1>1, <1>2, <1>3, <1>4, <1>5 DEF Next, Ended

LEMMA StepMeans ==
  ASSUME Kept, Heard, WrittenAsMeant, [Next]_vars
  PROVE  WrittenAsMeant'
<1>1. CASE RefuseShape \/ MkdirRaises \/ RefuseEscape \/ OracleRaises \/ Begin
  BY <1>1 DEF RefuseShape, MkdirRaises, RefuseEscape, OracleRaises, Begin, WrittenAsMeant
<1>2. CASE Generate \/ LookupRaises \/ Record \/ AskAgain \/ Finish
  BY <1>2 DEF Generate, LookupRaises, Record, AskAgain, Finish, WrittenAsMeant
<1>3. CASE Refuse BY <1>3, RefuseMeans
<1>4. CASE Apply BY <1>4, ApplyMeans
<1>5. CASE UNCHANGED vars
  <2>1. UNCHANGED <<impl, fs, reply, pc>> BY <1>5 DEF vars
  <2>2. Named' = Named BY <2>1 DEF Named
  <2> QED BY <2>1, <2>2 DEF WrittenAsMeant
<1> QED BY <1>1, <1>2, <1>3, <1>4, <1>5 DEF Next, Ended

-----------------------------------------------------------------------------
(* The theorems. *)

WorktreeInv == Kept /\ Taken /\ RestoreIsExact

LEMMA InitKept == Init => WorktreeInv
<1> SUFFICES ASSUME Init PROVE WorktreeInv OBVIOUS
<1>1. impl \in Seq(Names) /\ WellFormed(fs) /\ before = fs /\ subtree = Nowhere /\ entries = <<>>
      /\ pc = "begin"
  BY TreeAssumption, PathAssumption DEF Init
<1>2. Kept BY <1>1 DEF Kept, Running, Same, FilesOf
<1>3. Taken BY <1>1 DEF Taken
<1>4. RestoreIsExact BY <1>1 DEF RestoreIsExact
<1> QED BY <1>2, <1>3, <1>4 DEF WorktreeInv

LEMMA StepKept == WorktreeInv /\ [Next]_vars => WorktreeInv'
<1> SUFFICES ASSUME WorktreeInv, [Next]_vars PROVE WorktreeInv' OBVIOUS
<1>1. Kept /\ Taken /\ RestoreIsExact BY DEF WorktreeInv
<1>2. CASE RefuseShape \/ MkdirRaises \/ RefuseEscape \/ OracleRaises \/ Begin
  <2>1. pc = "begin" /\ pc' # "returned" /\ pc' # "written" /\ entries' = entries
    BY <1>2 DEF RefuseShape, MkdirRaises, RefuseEscape, OracleRaises, Begin
  <2>2. entries = <<>> BY <1>1, <2>1 DEF Kept
  <2>3. Kept' BY <1>1, <1>2, <2>1, BeginKeeps
  <2>4. Taken' BY <2>1, <2>2 DEF Taken
  <2>5. RestoreIsExact' BY <2>1 DEF RestoreIsExact
  <2> QED BY <2>3, <2>4, <2>5 DEF WorktreeInv
<1>3. CASE Generate \/ Refuse \/ AskAgain
  <2>1. pc' # "returned" BY <1>3 DEF Generate, Refuse, AskAgain
  <2>2. RestoreIsExact' BY <2>1 DEF RestoreIsExact
  <2> QED BY <1>1, <1>3, <2>2, TalkKeeps, TalkTakes DEF WorktreeInv
<1>4. CASE Record
  <2>1. RestoreIsExact' BY <1>4 DEF Record, RestoreIsExact
  <2> QED BY <1>1, <1>4, <2>1, TalkKeeps, RecordTakes DEF WorktreeInv
<1>5. CASE Apply
  <2>1. RestoreIsExact' BY <1>5 DEF Apply, RestoreIsExact
  <2> QED BY <1>1, <1>5, <2>1, ApplyKeeps, ApplyTakes DEF WorktreeInv
<1>6. CASE Finish BY <1>1, <1>6, FinishKeeps DEF WorktreeInv
<1>8. CASE LookupRaises
  <2>1. /\ UNCHANGED <<impl, fs, before, subtree, entries>>
        /\ pc = "apply" /\ pc' = "raised"
    BY <1>8 DEF LookupRaises
  <2>2. Home' = Home /\ Named' = Named /\ OracleFile' = OracleFile
    BY <2>1, NothingMoves DEF OracleFile
  <2>3. Kept' BY <1>1, <2>1, <2>2 DEF Kept, Running, Same, FilesOf
  <2>4. Range(entries)' = Range(entries) BY <2>1 DEF Range
  <2>5. Taken' BY <1>1, <2>1, <2>4 DEF Taken, Running
  <2>6. RestoreIsExact' BY <2>1 DEF RestoreIsExact
  <2> QED BY <2>3, <2>5, <2>6 DEF WorktreeInv
<1>7. CASE UNCHANGED vars
  <2>1. UNCHANGED <<impl, fs, before, subtree, entries, pc>> BY <1>7 DEF vars
  <2>2. /\ Home' = Home /\ Named' = Named /\ FilesIn(fs)' = FilesIn(fs)
        /\ \A p : Spot(fs, p)' = Spot(fs, p)
    BY <2>1, NothingMoves
  <2>8. OracleFile' = OracleFile BY <2>1 DEF OracleFile
  <2>3. Kept'
    <3>1. Shapely' = Shapely /\ WellFormed(fs)' = WellFormed(fs) BY <2>1 DEF Shapely, WellFormed
    <3> QED BY <1>1, <2>1, <2>2, <2>8, <3>1 DEF Kept, Same, FilesOf
  <2>4. ASSUME NEW i \in DOMAIN entries', pc \in Running PROVE Faithful(entries[i].files)'
    <3> DEFINE g == entries[i].files
    <3>1. Faithful(g) /\ g' = g BY <1>1, <2>1, <2>4 DEF Taken
    <3> HIDE DEF g
    <3>2. Faithful(g)' BY <2>1, <2>2, <3>1 DEF Faithful
    <3> QED BY <3>2 DEF g
  <2>5. Range(entries)' = Range(entries) BY <2>1 DEF Range
  <2>6. Taken' BY <1>1, <2>1, <2>2, <2>4, <2>5 DEF Taken
  <2>7. RestoreIsExact'
    <3>1. best' = best /\ Captured(fs)' = Captured(fs) BY <2>1 DEF best, Captured, Under
    <3> QED BY <1>1, <2>1, <3>1 DEF RestoreIsExact
  <2> QED BY <2>3, <2>6, <2>7 DEF WorktreeInv
<1> QED BY <1>2, <1>3, <1>4, <1>5, <1>6, <1>7, <1>8 DEF Next, Ended

(* Until the run ends the tree stays well formed, every capture is faithful  *)
(* to it and impl_path leads to one and the same file (snapshot.py).         *)
THEOREM WorktreeInductive == Spec => []WorktreeInv
BY InitKept, StepKept, PTL DEF Spec

(* No task, no reply and no restore creates, changes or removes a file other *)
(* than the implementation and the file the oracle test is written to, in    *)
(* any tree with any links, one of the oracle's own name included; and       *)
(* unless such links make them one file, the oracle test stays the task's    *)
(* (resolve_within, apply_file, restore_best).                               *)
THEOREM BoundaryHolds == Spec => []OnlyImplChanges
<1>1. WorktreeInv => OnlyImplChanges
  <2> SUFFICES ASSUME Kept PROVE OnlyImplChanges BY DEF WorktreeInv
  <2>1. CASE subtree = Nowhere BY <2>1 DEF Kept, OnlyImplChanges, Own, Same
  <2>2. CASE subtree # Nowhere BY <2>2 DEF Kept, OnlyImplChanges, Own, Same
  <2> QED BY <2>1, <2>2
<1> QED BY <1>1, WorktreeInductive, PTL

(* A run that returns leaves the files of its best attempt, byte for byte    *)
(* (restore_best).                                                           *)
THEOREM RestoreExact == Spec => []RestoreIsExact
<1>1. WorktreeInv => RestoreIsExact BY DEF WorktreeInv
<1> QED BY <1>1, WorktreeInductive, PTL

(* A reply that names impl_path in a framing that can carry its text is      *)
(* written byte for byte, whatever the text, the path and the tree           *)
(* (extract_file, assistant_content, apply_file).                            *)
THEOREM CarriedAsMeant == Spec => []WrittenAsMeant
<1> DEFINE I == WorktreeInv /\ Heard /\ WrittenAsMeant
<1>1. Init => I
  <2>1. Init => Heard /\ WrittenAsMeant BY DEF Init, Heard, WrittenAsMeant
  <2> QED BY <2>1, InitKept
<1>2. I /\ [Next]_vars => I' BY StepKept, StepHeard, StepMeans DEF WorktreeInv
<1> QED BY <1>1, <1>2, PTL DEF Spec
=============================================================================
