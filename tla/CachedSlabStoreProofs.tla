----------------------- MODULE CachedSlabStoreProofs -----------------------
(***************************************************************************)
(* Theorems about the shared read path (CachedSlabStore), for every set of *)
(* threads, drops, frame lengths, files and cache bounds: both caches stay *)
(* consistent and every read returns exactly the bytes asked for.          *)
(*                                                                         *)
(* The lemmas about SieveCache are used twice: for the drop cache through  *)
(* EXTENDS and for the frame cache through the instance FP.                *)
(***************************************************************************)
EXTENDS CachedSlabStore, SieveCacheProofs, SequenceTheorems

FP == INSTANCE SieveCacheProofs WITH
        Keys <- FrameKeys,
        Size <- [k \in FrameKeys |-> FrameLens[k[1]][k[2]]],
        EntryCapacity <- FrameCapacity, ByteBudget <- FrameBudget,
        entries <- fentries, order <- forder, bytes <- fbytes,
        evicting <- fevicting

----------------------------------------------------------------------------
(* Where frames and slices begin.                                          *)

LEMMA FrameLensType ==
  ASSUME NEW d \in Drops
  PROVE  /\ FrameLens[d] \in Seq(Nat \ {0})
         /\ Len(FrameLens[d]) \in Nat
         /\ \A i \in 1..Len(FrameLens[d]) :
              /\ FrameLens[d][i] \in Nat \ {0}
              /\ <<d, i>> \in FrameKeys
<1>1. FrameLens[d] \in Seq(Nat \ {0})
  BY StoreAssumption
<1>2. ASSUME NEW i \in 1..Len(FrameLens[d])
      PROVE  /\ FrameLens[d][i] \in Nat \ {0} /\ i \in DOMAIN FrameLens[d]
  BY <1>1
<1>3. ASSUME NEW i \in 1..Len(FrameLens[d]) PROVE <<d, i>> \in FrameKeys
  BY <1>2 DEF FrameKeys
<1> QED
  BY <1>1, <1>2, <1>3

LEMMA StartsFacts ==
  ASSUME NEW d \in Drops, NEW n, n = Len(FrameLens[d])
  PROVE  /\ n \in Nat
         /\ Starts(d) \in [1..(n + 1) -> Nat]
         /\ Starts(d)[1] = 0
         /\ \A i \in 1..n : /\ FrameLens[d][i] \in Nat \ {0}
                            /\ Starts(d)[i + 1] = Starts(d)[i] + FrameLens[d][i]
         /\ \A i, j \in 1..(n + 1) : i <= j => Starts(d)[i] <= Starts(d)[j]
<1> DEFINE v == [i \in 2..(n + 1) |-> FrameLens[d][i - 1]]
           Rec(f) == f = [i \in 1..(n + 1) |->
                            IF i = 1 THEN 0 ELSE f[i - 1] + FrameLens[d][i - 1]]
<1>1. n \in Nat /\ \A i \in 1..n : FrameLens[d][i] \in Nat \ {0}
  BY FrameLensType
<1>2. \A i \in 2..(n + 1) : v[i] \in Nat /\ v[i] = FrameLens[d][i - 1]
  BY <1>1
<1>3. ASSUME NEW f PROVE Rec(f) <=> RunningSum(f, v, 1, n + 1)
  <2>1. \A i \in 1..(n + 1) :
          (IF i = 1 THEN 0 ELSE f[i - 1] + FrameLens[d][i - 1])
            = (IF i = 1 THEN 0 ELSE f[i - 1] + v[i])
    BY <1>1, <1>2
  <2> HIDE DEF v
  <2>2. [i \in 1..(n + 1) |->
           IF i = 1 THEN 0 ELSE f[i - 1] + FrameLens[d][i - 1]]
        = [i \in 1..(n + 1) |-> IF i = 1 THEN 0 ELSE f[i - 1] + v[i]]
    BY <2>1
  <2> QED
    BY <2>2, Zenon DEF RunningSum
<1>4. Starts(d) = CHOOSE f : Rec(f)
  BY DEF Starts
<1> HIDE DEF Rec, v
<1>5. \E f : Rec(f)
  <2>1. 1 \in Nat /\ n + 1 \in Nat
    BY <1>1
  <2>2. \E f : RunningSum(f, v, 1, n + 1)
    BY <2>1, RunningSumExists, Zenon
  <2> QED
    BY <2>2, <1>3
<1>6. RunningSum(Starts(d), v, 1, n + 1)
  BY <1>3, <1>4, <1>5
<1>7. /\ Starts(d) \in [1..(n + 1) -> Nat]
      /\ Starts(d)[1] = 0
      /\ \A i \in 2..(n + 1) : Starts(d)[i] = Starts(d)[i - 1] + v[i]
      /\ \A i, j \in 1..(n + 1) : i <= j => Starts(d)[i] <= Starts(d)[j]
  <2>1. /\ 1 \in Nat /\ n + 1 \in Nat /\ 1 <= n + 1
        /\ \A i \in (1 + 1)..(n + 1) : v[i] \in Nat
    BY <1>1, <1>2
  <2>2. /\ Starts(d) \in [1..(n + 1) -> Nat]
        /\ Starts(d)[1] = 0
        /\ \A i \in (1 + 1)..(n + 1) : Starts(d)[i] = Starts(d)[i - 1] + v[i]
        /\ \A i, j \in 1..(n + 1) : i <= j => Starts(d)[i] <= Starts(d)[j]
    BY <2>1, <1>6, RunningSumFacts, Zenon
  <2> QED
    BY <2>2
<1>8. ASSUME NEW i \in 1..n
      PROVE  Starts(d)[i + 1] = Starts(d)[i] + FrameLens[d][i]
  <2>1. i + 1 \in 2..(n + 1) /\ (i + 1) - 1 = i
    BY <1>1
  <2> QED
    BY <2>1, <1>2, <1>7
<1> QED
  BY <1>1, <1>7, <1>8

\* partition_point returns the frame that holds the offset, or one past the
\* last when the offset is at the end.
LEMMA FrameContainingFacts ==
  ASSUME NEW d \in Drops, NEW n, n = Len(FrameLens[d]), NEW off \in Nat,
         NEW c, c = FrameContaining(d, off)
  PROVE  /\ c \in 1..(n + 1)
         /\ Starts(d)[c] <= off
         /\ c <= n => off < Starts(d)[c + 1]
<1> DEFINE S == Starts(d)
           In == {i \in DOMAIN S : S[i] <= off}
           T == {i \in 1..(n + 1) : ~ (S[i] <= off)}
<1>1. /\ n \in Nat /\ S \in [1..(n + 1) -> Nat] /\ S[1] = 0
      /\ \A i, j \in 1..(n + 1) : i <= j => S[i] <= S[j]
  BY StartsFacts
<1> HIDE DEF S
<1>2. CASE T = {}
  <2>1. In = 1..(n + 1)
    BY <1>1, <1>2
  <2>2. Cardinality(1..(n + 1)) = n + 1
    BY <1>1, FS_Interval
  <2>3. c = n + 1
    BY <2>1, <2>2 DEF FrameContaining, S
  <2> QED
    BY <1>1, <1>2, <2>3 DEF S
<1>3. CASE T # {}
  <2>1. PICK k \in T : \A j \in T : k <= j
    <3>1. T \subseteq Nat
      BY <1>1
    <3> QED
      BY <1>3, <3>1, LeastNatural
  <2>2. k \in 2..(n + 1)
    BY <1>1
  <2>3. \A i \in 1..(n + 1) : S[i] <= off <=> i <= k - 1
    <3>1. ASSUME NEW i \in 1..(n + 1), i <= k - 1 PROVE S[i] <= off
      BY <2>1, <2>2, <3>1
    <3>2. ASSUME NEW i \in 1..(n + 1), ~ (i <= k - 1) PROVE ~ (S[i] <= off)
      BY <1>1, <2>1, <2>2, <3>2
    <3> QED
      BY <3>1, <3>2
  <2>4. In = 1..(k - 1)
    BY <1>1, <2>2, <2>3
  <2>5. Cardinality(1..(k - 1)) = k - 1
    BY <2>2, FS_Interval
  <2>6. c = k - 1
    BY <2>4, <2>5 DEF FrameContaining, S
  <2>7. c + 1 = k /\ ~ (S[k] <= off) /\ S[k] \in Nat
    BY <1>1, <2>2, <2>6
  <2> QED
    BY <1>1, <2>2, <2>3, <2>6, <2>7 DEF S
<1> QED
  BY <1>2, <1>3

LEMMA SliceEndFacts ==
  ASSUME NEW file \in Seq(Drops), NEW n, n = Len(file)
  PROVE  /\ n \in Nat
         /\ SliceEnd(file) \in [0..n -> Nat]
         /\ SliceEnd(file)[0] = 0
         /\ \A i \in 1..n :
              /\ file[i] \in Drops /\ Size[file[i]] \in Nat
              /\ SliceEnd(file)[i] = SliceEnd(file)[i - 1] + Size[file[i]]
         /\ \A i, j \in 0..n : i <= j => SliceEnd(file)[i] <= SliceEnd(file)[j]
<1> DEFINE v == [i \in 1..n |-> Size[file[i]]]
           Rec(f) == f = [i \in 0..n |->
                            IF i = 0 THEN 0 ELSE f[i - 1] + Size[file[i]]]
<1>1. n \in Nat /\ \A i \in 1..n : file[i] \in Drops
  OBVIOUS
<1>2. \A i \in 1..n : v[i] \in Nat /\ v[i] = Size[file[i]]
  BY <1>1, CacheAssumption DEF Drops
<1>3. ASSUME NEW f PROVE Rec(f) <=> RunningSum(f, v, 0, n)
  <2>1. \A i \in 0..n : (IF i = 0 THEN 0 ELSE f[i - 1] + Size[file[i]])
                          = (IF i = 0 THEN 0 ELSE f[i - 1] + v[i])
    BY <1>1, <1>2
  <2> HIDE DEF v
  <2>2. [i \in 0..n |-> IF i = 0 THEN 0 ELSE f[i - 1] + Size[file[i]]]
        = [i \in 0..n |-> IF i = 0 THEN 0 ELSE f[i - 1] + v[i]]
    BY <2>1
  <2> QED
    BY <2>2, Zenon DEF RunningSum
<1>4. SliceEnd(file) = CHOOSE f : Rec(f)
  BY DEF SliceEnd
<1> HIDE DEF Rec, v
<1>5. \E f : Rec(f)
  <2>1. 0 \in Nat
    OBVIOUS
  <2>2. \E f : RunningSum(f, v, 0, n)
    BY <2>1, <1>1, RunningSumExists, Zenon
  <2> QED
    BY <2>2, <1>3
<1>6. RunningSum(SliceEnd(file), v, 0, n)
  BY <1>3, <1>4, <1>5
<1>7. /\ SliceEnd(file) \in [0..n -> Nat]
      /\ SliceEnd(file)[0] = 0
      /\ \A i \in 1..n : SliceEnd(file)[i] = SliceEnd(file)[i - 1] + v[i]
      /\ \A i, j \in 0..n : i <= j => SliceEnd(file)[i] <= SliceEnd(file)[j]
  <2>1. /\ 0 \in Nat /\ n \in Nat /\ 0 <= n
        /\ \A i \in (0 + 1)..n : v[i] \in Nat
    BY <1>1, <1>2
  <2>2. /\ SliceEnd(file) \in [0..n -> Nat]
        /\ SliceEnd(file)[0] = 0
        /\ \A i \in (0 + 1)..n : SliceEnd(file)[i] = SliceEnd(file)[i - 1] + v[i]
        /\ \A i, j \in 0..n : i <= j => SliceEnd(file)[i] <= SliceEnd(file)[j]
    BY SMTT(30), <2>1, <1>6, RunningSumFacts
  <2> QED
    BY <2>2
<1> QED
  BY <1>1, <1>2, <1>7

----------------------------------------------------------------------------
(* Runs of bytes: of a drop, from offset a up to b, and of a file.         *)

Bytes(d, a, b) == [k \in 1..(b - a) |-> <<d, a + k>>]

FileBytes(file, a, b) == [k \in 1..(b - a) |-> FileByte(file, a + k)]

LEMMA FunctionIsSeq ==
  ASSUME NEW V, NEW n \in Nat, NEW s \in [1..n -> V]
  PROVE  s \in Seq(V) /\ Len(s) = n
OBVIOUS

LEMMA SeqIsFunction ==
  ASSUME NEW V, NEW s \in Seq(V), NEW n, Len(s) = n
  PROVE  s = [k \in 1..n |-> s[k]]
OBVIOUS

LEMMA SliceOfRun ==
  ASSUME NEW V, NEW s \in Seq(V),
         NEW a \in Nat, NEW b \in Nat, a <= b, b <= Len(s)
  PROVE  /\ Slice(s, a, b) \in Seq(V)
         /\ Len(Slice(s, a, b)) = b - a
         /\ \A k \in 1..(b - a) : Slice(s, a, b)[k] = s[a + k]
<1> DEFINE z == SubSeq(s, a + 1, b)
<1>2. z \in Seq(V) /\ Len(z) = b - a
  OBVIOUS
<1>3. ASSUME NEW k \in 1..(b - a) PROVE z[k] = s[a + k]
  <2>1. z[k] = s[(a + 1) + k - 1] /\ (a + 1) + k - 1 = a + k
    OBVIOUS
  <2> QED
    BY <2>1
<1> QED
  BY <1>2, <1>3 DEF Slice

LEMMA SliceOfPlaintext ==
  ASSUME NEW d \in Drops, NEW a \in Nat, NEW b \in Nat, a <= b, b <= Size[d]
  PROVE  Slice(Plaintext(d), a, b) = Bytes(d, a, b)
<1> DEFINE p == Plaintext(d)
           V == {<<d, k>> : k \in Nat}
<1>1. Size[d] \in Nat
  BY CacheAssumption DEF Drops
<1>2. p \in [1..Size[d] -> V] /\ \A k \in 1..Size[d] : p[k] = <<d, k>>
  BY <1>1 DEF Plaintext
<1> DEFINE z == Slice(p, a, b)
<1> HIDE DEF p, V
<1>3. /\ z \in Seq(V) /\ Len(z) = b - a
      /\ \A k \in 1..(b - a) : z[k] = p[a + k]
  <2>1. p \in Seq(V) /\ Len(p) = Size[d]
    BY <1>1, <1>2, FunctionIsSeq
  <2> QED
    BY <2>1, SliceOfRun
<1> HIDE DEF z
<1>4. \A k \in 1..(b - a) : p[a + k] = <<d, a + k>>
  BY <1>1, <1>2
<1>5. z = [k \in 1..(b - a) |-> z[k]]
  BY <1>3, SeqIsFunction
<1> QED
  BY <1>3, <1>4, <1>5 DEF Bytes, p, z

LEMMA SliceOfFrame ==
  ASSUME NEW d \in Drops, NEW i \in 1..Len(FrameLens[d]),
         NEW a \in Nat, NEW b \in Nat, a <= b, b <= FrameLens[d][i]
  PROVE  Slice(FramePlaintext(d, i), a, b)
           = Bytes(d, Starts(d)[i] + a, Starts(d)[i] + b)
<1> DEFINE p == FramePlaintext(d, i)
           n == FrameLens[d][i]
           c == Starts(d)[i]
           V == {<<d, k>> : k \in Nat}
<1>1. n \in Nat /\ c \in Nat /\ b <= n
  <2>1. /\ Len(FrameLens[d]) \in Nat
        /\ Starts(d) \in [1..(Len(FrameLens[d]) + 1) -> Nat]
        /\ FrameLens[d][i] \in Nat
    BY StartsFacts
  <2> QED
    BY <2>1
<1>2. p = [k \in 1..n |-> <<d, c + k>>]
  BY DEF FramePlaintext
<1> DEFINE z == Slice(p, a, b)
<1> HIDE DEF p, n, c
<1>3. p \in [1..n -> V] /\ \A k \in 1..n : p[k] = <<d, c + k>>
  BY <1>1, <1>2
<1> HIDE DEF V
<1>4. /\ z \in Seq(V) /\ Len(z) = b - a
      /\ \A k \in 1..(b - a) : z[k] = p[a + k]
  <2>1. p \in Seq(V) /\ Len(p) = n
    BY <1>1, <1>3, FunctionIsSeq
  <2> QED
    BY ZenonT(60), <1>1, <2>1, SliceOfRun
<1> HIDE DEF z
<1>5. /\ (c + b) - (c + a) = b - a
      /\ \A k \in 1..(b - a) : p[a + k] = <<d, c + (a + k)>>
      /\ \A k \in 1..(b - a) : c + (a + k) = (c + a) + k
  BY <1>1, <1>3
<1>6. z = [k \in 1..(b - a) |-> z[k]]
  BY <1>4, SeqIsFunction
<1>7. z = Bytes(d, c + a, c + b)
  BY <1>4, <1>5, <1>6 DEF Bytes
<1> QED
  BY <1>7 DEF p, c, z

\* Consecutive runs of a function on the naturals, as sequences.
Run(g, a, b) == [k \in 1..(b - a) |-> g[a + k]]

LEMMA RunSeq ==
  ASSUME NEW V, NEW g \in [Nat -> V], NEW a \in Nat, NEW b \in Nat, a <= b
  PROVE  Run(g, a, b) \in Seq(V) /\ Len(Run(g, a, b)) = b - a
<1>1. Run(g, a, b) \in [1..(b - a) -> V] /\ b - a \in Nat
  BY DEF Run
<1> QED
  BY <1>1, FunctionIsSeq

LEMMA RunConcat ==
  ASSUME NEW V, NEW g \in [Nat -> V], NEW a \in Nat, NEW b \in Nat,
         NEW c \in Nat, a <= b, b <= c
  PROVE  Run(g, a, b) \o Run(g, b, c) = Run(g, a, c)
<1> DEFINE x == Run(g, a, b)
           y == Run(g, b, c)
<1>1. /\ x \in Seq(V) /\ y \in Seq(V)
      /\ Len(x) = b - a /\ Len(y) = c - b
  BY RunSeq
<1>2. /\ \A k \in 1..(b - a) : x[k] = g[a + k]
      /\ \A k \in 1..(c - b) : y[k] = g[b + k]
  BY DEF Run
<1> DEFINE z == x \o y
<1> HIDE DEF x, y
<1>3. /\ z \in Seq(V) /\ Len(z) = Len(x) + Len(y)
      /\ \A k \in 1..(Len(x) + Len(y)) :
           z[k] = IF k <= Len(x) THEN x[k] ELSE y[k - Len(x)]
  BY <1>1, ConcatProperties
<1> HIDE DEF z
<1>4. /\ (b - a) + (c - b) = c - a
      /\ z = [k \in 1..(c - a) |-> z[k]]
  BY <1>1, <1>3, SeqIsFunction
<1>5. ASSUME NEW k \in 1..(c - a) PROVE z[k] = g[a + k]
  <2>0. z[k] = IF k <= b - a THEN x[k] ELSE y[k - (b - a)]
    BY <1>1, <1>3, <1>4
  <2>1. CASE k <= b - a
    BY <1>2, <2>0, <2>1
  <2>2. CASE ~ (k <= b - a)
    <3>1. k - (b - a) \in 1..(c - b) /\ b + (k - (b - a)) = a + k
      BY <2>2
    <3> QED
      BY <1>2, <2>0, <2>2, <3>1
  <2> QED
    BY <2>1, <2>2
<1> QED
  BY <1>4, <1>5 DEF Run, x, y, z

LEMMA RunEmpty == ASSUME NEW g, NEW a \in Nat PROVE Run(g, a, a) = <<>>
<1>1. 1..(a - a) = {}
  OBVIOUS
<1> QED
  BY <1>1 DEF Run

LEMMA BytesFacts ==
  ASSUME NEW d \in Drops, NEW a \in Nat, NEW b \in Nat, a <= b
  PROVE  /\ Bytes(d, a, b) \in Seq(Drops \X Nat)
         /\ Len(Bytes(d, a, b)) = b - a
         /\ Bytes(d, a, a) = <<>>
         /\ \A c \in Nat : b <= c =>
              Bytes(d, a, b) \o Bytes(d, b, c) = Bytes(d, a, c)
<1> DEFINE g == [k \in Nat |-> <<d, k>>]
<1>1. g \in [Nat -> Drops \X Nat]
  OBVIOUS
<1>2. ASSUME NEW x \in Nat, NEW y \in Nat PROVE Bytes(d, x, y) = Run(g, x, y)
  BY DEF Bytes, Run
<1> HIDE DEF g
<1>3. Run(g, a, b) \in Seq(Drops \X Nat) /\ Len(Run(g, a, b)) = b - a
  BY ZenonT(60), <1>1, RunSeq
<1>4. \A c \in Nat : b <= c => Run(g, a, b) \o Run(g, b, c) = Run(g, a, c)
  BY <1>1, RunConcat
<1> QED
  BY <1>2, <1>3, <1>4, RunEmpty

LEMMA FileBytesFacts ==
  ASSUME NEW file, NEW a \in Nat, NEW b \in Nat, a <= b
  PROVE  /\ Len(FileBytes(file, a, b)) = b - a
         /\ FileBytes(file, a, a) = <<>>
         /\ \A c \in Nat : b <= c =>
              FileBytes(file, a, b) \o FileBytes(file, b, c)
                = FileBytes(file, a, c)
<1> DEFINE g == [k \in Nat |-> FileByte(file, k)]
           V == {FileByte(file, k) : k \in Nat}
<1>1. g \in [Nat -> V]
  OBVIOUS
<1>2. ASSUME NEW x \in Nat, NEW y \in Nat
      PROVE  FileBytes(file, x, y) = Run(g, x, y)
  BY DEF FileBytes, Run
<1> HIDE DEF g, V
<1>3. Run(g, a, b) \in Seq(V) /\ Len(Run(g, a, b)) = b - a
  BY <1>1, RunSeq
<1>4. \A c \in Nat : b <= c => Run(g, a, b) \o Run(g, b, c) = Run(g, a, c)
  BY <1>1, RunConcat
<1> QED
  BY <1>2, <1>3, <1>4, RunEmpty

\* The bytes of a file inside one slice are bytes of that slice's drop.
LEMMA FileBytesOfSlice ==
  ASSUME NEW file \in Seq(Drops), NEW s \in 1..Len(file),
         NEW start, start = SliceEnd(file)[s - 1],
         NEW a \in Nat, NEW b \in Nat,
         start <= a, a <= b, b <= SliceEnd(file)[s]
  PROVE  /\ start \in Nat
         /\ FileBytes(file, a, b) = Bytes(file[s], a - start, b - start)
<1> DEFINE E == SliceEnd(file)
           n == Len(file)
<1>1. /\ n \in Nat /\ E \in [0..n -> Nat]
      /\ \A i, j \in 0..n : i <= j => E[i] <= E[j]
  BY SliceEndFacts
<1>2. s - 1 \in 0..n /\ s \in 0..n /\ start \in Nat /\ E[s] \in Nat
  BY <1>1
<1>3. ASSUME NEW p \in Nat, start < p, p <= E[s]
      PROVE  FileByte(file, p) = <<file[s], p - start>>
  <2> DEFINE Holds(q) == E[q - 1] < p /\ p <= E[q]
  <2>1. s \in 1..n /\ Holds(s)
    BY <1>3
  <2>2. ASSUME NEW q \in 1..n, Holds(q) PROVE q = s
    <3>1. q - 1 \in 0..n /\ q \in 0..n /\ E[q - 1] \in Nat /\ E[q] \in Nat
      BY SMTT(30), <1>1
    <3>2. ~ (q <= s - 1)
      BY SMTT(30), <1>1, <1>2, <1>3, <2>2, <3>1
    <3>3. ~ (s <= q - 1)
      BY SMTT(30), <1>1, <1>2, <1>3, <2>2, <3>1
    <3> QED
      BY <3>2, <3>3, <1>1
  <2>3. SliceOf(file, p) = CHOOSE q \in 1..n : Holds(q)
    BY DEF SliceOf
  <2> HIDE DEF Holds
  <2>4. SliceOf(file, p) = s
    BY <2>1, <2>2, <2>3
  <2> QED
    BY <2>4 DEF FileByte
<1>4. ASSUME NEW k \in 1..(b - a)
      PROVE  FileByte(file, a + k) = <<file[s], (a - start) + k>>
  <2>1. /\ a + k \in Nat /\ start < a + k /\ a + k <= E[s]
        /\ (a + k) - start = (a - start) + k
    BY <1>2
  <2> QED
    BY <1>3, <2>1
<1>5. (b - start) - (a - start) = b - a
  BY <1>2
<1> QED
  BY <1>2, <1>4, <1>5 DEF FileBytes, Bytes

----------------------------------------------------------------------------
(* The inductive invariant.  A thread's record is described at each of its *)
(* program counters: a window read has collected the file's bytes up to    *)
(* the slice it is at, and a read by frames has collected the drop's bytes *)
(* up to the frame it is at.                                               *)

IsThread(r) ==
  /\ r = [pc |-> r.pc, kind |-> r.kind, file |-> r.file, slice |-> r.slice,
          woff |-> r.woff, wlen |-> r.wlen, drop |-> r.drop, off |-> r.off,
          want |-> r.want, frame |-> r.frame, got |-> r.got, out |-> r.out,
          ok |-> r.ok]
  /\ r.off \in Nat /\ r.want \in Nat /\ r.woff \in Nat /\ r.wlen \in Nat
  /\ r.ok \in BOOLEAN

IsWindow(r) == r.file \in Seq(Drops) /\ r.wlen > 0

AtSlice(r) ==
  /\ r.kind = "window" /\ IsWindow(r)
  /\ r.slice \in 1..(Len(r.file) + 1)
  /\ SliceEnd(r.file)[r.slice - 1] < r.woff + r.wlen
  /\ r.out = FileBytes(r.file, r.woff,
                       Larger(r.woff, SliceEnd(r.file)[r.slice - 1]))

InSlice(r) ==
  LET start == SliceEnd(r.file)[r.slice - 1]
      end == SliceEnd(r.file)[r.slice]
      from == Larger(r.woff, start)
      to == Smaller(r.woff + r.wlen, end)
  IN  /\ IsWindow(r)
      /\ r.slice \in 1..Len(r.file)
      /\ r.drop = r.file[r.slice]
      /\ from < to
      /\ r.off = from - start
      /\ r.want = to - from
      /\ r.out = FileBytes(r.file, r.woff, from)

\* A read of one drop is under way.
Reading(r) ==
  /\ r.ok = TRUE
  /\ r.drop \in Drops
  /\ r.kind \in {"decoded", "plaintext", "range", "into", "window"}
  /\ r.kind = "into" => r.want > 0
  /\ r.kind = "window" => InSlice(r)

AtFrame(r) ==
  /\ Seekable(r.drop)
  /\ r.kind \in {"range", "into", "window"}
  /\ r.off <= Size[r.drop]
  /\ r.kind = "range" => r.off + r.want <= Size[r.drop]
  /\ r.frame \in 1..(Len(FrameLens[r.drop]) + 1)
  /\ r.frame <= Len(FrameLens[r.drop]) =>
       r.off < Starts(r.drop)[r.frame + 1]
  /\ \/ Starts(r.drop)[r.frame] <= r.off
     \/ Starts(r.drop)[r.frame] < r.off + r.want
  /\ r.got = Bytes(r.drop, r.off, Larger(r.off, Starts(r.drop)[r.frame]))

IsExact(r) ==
  ~ PastEnd(r) => /\ r.ok = ~ OutOfRange(r)
                  /\ r.ok => r.out = Asked(r)

ThreadInv(r) ==
  /\ IsThread(r)
  /\ \/ r.pc = "idle"
     \/ r.pc = "slice" /\ r.ok = TRUE /\ AtSlice(r)
     \/ /\ r.pc \in {"lookup", "decode", "evict"} /\ Reading(r)
        /\ r.pc = "lookup" => r.kind # "plaintext"
     \/ r.pc = "frame" /\ Reading(r) /\ AtFrame(r)
     \/ /\ r.pc \in {"frameDecode", "frameEvict"}
        /\ Reading(r) /\ AtFrame(r)
        /\ r.frame <= Len(FrameLens[r.drop])
     \/ r.pc = "done" /\ IsExact(r)

StoreInv ==
  /\ CacheInv
  /\ FP!CacheInv
  /\ th = [t \in Threads |-> th[t]]
  /\ \A t \in Threads : ThreadInv(th[t])

----------------------------------------------------------------------------
(* What one step of a thread makes of its record.                          *)

LEMMA DropType ==
  ASSUME NEW d \in Drops
  PROVE  Size[d] \in Nat /\ (Seekable(d) => TotalUncomp(d) = Size[d])
BY CacheAssumption, FramesAssumption DEF Drops

\* The arithmetic of a slice that the window meets.
LEMMA InSliceFacts ==
  ASSUME NEW r, IsThread(r), InSlice(r),
         NEW start, start = SliceEnd(r.file)[r.slice - 1],
         NEW end, end = SliceEnd(r.file)[r.slice],
         NEW from, from = Larger(r.woff, start),
         NEW to, to = Smaller(r.woff + r.wlen, end)
  PROVE  /\ start \in Nat /\ end \in Nat /\ from \in Nat /\ to \in Nat
         /\ r.woff <= from /\ start <= from /\ from < to /\ to <= end
         /\ to <= r.woff + r.wlen
         /\ end = start + Size[r.drop] /\ Size[r.drop] \in Nat
         /\ r.off = from - start /\ r.want = to - from
         /\ r.off + r.want = to - start
         /\ r.off + r.want <= Size[r.drop]
         /\ end <= SliceEnd(r.file)[Len(r.file)]
         /\ SliceEnd(r.file)[Len(r.file)] \in Nat
<1>1. /\ r.file \in Seq(Drops) /\ r.slice \in 1..Len(r.file)
      /\ r.drop = r.file[r.slice] /\ from < to
      /\ r.off = from - start /\ r.want = to - from
  BY DEF InSlice, IsWindow
<1> DEFINE n == Len(r.file)
<1>2. /\ n \in Nat /\ SliceEnd(r.file) \in [0..n -> Nat]
      /\ end = start + Size[r.drop] /\ Size[r.drop] \in Nat
      /\ \A i, j \in 0..n :
           i <= j => SliceEnd(r.file)[i] <= SliceEnd(r.file)[j]
  BY <1>1, SliceEndFacts
<1> HIDE DEF n
<1>3. /\ start \in Nat /\ end \in Nat /\ end <= SliceEnd(r.file)[n]
      /\ SliceEnd(r.file)[n] \in Nat
  <2>1. /\ r.slice - 1 \in 0..n /\ r.slice \in 0..n /\ n \in 0..n
        /\ r.slice <= n
    BY <1>1, <1>2 DEF n
  <2> QED
    BY <1>2, <2>1
<1>4. r.woff \in Nat /\ r.wlen \in Nat
  BY DEF IsThread
<1>5. /\ from \in Nat /\ to \in Nat /\ r.woff <= from /\ start <= from
      /\ to <= end /\ to <= r.woff + r.wlen
  BY <1>3, <1>4 DEF Larger, Smaller
<1>6. r.off + r.want = to - start /\ to - start <= Size[r.drop]
  <2>1. (from - start) + (to - from) = to - start /\ to - start <= Size[r.drop]
    BY <1>2, <1>3, <1>5
  <2> QED
    BY <1>1, <2>1
<1> QED
  BY <1>1, <1>2, <1>3, <1>5, <1>6 DEF n

\* The read of one drop returned the right bytes.
LEMMA ReturnedOK ==
  ASSUME NEW r, IsThread(r), Reading(r), NEW bs,
         r.kind # "window" => ~ OutOfRange(r) /\ bs = OfWhole(r),
         r.kind = "window" => bs = Bytes(r.drop, r.off, r.off + r.want)
  PROVE  ThreadInv(Returned(r, bs))
<1> DEFINE q == Returned(r, bs)
<1>1. CASE r.kind # "window"
  <2>1. q = [r EXCEPT !.pc = "done", !.out = bs]
    BY <1>1 DEF Returned
  <2>2. /\ IsThread(q) /\ q.pc = "done" /\ q.out = bs /\ q.ok = TRUE
        /\ q.kind = r.kind /\ q.drop = r.drop /\ q.off = r.off
        /\ q.want = r.want
    BY <2>1 DEF IsThread, Reading
  <2> HIDE DEF q
  <2>3. ~ OutOfRange(q) /\ OfWhole(q) = OfWhole(r)
    BY <1>1, <2>2 DEF OutOfRange, OfWhole
  <2>4. Asked(q) = OfWhole(r)
    BY <1>1, <2>2, <2>3 DEF Asked
  <2> QED
    BY <1>1, <2>2, <2>3, <2>4 DEF ThreadInv, IsExact, q
<1>2. CASE r.kind = "window"
  <2> DEFINE start == SliceEnd(r.file)[r.slice - 1]
             end == SliceEnd(r.file)[r.slice]
             from == Larger(r.woff, start)
             to == Smaller(r.woff + r.wlen, end)
             out == r.out \o bs
             n == Len(r.file)
             total == SliceEnd(r.file)[n]
  <2>0. InSlice(r)
    BY <1>2 DEF Reading
  <2>1. /\ start \in Nat /\ end \in Nat /\ from \in Nat /\ to \in Nat
        /\ r.woff <= from /\ start <= from /\ from < to /\ to <= end
        /\ to <= r.woff + r.wlen
        /\ r.off = from - start
        /\ r.off + r.want = to - start
        /\ end <= total /\ total \in Nat
    BY <2>0, InSliceFacts
  <2>2. /\ r.file \in Seq(Drops) /\ r.slice \in 1..n
        /\ r.drop = r.file[r.slice] /\ r.wlen > 0
        /\ r.out = FileBytes(r.file, r.woff, from)
    BY <2>0 DEF InSlice, IsWindow
  <2>3. r.woff \in Nat /\ r.wlen \in Nat
    BY DEF IsThread
  <2>4. FileBytes(r.file, from, to) = Bytes(r.drop, from - start, to - start)
    <3>1. from <= to /\ n = Len(r.file)
      BY <2>1
    <3> HIDE DEF from, to, n, total
    <3>2. \A a, b \in Nat : start <= a /\ a <= b /\ b <= end =>
            FileBytes(r.file, a, b) = Bytes(r.drop, a - start, b - start)
      BY <2>2, <3>1, FileBytesOfSlice DEF n
    <3> QED
      BY <2>1, <3>1, <3>2
  <2> HIDE DEF start, end, from, to, total
  <2>5. out = FileBytes(r.file, r.woff, to) /\ Len(out) = to - r.woff
    <3>1. bs = FileBytes(r.file, from, to)
      BY <1>2, <2>1, <2>4
    <3>2. from <= to /\ r.woff <= to
      BY <2>1, <2>3
    <3>3. FileBytes(r.file, r.woff, from) \o FileBytes(r.file, from, to)
            = FileBytes(r.file, r.woff, to)
      <4>1. \A c \in Nat : from <= c =>
              FileBytes(r.file, r.woff, from) \o FileBytes(r.file, from, c)
                = FileBytes(r.file, r.woff, c)
        BY ZenonT(60), <2>1, <2>3, FileBytesFacts
      <4> QED
        BY <2>1, <3>2, <4>1
    <3>4. Len(FileBytes(r.file, r.woff, to)) = to - r.woff
      BY ZenonT(60), <2>1, <2>3, <3>2, FileBytesFacts
    <3>5. out = FileBytes(r.file, r.woff, from) \o FileBytes(r.file, from, to)
      BY <2>2, <3>1
    <3> QED
      BY <3>3, <3>4, <3>5, Zenon
  <2> HIDE DEF out
  <2>6. to = IF end >= r.woff + r.wlen THEN r.woff + r.wlen ELSE end
    BY <2>1, <2>3 DEF to, Smaller
  <2>7. Len(out) = r.wlen \/ end >= r.woff + r.wlen <=> end >= r.woff + r.wlen
    BY <2>1, <2>3, <2>5, <2>6
  <2>8. CASE end >= r.woff + r.wlen
    <3>1. q = [r EXCEPT !.pc = "done", !.out = out]
      BY <1>2, <2>8 DEF Returned, out, end
    <3>2. /\ IsThread(q) /\ q.pc = "done" /\ q.out = out /\ q.ok = TRUE
          /\ q.kind = "window" /\ q.file = r.file /\ q.woff = r.woff
          /\ q.wlen = r.wlen
      BY <1>2, <3>1 DEF IsThread, Reading
    <3> HIDE DEF q
    <3>3. Smaller(SatSub(total, r.woff), r.wlen) = r.wlen
      BY <2>1, <2>3, <2>8 DEF Smaller, SatSub
    <3>4. Asked(q) = [k \in 1..r.wlen |-> FileByte(r.file, r.woff + k)]
      <4>1. Asked(q) = [k \in 1..Smaller(SatSub(SliceEnd(q.file)[Len(q.file)],
                                                 q.woff), q.wlen) |->
                          FileByte(q.file, q.woff + k)]
        BY <3>2 DEF Asked
      <4> QED
        BY <3>2, <3>3, <4>1 DEF total, n
    <3>5. (r.woff + r.wlen) - r.woff = r.wlen
      BY <2>3
    <3>6. Asked(q) = FileBytes(r.file, r.woff, r.woff + r.wlen)
      BY <3>4, <3>5 DEF FileBytes
    <3>7. q.out = Asked(q)
      BY <2>5, <2>6, <2>8, <3>2, <3>6
    <3> QED
      BY <3>2, <3>7 DEF ThreadInv, IsExact, OutOfRange, q
  <2>9. CASE ~ (end >= r.woff + r.wlen)
    <3>1. q = [r EXCEPT !.pc = "slice", !.out = out, !.slice = r.slice + 1]
      BY <1>2, <2>7, <2>9 DEF Returned, out, end
    <3>2. /\ IsThread(q) /\ q.pc = "slice" /\ q.out = out /\ q.ok = TRUE
          /\ q.kind = "window" /\ q.file = r.file /\ q.woff = r.woff
          /\ q.wlen = r.wlen /\ q.slice = r.slice + 1
      BY <1>2, <3>1 DEF IsThread, Reading
    <3> HIDE DEF q
    <3>3. q.slice \in 1..(n + 1) /\ q.slice - 1 = r.slice
      BY <2>2, <3>2
    <3>4. Larger(r.woff, end) = to /\ end < r.woff + r.wlen
      BY <2>1, <2>3, <2>6, <2>9 DEF Larger
    <3>5. AtSlice(q)
      BY <2>2, <2>5, <3>2, <3>3, <3>4 DEF AtSlice, IsWindow, end
    <3> QED
      BY <3>2, <3>5 DEF ThreadInv, q
  <2> QED
    BY <2>8, <2>9
<1> QED
  BY <1>1, <1>2

LEMMA FromWholeOK ==
  ASSUME NEW r, IsThread(r), Reading(r)
  PROVE  ThreadInv(FromWhole(r))
<1>1. CASE OutOfRange(r)
  <2> DEFINE q == Failed(r)
  <2>0. q = [r EXCEPT !.pc = "done", !.ok = FALSE, !.out = <<>>]
    BY DEF Failed
  <2> HIDE DEF q
  <2>1. /\ IsThread(q) /\ q.pc = "done" /\ q.ok = FALSE
        /\ q.kind = r.kind /\ q.off = r.off /\ q.want = r.want
        /\ q.drop = r.drop
    BY <2>0 DEF IsThread
  <2>2. OutOfRange(q)
    BY <1>1, <2>1 DEF OutOfRange
  <2>3. ThreadInv(q)
    BY <2>1, <2>2 DEF ThreadInv, IsExact
  <2> QED
    BY <1>1, <2>3 DEF FromWhole, q
<1>2. CASE ~ OutOfRange(r)
  <2>1. ASSUME r.kind = "window"
        PROVE  OfWhole(r) = Bytes(r.drop, r.off, r.off + r.want)
    <3>1. r.off + r.want <= Size[r.drop] /\ Size[r.drop] \in Nat
      BY <2>1, InSliceFacts DEF Reading
    <3>2. r.off \in Nat /\ r.want \in Nat
      BY DEF IsThread
    <3>3. r.off + Smaller(SatSub(Size[r.drop], r.off), r.want) = r.off + r.want
      BY <3>1, <3>2 DEF Smaller, SatSub
    <3>4. OfWhole(r) = Slice(Plaintext(r.drop), r.off, r.off + r.want)
      BY <2>1, <3>3 DEF OfWhole
    <3> QED
      BY <3>1, <3>2, <3>4, SliceOfPlaintext DEF Reading
  <2>2. ThreadInv(Returned(r, OfWhole(r)))
    BY <1>2, <2>1, ReturnedOK
  <2> QED
    BY <1>2, <2>2 DEF FromWhole
<1> QED
  BY <1>1, <1>2

LEMMA FramesFromOK ==
  ASSUME NEW r, IsThread(r), Reading(r), Seekable(r.drop),
         r.kind \in {"range", "into", "window"}
  PROVE  ThreadInv(FramesFrom(r))
<1> DEFINE q == FramesFrom(r)
           total == Size[r.drop]
<1>1. /\ r.drop \in Drops /\ total \in Nat /\ TotalUncomp(r.drop) = total
      /\ r.off \in Nat /\ r.want \in Nat
  BY DropType DEF Reading, IsThread
<1>2. r.kind = "window" => r.off <= total
  <2> SUFFICES ASSUME r.kind = "window" PROVE r.off <= total
    OBVIOUS
  <2>1. r.off + r.want <= total
    BY InSliceFacts DEF Reading
  <2> QED
    BY <1>1, <2>1
<1>3. CASE r.off > total \/ (r.kind = "range" /\ r.off + r.want > total)
  <2>1. q = Failed(r)
    BY <1>1, <1>3 DEF FramesFrom
  <2>2. /\ IsThread(q) /\ q.pc = "done" /\ q.ok = FALSE
        /\ q.kind = r.kind /\ q.off = r.off /\ q.want = r.want
        /\ q.drop = r.drop
    BY <2>1 DEF Failed, IsThread
  <2> HIDE DEF q
  <2>3. OutOfRange(q) \/ PastEnd(q)
    BY <1>1, <1>2, <1>3, <2>2 DEF OutOfRange, PastEnd
  <2> QED
    BY <2>2, <2>3 DEF ThreadInv, IsExact, q
<1>4. CASE ~ (r.off > total \/ (r.kind = "range" /\ r.off + r.want > total))
  <2> DEFINE c == FrameContaining(r.drop, r.off)
             S == Starts(r.drop)
  <2>1. q = [r EXCEPT !.pc = "frame", !.got = <<>>, !.frame = c]
    BY <1>1, <1>4 DEF FramesFrom
  <2>2. /\ IsThread(q) /\ q.pc = "frame" /\ q.got = <<>> /\ q.frame = c
        /\ q.kind = r.kind /\ q.off = r.off /\ q.want = r.want
        /\ q.drop = r.drop /\ q.ok = r.ok /\ q.file = r.file
        /\ q.slice = r.slice /\ q.woff = r.woff /\ q.wlen = r.wlen
        /\ q.out = r.out
    BY <2>1 DEF IsThread
  <2>3. /\ c \in 1..(Len(FrameLens[r.drop]) + 1) /\ S[c] <= r.off
        /\ c <= Len(FrameLens[r.drop]) => r.off < S[c + 1]
    BY <1>1, FrameContainingFacts
  <2> HIDE DEF q, c
  <2>4. S[c] \in Nat
    <3>1. S \in [1..(Len(FrameLens[r.drop]) + 1) -> Nat]
      BY <1>1, StartsFacts
    <3> QED
      BY <2>3, <3>1
  <2> HIDE DEF S
  <2>5. q.got = Bytes(r.drop, r.off, Larger(r.off, S[c]))
    <3>1. Larger(r.off, S[c]) = r.off
      BY <1>1, <2>3, <2>4 DEF Larger
    <3>2. r.off <= r.off
      BY <1>1
    <3> QED
      BY <1>1, <2>2, <3>1, <3>2, BytesFacts
  <2>6. Reading(q)
    BY <2>2 DEF Reading, InSlice, IsWindow
  <2>7. AtFrame(q)
    BY <1>1, <1>4, <2>2, <2>3, <2>5 DEF AtFrame, S
  <2> QED
    BY <2>2, <2>6, <2>7 DEF ThreadInv, q
<1> QED
  BY <1>3, <1>4

\* What a read of one drop owes, as a run of bytes.
LEMMA OwedBytes ==
  ASSUME NEW r, IsThread(r), Reading(r), r.off <= Size[r.drop],
         r.kind \in {"range", "into", "window"},
         r.kind = "range" => r.off + r.want <= Size[r.drop],
         NEW bs, bs = Bytes(r.drop, r.off, Smaller(r.off + r.want, Size[r.drop]))
  PROVE  /\ r.kind # "window" => ~ OutOfRange(r) /\ bs = OfWhole(r)
         /\ r.kind = "window" => bs = Bytes(r.drop, r.off, r.off + r.want)
<1> DEFINE hi == r.off + r.want
           top == Smaller(hi, Size[r.drop])
<1>1. /\ r.drop \in Drops /\ Size[r.drop] \in Nat
      /\ r.off \in Nat /\ r.want \in Nat
  BY DropType DEF Reading, IsThread
<1>2. top \in Nat /\ r.off <= top /\ top <= Size[r.drop]
  BY <1>1 DEF Smaller
<1>3. Slice(Plaintext(r.drop), r.off, top) = bs
  BY <1>1, <1>2, SliceOfPlaintext
<1>4. CASE r.kind = "range"
  <2>1. top = hi
    BY <1>1, <1>4 DEF Smaller
  <2> HIDE DEF top
  <2>2. OfWhole(r) = Slice(Plaintext(r.drop), r.off, hi)
    BY <1>4 DEF OfWhole
  <2>3. ~ OutOfRange(r)
    BY <1>1, <1>4 DEF OutOfRange
  <2> QED
    BY <1>3, <1>4, <2>1, <2>2, <2>3
<1>5. CASE r.kind = "into"
  <2>1. top = r.off + Smaller(SatSub(Size[r.drop], r.off), r.want)
    BY <1>1 DEF Smaller, SatSub
  <2> HIDE DEF top
  <2>2. OfWhole(r) = Slice(Plaintext(r.drop), r.off,
                           r.off + Smaller(SatSub(Size[r.drop], r.off), r.want))
    BY <1>5 DEF OfWhole
  <2>3. ~ OutOfRange(r)
    BY <1>5 DEF OutOfRange
  <2> QED
    BY <1>3, <1>5, <2>1, <2>2, <2>3
<1>6. CASE r.kind = "window"
  <2>1. hi <= Size[r.drop]
    BY <1>6, InSliceFacts DEF Reading
  <2>2. top = hi
    BY <1>1, <2>1 DEF Smaller
  <2> QED
    BY <1>6, <2>2
<1> QED
  BY <1>4, <1>5, <1>6

LEMMA FrameDoneOK ==
  ASSUME NEW r, IsThread(r), Reading(r), AtFrame(r),
         r.frame <= Len(FrameLens[r.drop])
  PROVE  ThreadInv(FrameDone(r))
<1> DEFINE d == r.drop
           off == r.off
           f == r.frame
           hi == r.off + r.want
           n == Len(FrameLens[r.drop])
           S == Starts(r.drop)
           cum == S[f]
           len == FrameLens[d][f]
           top == S[f + 1]
           size == Size[d]
           end == Smaller(hi, top)
           got == r.got \o FrameSlice(r)
           q == FrameDone(r)
<1>1. /\ d \in Drops /\ size \in Nat /\ off \in Nat /\ r.want \in Nat
      /\ S[n + 1] = size /\ hi \in Nat
  BY DropType DEF Reading, IsThread, AtFrame, TotalUncomp
<1>2. /\ n \in Nat /\ f \in 1..n /\ f + 1 \in 1..(n + 1)
      /\ cum \in Nat /\ top \in Nat /\ len \in Nat \ {0} /\ top = cum + len
      /\ top <= size
  <2>1. /\ n \in Nat /\ S \in [1..(n + 1) -> Nat]
        /\ \A i \in 1..n : /\ FrameLens[d][i] \in Nat \ {0}
                           /\ S[i + 1] = S[i] + FrameLens[d][i]
        /\ \A i, j \in 1..(n + 1) : i <= j => S[i] <= S[j]
    BY <1>1, StartsFacts
  <2>2. /\ f \in 1..n /\ f \in 1..(n + 1) /\ f + 1 \in 1..(n + 1)
        /\ n + 1 \in 1..(n + 1) /\ f + 1 <= n + 1
    BY <2>1 DEF AtFrame
  <2> QED
    BY <1>1, <2>1, <2>2
<1>3. /\ off < top
      /\ cum <= off \/ cum < hi
      /\ r.got = Bytes(d, off, Larger(off, cum))
      /\ off <= size
      /\ r.kind \in {"range", "into", "window"}
      /\ r.kind = "range" => hi <= size
  BY DEF AtFrame
<1>b. hi = off + r.want
  OBVIOUS
<1> DEFINE mid == Larger(off, cum)
<1> HIDE DEF d, off, f, hi, n, S, cum, len, top, size
<1>4. /\ mid \in Nat /\ end \in Nat /\ off <= mid /\ mid <= end /\ off <= end
      /\ end <= top /\ end <= hi /\ end <= size
  BY <1>1, <1>2, <1>3, <1>b DEF Larger, Smaller
<1>5. r.kind # "range" => r.want > 0
  <2>1. r.kind = "window" => r.want > 0
    <3> SUFFICES ASSUME r.kind = "window" PROVE r.want > 0
      OBVIOUS
    <3> DEFINE start == SliceEnd(r.file)[r.slice - 1]
               from == Larger(r.woff, start)
               to == Smaller(r.woff + r.wlen, SliceEnd(r.file)[r.slice])
    <3>1. from \in Nat /\ to \in Nat /\ from < to /\ r.want = to - from
      BY InSliceFacts DEF Reading
    <3> HIDE DEF from, to
    <3> QED
      BY <3>1
  <2> QED
    BY <1>3, <2>1 DEF Reading
<1>6. FrameSlice(r) = Bytes(d, mid, end)
  <2> DEFINE from == SatSub(off, cum)
             to == Smaller(SatSub(hi, cum), len)
  <2>1. /\ from \in Nat /\ to \in Nat /\ from <= to /\ to <= len
        /\ cum + from = mid /\ cum + to = end
    BY <1>1, <1>2, <1>3, <1>b DEF SatSub, Smaller, Larger
  <2>2. FrameSlice(r) = Slice(FramePlaintext(d, f), from, to)
    BY DEF FrameSlice, d, f, hi, off, cum, len, S
  <2> HIDE DEF from, to, mid, end
  <2>3. Slice(FramePlaintext(d, f), from, to) = Bytes(d, cum + from, cum + to)
    BY SMTT(30), <1>1, <1>2, <2>1, SliceOfFrame DEF n, d, len, cum, S
  <2> QED
    BY <2>1, <2>2, <2>3
<1> HIDE DEF end, mid
<1>7. got = Bytes(d, off, end) /\ Len(got) = end - off
  <2>1. \A c \in Nat : mid <= c =>
          Bytes(d, off, mid) \o Bytes(d, mid, c) = Bytes(d, off, c)
    BY ZenonT(30), <1>1, <1>4, BytesFacts
  <2>2. got = Bytes(d, off, mid) \o Bytes(d, mid, end)
    BY <1>3, <1>6 DEF mid
  <2>3. got = Bytes(d, off, end)
    BY <1>4, <2>1, <2>2
  <2>4. Len(Bytes(d, off, end)) = end - off
    BY <1>1, <1>4, BytesFacts
  <2> QED
    BY <2>3, <2>4
<1>8. r.kind # "range" => FrameSlice(r) # <<>>
  <2> SUFFICES ASSUME r.kind # "range" PROVE FrameSlice(r) # <<>>
    OBVIOUS
  <2>1. mid < end
    BY <1>1, <1>2, <1>3, <1>5, <1>b DEF mid, end, Larger, Smaller
  <2>2. Len(Bytes(d, mid, end)) = end - mid
    BY <1>1, <1>4, BytesFacts
  <2> QED
    BY <1>4, <1>6, <2>1, <2>2
<1> DEFINE avail == Smaller(size - off, r.want)
           last == IF r.kind = "range" THEN top >= hi ELSE Len(got) >= avail
<1>9. q = IF last \/ f = n THEN Returned(r, got)
          ELSE [r EXCEPT !.pc = "frame", !.got = got, !.frame = f + 1]
  <2>1. TotalUncomp(d) = size
    BY <1>1 DEF TotalUncomp, S, n, d
  <2>2. (IF r.kind = "range" THEN cum + len >= hi
         ELSE FrameSlice(r) = <<>> \/ Len(got) >= avail) <=> last
    BY <1>2, <1>8
  <2> QED
    BY <2>1, <2>2 DEF FrameDone, d, off, f, hi, n, S, cum, len, size
<1>a. f = n => top = size
  BY <1>1 DEF top
<1>10. CASE last \/ f = n
  <2>1. end = Smaller(hi, size)
    <3>1. CASE r.kind = "range"
      BY <1>1, <1>2, <1>3, <1>10, <1>a, <3>1 DEF end, Smaller
    <3>2. CASE r.kind # "range"
      <4>1. CASE f = n
        BY <1>a, <4>1 DEF end
      <4>2. CASE Len(got) >= avail
        <5>1. end - off >= avail
          BY <1>7, <4>2
        <5> QED
          BY SMTT(30), <1>1, <1>2, <1>3, <1>4, <1>b, <5>1 DEF end, Smaller
      <4> QED
        BY <1>10, <3>2, <4>1, <4>2
    <3> QED
      BY <3>1, <3>2
  <2>2. /\ r.kind # "window" => ~ OutOfRange(r) /\ got = OfWhole(r)
        /\ r.kind = "window" => got = Bytes(r.drop, r.off, r.off + r.want)
    <3>1. got = Bytes(r.drop, r.off, Smaller(r.off + r.want, Size[r.drop]))
      BY <1>7, <2>1 DEF d, off, hi, size
    <3> HIDE DEF got
    <3> QED
      BY <1>3, <3>1, OwedBytes DEF off, size, hi, d
  <2> HIDE DEF got
  <2>3. ThreadInv(Returned(r, got))
    BY <2>2, ReturnedOK
  <2> QED
    BY <1>9, <1>10, <2>3
<1>11. CASE ~ (last \/ f = n)
  <2>1. top < hi
    <3>1. CASE r.kind = "range"
      BY <1>1, <1>2, <1>11, <3>1
    <3>2. CASE r.kind # "range"
      <4>1. ~ (end - off >= avail)
        BY <1>7, <1>11, <3>2
      <4> QED
        BY <1>1, <1>2, <1>3, <1>4, <1>b, <4>1 DEF end, Smaller
    <3> QED
      BY <3>1, <3>2
  <2>2. end = top /\ Larger(off, top) = top
    BY <1>1, <1>2, <1>3, <2>1 DEF end, Smaller, Larger
  <2> HIDE DEF got
  <2>3. q = [r EXCEPT !.pc = "frame", !.got = got, !.frame = f + 1]
    BY <1>9, <1>11
  <2>4. /\ IsThread(q) /\ q.pc = "frame" /\ q.got = got /\ q.frame = f + 1
        /\ q.kind = r.kind /\ q.off = r.off /\ q.want = r.want
        /\ q.drop = r.drop /\ q.ok = r.ok /\ q.file = r.file
        /\ q.slice = r.slice /\ q.woff = r.woff /\ q.wlen = r.wlen
        /\ q.out = r.out
    BY <2>3 DEF IsThread
  <2> HIDE DEF q
  <2>5. Reading(q)
    BY <2>4 DEF Reading, InSlice, IsWindow
  <2>6. f + 1 <= n => off < S[(f + 1) + 1]
    <3> SUFFICES ASSUME f + 1 <= n PROVE off < S[(f + 1) + 1]
      OBVIOUS
    <3>1. /\ S \in [1..(n + 1) -> Nat]
          /\ \A i, j \in 1..(n + 1) : i <= j => S[i] <= S[j]
      BY <1>1, StartsFacts DEF S, n, d
    <3>2. /\ f + 1 \in 1..(n + 1) /\ (f + 1) + 1 \in 1..(n + 1)
          /\ f + 1 <= (f + 1) + 1
      BY <1>2
    <3>3. S[f + 1] <= S[(f + 1) + 1] /\ S[(f + 1) + 1] \in Nat
      BY <3>1, <3>2
    <3> QED
      BY <1>1, <1>2, <1>3, <3>3 DEF top
  <2>7. AtFrame(q)
    <3>1. /\ Seekable(d) /\ r.kind \in {"range", "into", "window"}
      BY DEF AtFrame, d
    <3>2. got = Bytes(d, off, Larger(off, S[f + 1]))
      BY <1>7, <2>2 DEF top
    <3>3. S[f + 1] < hi
      BY <2>1 DEF top
    <3> QED
      BY <1>2, <1>3, <2>4, <2>6, <3>1, <3>2, <3>3
         DEF AtFrame, d, off, hi, n, S, size
  <2> QED
    BY <2>4, <2>5, <2>7 DEF ThreadInv, q
<1> QED
  BY <1>10, <1>11

\* A read that starts at the drop's end covers no frame.
LEMMA FrameNoneOK ==
  ASSUME NEW r, IsThread(r), Reading(r), AtFrame(r),
         r.frame > Len(FrameLens[r.drop])
  PROVE  ThreadInv(Returned(r, r.got))
<1> DEFINE n == Len(FrameLens[r.drop])
           size == Size[r.drop]
           total == Starts(r.drop)[n + 1]
<1>1. /\ r.drop \in Drops /\ size \in Nat /\ r.off \in Nat /\ r.want \in Nat
      /\ total = size /\ n \in Nat
  BY DropType, FrameLensType DEF Reading, IsThread, AtFrame, TotalUncomp
<1>2. r.frame = n + 1
  BY <1>1 DEF AtFrame
<1>3. /\ r.got = Bytes(r.drop, r.off, Larger(r.off, total))
      /\ total <= r.off \/ total < r.off + r.want
      /\ r.off <= size
      /\ r.kind \in {"range", "into", "window"}
      /\ r.kind = "range" => r.off + r.want <= size
  BY <1>2 DEF AtFrame
<1> HIDE DEF total, n
<1>4. Larger(r.off, total) = Smaller(r.off + r.want, size)
  BY <1>1, <1>3 DEF Larger, Smaller
<1>5. r.got = Bytes(r.drop, r.off, Smaller(r.off + r.want, Size[r.drop]))
  BY <1>3, <1>4
<1>6. /\ r.kind # "window" => ~ OutOfRange(r) /\ r.got = OfWhole(r)
      /\ r.kind = "window" => r.got = Bytes(r.drop, r.off, r.off + r.want)
  BY <1>3, <1>5, OwedBytes
<1> QED
  BY <1>6, ReturnedOK

\* The three outcomes of the loop head of read_window_into.
LEMMA NextSliceOK ==
  ASSUME NEW t \in Threads, ThreadInv(th[t]), NextSlice(t),
         th = [u \in Threads |-> th[u]]
  PROVE  ThreadInv(th'[t])
<1> DEFINE r == th[t]
           q == th'[t]
           n == Len(r.file)
           E == SliceEnd(r.file)
           start == E[r.slice - 1]
           end == E[r.slice]
           from == Larger(r.woff, start)
           to == Smaller(r.woff + r.wlen, end)
<1>1. r.pc = "slice" /\ IsThread(r) /\ AtSlice(r) /\ r.ok = TRUE
  BY DEF NextSlice, ThreadInv
<1>2. /\ r.kind = "window" /\ r.file \in Seq(Drops) /\ r.wlen > 0
      /\ r.slice \in 1..(n + 1) /\ start < r.woff + r.wlen
      /\ r.out = FileBytes(r.file, r.woff, from)
      /\ r.woff \in Nat /\ r.wlen \in Nat
  BY <1>1 DEF AtSlice, IsWindow, IsThread
<1>3. /\ n \in Nat /\ E \in [0..n -> Nat]
      /\ \A i \in 1..n : /\ r.file[i] \in Drops /\ Size[r.file[i]] \in Nat
                         /\ E[i] = E[i - 1] + Size[r.file[i]]
  BY <1>2, SliceEndFacts
<1>4. start \in Nat
  <2>1. r.slice - 1 \in 0..n
    BY <1>2, <1>3
  <2> QED
    BY <1>3, <2>1
<1>5. ASSUME r.slice <= n
      PROVE  /\ r.slice \in 1..n /\ end \in Nat /\ start <= end
             /\ r.file[r.slice] \in Drops
  <2>1. r.slice \in 1..n /\ r.slice \in 0..n
    BY <1>2, <1>3, <1>5
  <2>2. end = start + Size[r.file[r.slice]] /\ Size[r.file[r.slice]] \in Nat
    BY <1>3, <2>1
  <2> QED
    BY <1>3, <1>4, <2>1, <2>2
<1>6. ASSUME NEW rec, Set(t, rec) PROVE q = rec
  BY <1>6 DEF Set
<1>7. CASE r.slice > n /\ Set(t, [r EXCEPT !.pc = "done"])
  <2>1. q = [r EXCEPT !.pc = "done"]
    BY <1>6, <1>7
  <2> HIDE DEF q
  <2>2. /\ IsThread(q) /\ q.pc = "done" /\ q.ok = TRUE /\ q.kind = r.kind
        /\ q.file = r.file /\ q.woff = r.woff /\ q.wlen = r.wlen
        /\ q.out = r.out
    BY <1>1, <2>1 DEF IsThread
  <2>3. r.slice - 1 = n
    BY <1>2, <1>3, <1>7
  <2> DEFINE w == Smaller(SatSub(E[n], r.woff), r.wlen)
  <2>4. E[n] = start
    BY <2>3
  <2>5. from - r.woff = w
    <3> HIDE DEF start, E
    <3> QED
      BY <1>2, <1>4, <2>4 DEF Larger, Smaller, SatSub
  <2>6. Asked(q) = [k \in 1..w |-> FileByte(r.file, r.woff + k)]
    BY <1>2, <2>2 DEF Asked
  <2> HIDE DEF w, from
  <2>7. Asked(q) = r.out
    BY <1>2, <2>5, <2>6 DEF FileBytes
  <2> QED
    BY <1>2, <2>2, <2>7 DEF ThreadInv, IsExact, OutOfRange, q
<1>8. CASE /\ r.slice <= n
           /\ end <= r.woff \/ start >= r.woff + r.wlen \/ to = from
           /\ Set(t, [r EXCEPT !.slice = r.slice + 1])
  <2>1. q = [r EXCEPT !.slice = r.slice + 1]
    BY <1>6, <1>8
  <2> HIDE DEF q
  <2>2. /\ IsThread(q) /\ q.pc = "slice" /\ q.ok = TRUE /\ q.kind = "window"
        /\ q.file = r.file /\ q.woff = r.woff /\ q.wlen = r.wlen
        /\ q.out = r.out /\ q.slice = r.slice + 1
    BY <1>1, <1>2, <2>1 DEF IsThread
  <2>3. end \in Nat /\ start <= end /\ r.slice \in 1..n
    BY <1>5, <1>8
  <2>4. Larger(r.woff, end) = from /\ end < r.woff + r.wlen
    <3> HIDE DEF start, end
    <3> QED
      BY <1>2, <1>4, <1>8, <2>3 DEF Larger, Smaller
  <2>5. q.slice \in 1..(n + 1) /\ q.slice - 1 = r.slice
    BY <1>3, <2>2, <2>3
  <2> HIDE DEF from
  <2>6. AtSlice(q)
    BY <1>2, <2>2, <2>4, <2>5 DEF AtSlice, IsWindow
  <2> QED
    BY <2>2, <2>6 DEF ThreadInv, q
<1>9. CASE /\ r.slice <= n
           /\ ~ (end <= r.woff \/ start >= r.woff + r.wlen \/ to = from)
           /\ Set(t, [r EXCEPT !.pc = "lookup", !.drop = r.file[r.slice],
                               !.off = from - start, !.want = to - from])
  <2>1. q = [r EXCEPT !.pc = "lookup", !.drop = r.file[r.slice],
                      !.off = from - start, !.want = to - from]
    BY <1>6, <1>9
  <2>2. end \in Nat /\ start <= end /\ r.slice \in 1..n /\ r.file[r.slice] \in Drops
    BY <1>5, <1>9
  <2>3. /\ from < to /\ from - start \in Nat /\ to - from \in Nat
    <3> HIDE DEF start, end
    <3> QED
      BY <1>2, <1>4, <1>9, <2>2 DEF Larger, Smaller
  <2> HIDE DEF q, from, to
  <2>4. /\ IsThread(q) /\ q.pc = "lookup" /\ q.ok = TRUE /\ q.kind = "window"
        /\ q.file = r.file /\ q.woff = r.woff /\ q.wlen = r.wlen
        /\ q.out = r.out /\ q.slice = r.slice /\ q.drop = r.file[r.slice]
        /\ q.off = from - start /\ q.want = to - from
    BY <1>1, <1>2, <2>1, <2>3 DEF IsThread
  <2>5. InSlice(q)
    BY <1>2, <2>2, <2>3, <2>4 DEF InSlice, IsWindow, from, to
  <2> QED
    BY <2>2, <2>4, <2>5 DEF ThreadInv, Reading, q
<1> QED
  BY <1>7, <1>8, <1>9 DEF NextSlice

----------------------------------------------------------------------------
(* Steps of the store are steps of its two caches.                         *)

LEMMA FrameCacheAssumption ==
  /\ [k \in FrameKeys |-> FrameLens[k[1]][k[2]]] \in [FrameKeys -> Nat]
  /\ FrameCapacity \in Nat \ {0}
  /\ FrameBudget \in Nat
<1>1. ASSUME NEW k \in FrameKeys PROVE FrameLens[k[1]][k[2]] \in Nat
  <2>1. PICK d \in Drops : \E i \in DOMAIN FrameLens[d] : k = <<d, i>>
    BY DEF FrameKeys
  <2>2. PICK i \in DOMAIN FrameLens[d] : k = <<d, i>>
    BY <2>1
  <2>3. FrameLens[d] \in Seq(Nat \ {0})
    BY StoreAssumption
  <2>4. FrameLens[d][i] \in Nat
    BY <2>3
  <2> QED
    BY <2>2, <2>4
<1> QED
  BY <1>1, StoreAssumption

LEMMA DropCacheStep ==
  ASSUME CacheInv, [CacheNext]_cacheVars
  PROVE  CacheInv'
BY CacheInvStep

\* The two instances of SieveCache have their own copies of the library's
\* operators.
LEMMA SameCardinality ==
  ASSUME NEW e PROVE F!Cardinality(e) = FP!Cardinality(e)
BY DEF F!Cardinality, FP!Cardinality

LEMMA SameOverLimit ==
  ASSUME NEW e, NEW b PROVE F!OverLimit(e, b) = FP!OverLimit(e, b)
BY SameCardinality, Zenon DEF F!OverLimit, FP!OverLimit

LEMMA FrameCacheStep ==
  ASSUME FP!CacheInv,
         \/ UNCHANGED frameVars
         \/ \E k \in FrameKeys : F!Hit(k) \/ F!Miss(k) \/ F!Insert(k) \/ F!Bypass(k)
         \/ F!Evict
  PROVE  FP!CacheInv'
<1>a. ASSUME NEW e, NEW b PROVE F!OverLimit(e, b) = FP!OverLimit(e, b)
  BY SameOverLimit
<1>b. ASSUME NEW k PROVE F!Visit(k) = FP!Visit(k)
  BY DEF F!Visit, FP!Visit
<1>1. ASSUME UNCHANGED frameVars PROVE UNCHANGED FP!cacheVars
  BY <1>1 DEF frameVars, FP!cacheVars
<1>2. ASSUME NEW k \in FrameKeys, F!Hit(k) PROVE FP!CacheNext
  <2>1. FP!Hit(k)
    BY <1>2 DEF F!Hit, FP!Hit, F!Visit, FP!Visit
  <2> QED
    BY <2>1 DEF FP!CacheNext
<1>3. ASSUME NEW k \in FrameKeys, F!Miss(k) PROVE FP!CacheNext
  <2>1. FP!Miss(k)
    BY <1>3 DEF F!Miss, FP!Miss, F!cacheVars, FP!cacheVars
  <2> QED
    BY <2>1 DEF FP!CacheNext
<1>4. ASSUME NEW k \in FrameKeys, F!Insert(k) PROVE FP!CacheNext
  <2>1. FP!Insert(k)
    BY <1>4, <1>a, <1>b DEF F!Insert, FP!Insert
  <2> QED
    BY <2>1 DEF FP!CacheNext
<1>5. ASSUME NEW k \in FrameKeys, F!Bypass(k) PROVE FP!CacheNext
  <2>1. FP!Bypass(k)
    BY <1>5 DEF F!Bypass, FP!Bypass, F!cacheVars, FP!cacheVars
  <2> QED
    BY <2>1 DEF FP!CacheNext
<1>6. ASSUME F!Evict PROVE FP!CacheNext
  <2>1. FP!Evict
    BY <1>6, <1>a DEF F!Evict, FP!Evict
  <2> QED
    BY <2>1 DEF FP!CacheNext
<1>7. [FP!CacheNext]_(FP!cacheVars)
  BY <1>1, <1>2, <1>3, <1>4, <1>5, <1>6
<1> QED
  BY <1>7, FP!CacheInvStep, FrameCacheAssumption

LEMMA SetOK ==
  ASSUME th = [u \in Threads |-> th[u]], \A u \in Threads : ThreadInv(th[u]),
         NEW t \in Threads, NEW rec, Set(t, rec), ThreadInv(rec)
  PROVE  /\ th' = [u \in Threads |-> th'[u]]
         /\ \A u \in Threads : ThreadInv(th'[u])
<1>1. \A u \in Threads : th'[u] = IF u = t THEN rec ELSE th[u]
  BY DEF Set
<1>2. th' = [u \in Threads |-> th'[u]]
  BY DEF Set
<1>3. ASSUME NEW u \in Threads PROVE ThreadInv(th'[u])
  <2>1. CASE u = t
    BY <1>1, <2>1, Zenon
  <2>2. CASE u # t
    BY <1>1, <2>2, Zenon
  <2> QED
    BY <2>1, <2>2
<1> QED
  BY <1>2, <1>3

----------------------------------------------------------------------------
LEMMA IdleOK == IsThread(Idle)
BY DEF IsThread, Idle

LEMMA StoreInvInit == StoreInit => StoreInv
<1> SUFFICES ASSUME StoreInit PROVE StoreInv
  OBVIOUS
<1>1. CacheInv
  BY CacheInvInit DEF StoreInit
<1>2. FP!CacheInv
  <2>1. FP!CacheInit
    BY DEF StoreInit, F!CacheInit, FP!CacheInit
  <2> QED
    BY <2>1, FP!CacheInvInit, FrameCacheAssumption
<1>3. ThreadInv(Idle)
  BY IdleOK DEF ThreadInv, Idle
<1>4. th = [t \in Threads |-> Idle]
  BY DEF StoreInit
<1>5. \A t \in Threads : th[t] = Idle
  BY <1>4
<1>6. th = [t \in Threads |-> th[t]]
  BY <1>4
<1>7. \A t \in Threads : ThreadInv(th[t])
  BY <1>3, <1>5, Zenon
<1> QED
  BY <1>1, <1>2, <1>6, <1>7 DEF StoreInv

\* A call begins with an empty record of its kind.
LEMMA CallOK ==
  ASSUME StoreInv, NEW t \in Threads, Start(t)
  PROVE  /\ \E rec : Set(t, rec) /\ ThreadInv(rec)
         /\ UNCHANGED <<cacheVars, frameVars>>
<1>0. IsThread(Idle) /\ Idle.ok = TRUE
  BY IdleOK DEF Idle
<1>1. ASSUME NEW d \in Drops, CallDecoded(t, d)
      PROVE  /\ \E rec : Set(t, rec) /\ ThreadInv(rec)
             /\ UNCHANGED <<cacheVars, frameVars>>
  <2> DEFINE q == [Idle EXCEPT !.pc = "lookup", !.kind = "decoded", !.drop = d]
  <2>e. q = [Idle EXCEPT !.pc = "lookup", !.kind = "decoded", !.drop = d]
    OBVIOUS
  <2> HIDE DEF q
  <2>1. IsThread(q) /\ q.pc = "lookup" /\ Reading(q) /\ q.kind # "plaintext"
    BY <1>0, <2>e DEF IsThread, Reading
  <2>2. ThreadInv(q)
    BY <2>1 DEF ThreadInv
  <2> QED
    BY <1>1, <2>2 DEF CallDecoded, Call, q
<1>2. ASSUME NEW d \in Drops, CallPlaintext(t, d)
      PROVE  /\ \E rec : Set(t, rec) /\ ThreadInv(rec)
             /\ UNCHANGED <<cacheVars, frameVars>>
  <2> DEFINE q == [Idle EXCEPT !.pc = "decode", !.kind = "plaintext", !.drop = d]
  <2>e. q = [Idle EXCEPT !.pc = "decode", !.kind = "plaintext", !.drop = d]
    OBVIOUS
  <2> HIDE DEF q
  <2>1. IsThread(q) /\ q.pc = "decode" /\ Reading(q)
    BY <1>0, <2>e DEF IsThread, Reading
  <2>2. ThreadInv(q)
    BY <2>1 DEF ThreadInv
  <2> QED
    BY <1>2, <2>2 DEF CallPlaintext, Call, q
<1>3. ASSUME NEW d \in Drops, NEW off \in Offsets, NEW len \in Wants,
             CallRange(t, d, off, len)
      PROVE  /\ \E rec : Set(t, rec) /\ ThreadInv(rec)
             /\ UNCHANGED <<cacheVars, frameVars>>
  <2> DEFINE q == [Idle EXCEPT !.pc = "lookup", !.kind = "range", !.drop = d,
                               !.off = off, !.want = len]
  <2>e. q = [Idle EXCEPT !.pc = "lookup", !.kind = "range", !.drop = d,
                           !.off = off, !.want = len]
    OBVIOUS
  <2> HIDE DEF q
  <2>0. off \in Nat /\ len \in Nat
    BY StoreAssumption
  <2>1. IsThread(q) /\ q.pc = "lookup" /\ Reading(q) /\ q.kind # "plaintext"
    BY <1>0, <2>0, <2>e DEF IsThread, Reading
  <2>2. ThreadInv(q)
    BY <2>1 DEF ThreadInv
  <2> QED
    BY <1>3, <2>2 DEF CallRange, Call, q
<1>4. ASSUME NEW d \in Drops, NEW off \in Offsets, NEW want \in Wants,
             CallInto(t, d, off, want)
      PROVE  /\ \E rec : Set(t, rec) /\ ThreadInv(rec)
             /\ UNCHANGED <<cacheVars, frameVars>>
  <2> DEFINE q == [Idle EXCEPT !.pc = "lookup", !.kind = "into", !.drop = d,
                               !.off = off, !.want = want]
  <2>e. q = [Idle EXCEPT !.pc = "lookup", !.kind = "into", !.drop = d,
                           !.off = off, !.want = want]
    OBVIOUS
  <2> HIDE DEF q
  <2>0. off \in Nat /\ want \in Nat /\ want > 0
    BY <1>4, StoreAssumption DEF CallInto
  <2>1. IsThread(q) /\ q.pc = "lookup" /\ Reading(q) /\ q.kind # "plaintext"
    BY <1>0, <2>0, <2>e DEF IsThread, Reading
  <2>2. ThreadInv(q)
    BY <2>1 DEF ThreadInv
  <2> QED
    BY <1>4, <2>2 DEF CallInto, Call, q
<1>5. ASSUME NEW f \in Files, NEW off \in Offsets, NEW want \in Wants,
             CallWindow(t, f, off, want)
      PROVE  /\ \E rec : Set(t, rec) /\ ThreadInv(rec)
             /\ UNCHANGED <<cacheVars, frameVars>>
  <2> DEFINE q == [Idle EXCEPT !.pc = "slice", !.kind = "window", !.file = f,
                               !.slice = 1, !.woff = off, !.wlen = want]
  <2>e. q = [Idle EXCEPT !.pc = "slice", !.kind = "window", !.file = f,
                           !.slice = 1, !.woff = off, !.wlen = want]
    OBVIOUS
  <2> HIDE DEF q
  <2>0. /\ off \in Nat /\ want \in Nat /\ want > 0 /\ f \in Seq(Drops)
    BY <1>5, StoreAssumption DEF CallWindow
  <2>1. /\ IsThread(q) /\ q.pc = "slice" /\ q.ok = TRUE /\ q.kind = "window"
        /\ q.file = f /\ q.slice = 1 /\ q.woff = off /\ q.wlen = want
        /\ q.out = <<>>
    BY <1>0, <2>0, <2>e DEF IsThread, Idle
  <2>2. SliceEnd(f)[0] = 0 /\ Len(f) \in Nat
    BY <2>0, SliceEndFacts
  <2>3. /\ q.slice \in 1..(Len(f) + 1) /\ q.slice - 1 = 0
        /\ 0 < off + want /\ Larger(off, 0) = off
    BY <2>0, <2>1, <2>2 DEF Larger
  <2>4. FileBytes(f, off, off) = <<>>
    <3>1. off <= off
      BY <2>0
    <3> QED
      BY <2>0, <3>1, FileBytesFacts
  <2>5. AtSlice(q)
    BY <2>0, <2>1, <2>2, <2>3, <2>4 DEF AtSlice, IsWindow
  <2>6. ThreadInv(q)
    BY <2>1, <2>5 DEF ThreadInv
  <2> QED
    BY <1>5, <2>6 DEF CallWindow, Call, q
<1> QED
  BY <1>1, <1>2, <1>3, <1>4, <1>5 DEF Start

LEMMA StoreInvStep ==
  ASSUME StoreInv, [StoreNext]_storeVars
  PROVE  StoreInv'
<1>0. /\ CacheInv /\ FP!CacheInv
      /\ th = [u \in Threads |-> th[u]]
      /\ \A u \in Threads : ThreadInv(th[u])
  BY DEF StoreInv
<1>a. ASSUME NEW t \in Threads, NEW rec, Set(t, rec), ThreadInv(rec),
             CacheInv', FP!CacheInv'
      PROVE  StoreInv'
  <2>1. /\ th' = [u \in Threads |-> th'[u]]
        /\ \A u \in Threads : ThreadInv(th'[u])
    BY <1>0, <1>a, SetOK
  <2> QED
    BY <1>a, <2>1 DEF StoreInv
<1>b. UNCHANGED cacheVars => CacheInv'
  BY <1>0, DropCacheStep
<1>c. UNCHANGED frameVars => FP!CacheInv'
  BY <1>0, FrameCacheStep
<1>1. CASE UNCHANGED storeVars
  <2>1. UNCHANGED cacheVars /\ UNCHANGED frameVars /\ th' = th
    BY <1>1 DEF storeVars
  <2> QED
    BY <1>0, <1>b, <1>c, <2>1 DEF StoreInv
<1>2. ASSUME NEW t \in Threads, Start(t) PROVE StoreInv'
  <2>1. PICK rec : Set(t, rec) /\ ThreadInv(rec)
    BY <1>2, CallOK
  <2>2. UNCHANGED cacheVars /\ UNCHANGED frameVars
    BY <1>2, CallOK
  <2> QED
    BY <1>a, <1>b, <1>c, <2>1, <2>2
<1>3. ASSUME NEW t \in Threads, Step(t) PROVE StoreInv'
  <2> DEFINE r == th[t]
  <2>0. ThreadInv(r) /\ IsThread(r)
    BY <1>0 DEF ThreadInv
  <2>a. r.pc \in {"lookup", "decode", "evict"} => Reading(r)
    BY <2>0 DEF ThreadInv
  <2>b. r.pc \in {"frame", "frameDecode", "frameEvict"} =>
          Reading(r) /\ AtFrame(r)
    BY <2>0 DEF ThreadInv
  <2>c. r.pc \in {"frameDecode", "frameEvict"} =>
          r.frame <= Len(FrameLens[r.drop])
    BY <2>0 DEF ThreadInv
  <2>d. ASSUME Reading(r), AtFrame(r), r.frame <= Len(FrameLens[r.drop])
        PROVE  <<r.drop, r.frame>> \in FrameKeys
    <3>1. r.drop \in Drops /\ Len(FrameLens[r.drop]) \in Nat
      BY <2>d, FrameLensType DEF Reading
    <3>2. r.frame \in 1..Len(FrameLens[r.drop])
      BY <2>d, <3>1 DEF AtFrame
    <3> QED
      BY <3>1, <3>2, FrameLensType
  <2>1. CASE NextSlice(t)
    <3>1. ThreadInv(th'[t])
      BY <1>0, <2>0, <2>1, NextSliceOK
    <3>2. /\ UNCHANGED cacheVars /\ UNCHANGED frameVars
          /\ \E rec : Set(t, rec)
      BY <2>1 DEF NextSlice
    <3>3. PICK rec : Set(t, rec)
      BY <3>2
    <3>4. th'[t] = rec
      BY <1>0, <3>3 DEF Set
    <3> QED
      BY <1>a, <1>b, <1>c, <3>1, <3>2, <3>3, <3>4
  <2>2. CASE LookupHit(t)
    <3>1. r.pc = "lookup" /\ Hit(r.drop) /\ Set(t, FromWhole(r))
          /\ UNCHANGED frameVars
      BY <2>2 DEF LookupHit
    <3>2. ThreadInv(FromWhole(r)) /\ r.drop \in Keys
      BY <2>0, <2>a, <3>1, FromWholeOK DEF Reading, Drops
    <3>3. CacheInv'
      BY <1>0, <3>1, <3>2, DropCacheStep DEF CacheNext
    <3> QED
      BY <1>a, <1>c, <3>1, <3>2, <3>3
  <2>3. CASE LookupMiss(t)
    <3> DEFINE rec == IF Seekable(r.drop) /\ r.kind # "decoded"
                      THEN FramesFrom(r) ELSE [r EXCEPT !.pc = "decode"]
    <3>1. /\ r.pc = "lookup" /\ Miss(r.drop) /\ Set(t, rec)
          /\ UNCHANGED frameVars
      BY <2>3 DEF LookupMiss
    <3>2. Reading(r) /\ r.drop \in Keys
      BY <2>a, <3>1 DEF Reading, Drops
    <3>3. CacheInv'
      BY <1>0, <3>1, <3>2, DropCacheStep DEF CacheNext
    <3>4. r.kind # "plaintext"
      BY <2>0, <3>1 DEF ThreadInv
    <3>5. ThreadInv(rec)
      <4>1. CASE Seekable(r.drop) /\ r.kind # "decoded"
        <5>1. r.kind \in {"range", "into", "window"}
          BY <3>2, <3>4, <4>1 DEF Reading
        <5> QED
          BY <2>0, <3>2, <4>1, <5>1, FramesFromOK
      <4>2. CASE ~ (Seekable(r.drop) /\ r.kind # "decoded")
        <5> DEFINE q == [r EXCEPT !.pc = "decode"]
        <5>1. IsThread(q) /\ q.pc = "decode" /\ Reading(q)
          BY <2>0, <3>2 DEF IsThread, Reading, InSlice, IsWindow
        <5> HIDE DEF q
        <5>2. ThreadInv(q)
          BY <5>1 DEF ThreadInv
        <5> QED
          BY <4>2, <5>2 DEF q
      <4> QED
        BY <4>1, <4>2
    <3> QED
      BY <1>a, <1>c, <3>1, <3>3, <3>5
  <2>4. CASE InsertWhole(t)
    <3> DEFINE rec == IF evicting' THEN [r EXCEPT !.pc = "evict"]
                      ELSE FromWhole(r)
    <3>1. /\ r.pc = "decode" /\ (Insert(r.drop) \/ Bypass(r.drop))
          /\ Set(t, rec) /\ UNCHANGED frameVars
      BY <2>4 DEF InsertWhole
    <3>2. Reading(r) /\ r.drop \in Keys
      BY <2>a, <3>1 DEF Reading, Drops
    <3>3. CacheInv'
      BY <1>0, <3>1, <3>2, DropCacheStep DEF CacheNext
    <3>4. ThreadInv([r EXCEPT !.pc = "evict"])
      <4> DEFINE q == [r EXCEPT !.pc = "evict"]
      <4>1. IsThread(q) /\ q.pc = "evict" /\ Reading(q)
        BY <2>0, <3>2 DEF IsThread, Reading, InSlice, IsWindow
      <4> HIDE DEF q
      <4>2. ThreadInv(q)
        BY <4>1 DEF ThreadInv
      <4> QED
        BY <4>2 DEF q
    <3>5. ThreadInv(rec)
      BY <2>0, <3>2, <3>4, FromWholeOK
    <3> QED
      BY <1>a, <1>c, <3>1, <3>3, <3>5
  <2>5. CASE EvictWhole(t)
    <3> DEFINE rec == IF evicting' THEN r ELSE FromWhole(r)
    <3>1. /\ r.pc = "evict" /\ Evict /\ Set(t, rec) /\ UNCHANGED frameVars
      BY <2>5 DEF EvictWhole
    <3>2. CacheInv'
      BY <1>0, <3>1, DropCacheStep DEF CacheNext
    <3>3. ThreadInv(rec)
      BY <2>0, <2>a, <3>1, FromWholeOK
    <3> QED
      BY <1>a, <1>c, <3>1, <3>2, <3>3
  <2>6. CASE FrameNone(t)
    <3>1. /\ r.pc = "frame" /\ r.frame > Len(FrameLens[r.drop])
          /\ Set(t, Returned(r, r.got))
          /\ UNCHANGED cacheVars /\ UNCHANGED frameVars
      BY <2>6 DEF FrameNone
    <3>2. ThreadInv(Returned(r, r.got))
      BY <2>0, <2>b, <3>1, FrameNoneOK
    <3> QED
      BY <1>a, <1>b, <1>c, <3>1, <3>2
  <2>7. CASE FrameHit(t)
    <3>1. /\ r.pc = "frame" /\ r.frame <= Len(FrameLens[r.drop])
          /\ F!Hit(<<r.drop, r.frame>>)
          /\ Set(t, FrameDone(r)) /\ UNCHANGED cacheVars
      BY <2>7 DEF FrameHit
    <3>2. ThreadInv(FrameDone(r)) /\ <<r.drop, r.frame>> \in FrameKeys
      BY <2>0, <2>b, <2>d, <3>1, FrameDoneOK
    <3>3. FP!CacheInv'
      BY <1>0, <3>1, <3>2, FrameCacheStep
    <3> QED
      BY <1>a, <1>b, <3>1, <3>2, <3>3
  <2>8. CASE FrameMiss(t)
    <3> DEFINE q == [r EXCEPT !.pc = "frameDecode"]
    <3>1. /\ r.pc = "frame" /\ r.frame <= Len(FrameLens[r.drop])
          /\ F!Miss(<<r.drop, r.frame>>)
          /\ Set(t, q) /\ UNCHANGED cacheVars
      BY <2>8 DEF FrameMiss
    <3>2. Reading(r) /\ AtFrame(r) /\ <<r.drop, r.frame>> \in FrameKeys
      BY <2>b, <2>d, <3>1
    <3>3. FP!CacheInv'
      BY <1>0, <3>1, <3>2, FrameCacheStep
    <3>4. /\ IsThread(q) /\ q.pc = "frameDecode" /\ Reading(q) /\ AtFrame(q)
          /\ q.frame <= Len(FrameLens[q.drop])
      BY <2>0, <3>1, <3>2 DEF IsThread, Reading, InSlice, IsWindow, AtFrame
    <3>5. ThreadInv(q)
      <4> HIDE DEF q
      <4> QED
        BY <3>4 DEF ThreadInv
    <3> QED
      BY <1>a, <1>b, <3>1, <3>3, <3>5
  <2>9. CASE InsertFrame(t)
    <3> DEFINE k == <<r.drop, r.frame>>
               q == [r EXCEPT !.pc = "frameEvict"]
               rec == IF fevicting' THEN q ELSE FrameDone(r)
    <3>1. /\ r.pc = "frameDecode" /\ (F!Insert(k) \/ F!Bypass(k))
          /\ Set(t, rec) /\ UNCHANGED cacheVars
      BY <2>9 DEF InsertFrame
    <3>2. /\ Reading(r) /\ AtFrame(r) /\ r.frame <= Len(FrameLens[r.drop])
          /\ k \in FrameKeys
      BY <2>b, <2>c, <2>d, <3>1
    <3>3. FP!CacheInv'
      BY <1>0, <3>1, <3>2, FrameCacheStep
    <3>4. /\ IsThread(q) /\ q.pc = "frameEvict" /\ Reading(q) /\ AtFrame(q)
          /\ q.frame <= Len(FrameLens[q.drop])
      BY <2>0, <3>2 DEF IsThread, Reading, InSlice, IsWindow, AtFrame
    <3>5. ThreadInv(q)
      <4> HIDE DEF q
      <4> QED
        BY <3>4 DEF ThreadInv
    <3>6. ThreadInv(rec)
      <4> HIDE DEF q
      <4> QED
        BY <2>0, <3>2, <3>5, FrameDoneOK
    <3> QED
      BY <1>a, <1>b, <3>1, <3>3, <3>6
  <2>10. CASE EvictFrame(t)
    <3> DEFINE rec == IF fevicting' THEN r ELSE FrameDone(r)
    <3>1. /\ r.pc = "frameEvict" /\ F!Evict /\ Set(t, rec)
          /\ UNCHANGED cacheVars
      BY <2>10 DEF EvictFrame
    <3>2. FP!CacheInv'
      BY <1>0, <3>1, FrameCacheStep
    <3>3. ThreadInv(rec)
      BY <2>0, <2>b, <2>c, <3>1, FrameDoneOK
    <3> QED
      BY <1>a, <1>b, <3>1, <3>2, <3>3
  <2> QED
    BY <1>3, <2>1, <2>2, <2>3, <2>4, <2>5, <2>6, <2>7, <2>8, <2>9, <2>10
       DEF Step
<1> QED
  BY <1>1, <1>2, <1>3 DEF StoreNext, Finished

----------------------------------------------------------------------------
\* Both caches keep their map, queue and byte count in step, and their bounds
\* whenever their mutex is free, with any number of threads missing on the
\* same drop or frame at once (get, insert_entry and evict_until_fits called
\* by decoded_fetch_insert and the frame loop).
THEOREM CachesStayConsistent == StoreSpec => []CachesConsistent
<1>1. StoreInv /\ [StoreNext]_storeVars => StoreInv'
  BY StoreInvStep
<1>2. StoreInv => CachesConsistent
  <2> SUFFICES ASSUME StoreInv PROVE CachesConsistent
    OBVIOUS
  <2>1. CacheInv /\ FP!CacheInv
    BY DEF StoreInv
  <2>2. CacheTypeOK /\ OrderListsEntries /\ BytesAreSum /\ WithinBounds
    BY <2>1, CacheInvImplies
  <2>3. FP!CacheTypeOK /\ FP!OrderListsEntries /\ FP!BytesAreSum /\ FP!WithinBounds
    BY <2>1, FP!CacheInvImplies, FrameCacheAssumption
  <2>4. F!CacheTypeOK /\ F!OrderListsEntries
    BY <2>3 DEF F!CacheTypeOK, FP!CacheTypeOK, F!OrderListsEntries,
                FP!OrderListsEntries
  <2>5. F!BytesAreSum
    BY <2>3 DEF F!BytesAreSum, FP!BytesAreSum, F!MapThenSumSet,
                FP!MapThenSumSet, F!MapThenFoldSet, FP!MapThenFoldSet
  <2>6. F!WithinBounds
    BY <2>3, SameCardinality DEF F!WithinBounds, FP!WithinBounds
  <2> QED
    BY <2>2, <2>4, <2>5, <2>6 DEF CachesConsistent
<1> QED
  BY StoreInvInit, <1>1, <1>2, PTL DEF StoreSpec

\* decoded, plaintext_for, decoded_range, decoded_range_into and
\* read_window_into return exactly the bytes asked for, whatever other
\* threads cache and evict in between, and decoded_range fails exactly when
\* it is asked for bytes the drop does not have.
THEOREM ReadsAreExact == StoreSpec => []ReadIsExact
<1>1. StoreInv /\ [StoreNext]_storeVars => StoreInv'
  BY StoreInvStep
<1>2. StoreInv => ReadIsExact
  <2> SUFFICES ASSUME StoreInv, NEW t \in Threads, th[t].pc = "done",
                      ~ PastEnd(th[t])
               PROVE  /\ th[t].ok = ~ OutOfRange(th[t])
                      /\ th[t].ok => th[t].out = Asked(th[t])
    BY DEF ReadIsExact
  <2>1. IsExact(th[t])
    BY DEF StoreInv, ThreadInv
  <2> QED
    BY <2>1 DEF IsExact
<1> QED
  BY StoreInvInit, <1>1, <1>2, PTL DEF StoreSpec
============================================================================
