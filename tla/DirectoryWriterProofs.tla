----------------------- MODULE DirectoryWriterProofs -----------------------
(***************************************************************************)
(* Theorems about DirectoryWriter: for every tree, pool, channel capacity, *)
(* compress cache and set of unreadable files, the pipeline's outcome is   *)
(* the one of a sequential write.                                          *)
(***************************************************************************)
EXTENDS DirectoryWriter, SumLemmas, FiniteSetTheorems, SequenceTheorems

IsSeq(s) == s \in Seq(ToSet(s))

\* The files for the pool the walk has met so far.
Sent == PendingUpTo(survey)[pos - 1]

ChunksAt(at) == ToSet(survey[at].chunks)

\* The configurations of the process choose the same codecs.  The compress
\* caches outlive a write and are keyed by content alone, so without this a
\* write may take over a codec of an earlier configuration.
OneCodec == \A f, g \in Configs : f.codec = g.codec

\* The codecs chosen for chunks of the file at node `at` are the ones a
\* sequential write chooses.
CodecsOK(codec, at) ==
  OneCodec => \A c \in DOMAIN codec : codec[c] = CodecOf(cfg, Base, c, survey[at].kind)

FileOK(f) ==
  /\ f = [idx |-> f.idx, file |-> f.file, todo |-> f.todo, codec |-> f.codec]
  /\ f.todo \subseteq ChunksAt(f.file.at)
  /\ ChunksAt(f.file.at) \subseteq f.todo \cup DOMAIN f.codec
  /\ CodecsOK(f.codec, f.file.at)

ResultOK(r) ==
  /\ r = [idx |-> r.idx, file |-> r.file, ok |-> r.ok, codec |-> r.codec]
  /\ r.ok \in BOOLEAN
  /\ r.ok => /\ r.file.at \notin broken
             /\ ChunksAt(r.file.at) \subseteq DOMAIN r.codec
             /\ CodecsOK(r.codec, r.file.at)
  /\ ~r.ok => r.file.at \in broken

\* A file of the pool is the one the walk met at its arrival index.
Placed(f) == f.idx \in 0..(arrived - 1) /\ f.file.at = Sent[f.idx + 1]

PoolInv ==
  /\ arrived \in Nat /\ IsSeq(chan)
  /\ arrived + Len(chan) = Len(Sent)
  /\ \A k \in 1..Len(chan) : chan[k].at = Sent[arrived + k]
  /\ \A f \in inflight : Placed(f) /\ FileOK(f)
  /\ \A r \in results : Placed(r) /\ ResultOK(r)
  /\ \A f, g \in inflight : f.idx = g.idx => f = g
  /\ \A q, r \in results : q.idx = r.idx => q = r
  /\ \A f \in inflight, r \in results : f.idx # r.idx

\* Where the walk is, and what it has entered.
WalkInv ==
  /\ phase \in {"idle", "pipeline", "merge", "done"}
  /\ job \in Jobs /\ cfg \in Configs /\ survey \in Trees
  /\ pos \in 1..(Len(survey) + 1)
  /\ sink \in {"open", "closed"} /\ walk \in {"running", "ok", "err"}
  /\ job = "directory" => Len(chan) <= Capacity
  /\ \A j \in 1..(pos - 1) : ~WalkFailsAt(j)
  /\ walk = "ok" => pos = Len(survey) + 1
  /\ walk = "err" => pos <= Len(survey) /\ WalkFailsAt(pos)
  /\ job = "layer" /\ walk # "ok" => arrived = 0

IsContext(c) ==
  c = [next |-> c.next, stack |-> c.stack, links |-> c.links, nlink |-> c.nlink,
       inodes |-> c.inodes, drops |-> c.drops]

\* The files among the first n nodes, by their inode numbers in the tree.
Inos(tree, n) == {tree[j].ino : j \in {j \in 1..n : tree[j].kind \in FileKinds}}

ContextInv ==
  /\ IsContext(ctx)
  /\ DOMAIN ctx.links = Inos(survey, pos - 1)
  /\ IsSeq(ctx.inodes)

\* m files are merged: their drops are the sequential ones and their inodes
\* follow those of the walk.
Merged(m) ==
  /\ m \in 0..arrived
  /\ \A r \in results : m <= r.idx
  /\ \A k \in m..(arrived - 1) : \E r \in results : r.idx = k
  /\ \A k \in 1..m : PendingFiles[k] \notin broken
  /\ OneCodec => ctx.drops = DropsUpTo(survey, PendingFiles, cfg, Base)[m]
  /\ m <= Len(ctx.inodes)
  /\ \A i \in 1..(Len(ctx.inodes) - m) : ctx.inodes[i].content.kind # "drops"
  /\ \A k \in 1..m : ctx.inodes[Len(ctx.inodes) - m + k].content =
                       [kind |-> "drops", chunks |-> survey[PendingFiles[k]].chunks]

PhaseInv ==
  /\ phase # "pipeline" => inflight = {}
  /\ phase = "pipeline" =>
       /\ \A k \in 0..(arrived - 1) : \E f \in inflight \cup results : f.idx = k
       /\ ctx.drops = <<>>
       /\ \A i \in 1..Len(ctx.inodes) : ctx.inodes[i].content.kind # "drops"
  /\ phase = "merge" => walk = "ok" /\ chan = <<>> /\ \E m \in 0..arrived : Merged(m)
  /\ phase = "done" /\ OneCodec => SameAsSequential

CacheInv ==
  /\ cache = [w \in Workers |-> cache[w]]
  /\ \A w \in Workers : /\ DOMAIN cache[w] \subseteq Chunks
                        /\ IsFiniteSet(DOMAIN cache[w])
                        /\ Cardinality(DOMAIN cache[w]) <= CacheMax

\* A cached codec is the one every configuration of the process would choose.
CodecInv ==
  OneCodec =>
    \A w \in Workers : \A c \in DOMAIN cache[w] : \A g \in Configs : cache[w][c] = g.codec[c]

WriterInv == PoolInv /\ WalkInv /\ ContextInv /\ PhaseInv /\ CacheInv /\ CodecInv

----------------------------------------------------------------------------
(* The reference: files and drops of a sequential write.                   *)

LEMMA TreeFacts ==
  ASSUME NEW t \in Trees
  PROVE  /\ t \in Seq(ToSet(t)) /\ Len(t) \in Nat /\ DOMAIN t = 1..Len(t)
         /\ \A i \in 1..Len(t) : t[i].chunks \in Seq(Chunks)
BY WriterAssumption

\* What is sent is a sequence of the nodes met, and grows with them.
LEMMA PendingFacts ==
  ASSUME NEW t \in Trees
  PROVE  /\ PendingUpTo(t)[0] = <<>>
         /\ \A n \in 1..Len(t) :
              PendingUpTo(t)[n] = IF NewFileAt(t, n) /\ t[n].kind \in Large
                               THEN Append(PendingUpTo(t)[n - 1], n) ELSE PendingUpTo(t)[n - 1]
         /\ \A n \in 0..Len(t) : PendingUpTo(t)[n] \in Seq(1..Len(t))
<1> DEFINE L == Len(t)
           Is(n) == NewFileAt(t, n) /\ t[n].kind \in Large
           S == Seq(1..L)
           g == [p \in S \X (1..L) |-> IF Is(p[2]) THEN Append(p[1], p[2]) ELSE p[1]]
           Fix(f) == f = [n \in 0..L |-> IF n = 0 THEN <<>>
                                          ELSE IF Is(n) THEN Append(f[n - 1], n) ELSE f[n - 1]]
           it == CHOOSE f : Fix(f)
<1>1. L \in Nat
  BY TreeFacts
<1>2. PendingUpTo(t) = it
  BY DEF PendingUpTo
<1> HIDE DEF L, Is
<1>3. <<>> \in S /\ \A x \in S, k \in 1..L : Append(x, k) \in S
  OBVIOUS
<1> HIDE DEF S
<1>4. g \in [S \X (1..L) -> S] /\ <<>> \in S
      /\ \A x \in S, k \in 1..L : g[<<x, k>>] = IF Is(k) THEN Append(x, k) ELSE x
  BY <1>3
<1> HIDE DEF g
<1>5. PICK f \in [0..L -> S] : f[0] = <<>> /\ \A k \in 1..L : f[k] = g[<<f[k - 1], k>>]
  <2> DEFINE nil == <<>>
  <2>1. g \in [S \X (1..L) -> S] /\ nil \in S
    BY <1>4
  <2> HIDE DEF nil
  <2>2. \E f \in [0..L -> S] : Recursion(f, L, nil, g)
    BY <1>1, <2>1, RecursionExists
  <2> QED
    BY <2>2 DEF nil, Recursion
<1>6. ASSUME NEW k \in 1..L PROVE f[k - 1] \in S /\ f[k] = IF Is(k) THEN Append(f[k - 1], k) ELSE f[k - 1]
  <2>1. k - 1 \in 0..L
    BY <1>1
  <2> QED
    BY <1>4, <1>5, <2>1
<1>7. Fix(f)
  <2> DEFINE h == [n \in 0..L |-> IF n = 0 THEN <<>> ELSE IF Is(n) THEN Append(f[n - 1], n) ELSE f[n - 1]]
  <2>1. ASSUME NEW n \in 0..L PROVE f[n] = h[n]
    <3>1. CASE n = 0
      BY <1>5, <3>1
    <3>2. CASE n # 0
      <4>1. n \in 1..L
        BY <1>1, <3>2
      <4> QED
        BY <1>6, <3>2, <4>1
    <3> QED
      BY <3>1, <3>2
  <2> HIDE DEF h
  <2>2. f = [n \in 0..L |-> f[n]] /\ h = [n \in 0..L |-> h[n]]
    BY <1>5 DEF h
  <2>3. f = h
    BY <2>1, <2>2
  <2> QED
    BY <2>3 DEF h
<1>8. Fix(it)
  BY <1>7
<1> HIDE DEF it
<1>9. /\ it[0] = <<>>
      /\ \A n \in 1..L : it[n] = IF Is(n) THEN Append(it[n - 1], n) ELSE it[n - 1]
  <2>1. 0 \in 0..L /\ \A n \in 1..L : n \in 0..L /\ n # 0
    BY <1>1
  <2> QED
    BY <1>8, <2>1
<1>10. \A n \in 0..L : it[n] = f[n]
  <2>1. \A k \in 1..L : it[k - 1] = f[k - 1] => it[k] = f[k]
    BY <1>6, <1>9
  <2>2. it[0] = f[0]
    BY <1>5, <1>9
  <2> QED
    BY ZenonT(60), <1>1, <2>1, <2>2, RecursionIsUnique
<1>11. \A n \in 0..L : it[n] \in S
  BY <1>5, <1>10
<1> QED
  BY <1>2, <1>9, <1>11 DEF L, S, Is

\* The new chunks of a file are chunks of it.
LEMMA NewChunksFacts ==
  ASSUME NEW C, NEW chunks \in Seq(C), NEW drops
  PROVE  NewChunks(chunks, drops) \in Seq(ToSet(chunks))
<1> DEFINE n == Len(chunks)
           D == DOMAIN chunks
           ids == {drops[i].id : i \in DOMAIN drops}
           S == Seq(ToSet(chunks))
           Op(u, c) == IF c \in ToSet(u) \cup ids THEN u ELSE Append(u, c)
           g == [p \in S \X (1..n) |-> Op(p[1], chunks[p[2]])]
           Fix(f) == f = [s \in SUBSET D |-> IF s = {} THEN <<>> ELSE Op(f[s \ {Max(s)}], chunks[Max(s)])]
           it == CHOOSE f : Fix(f)
           nil == <<>>
<1>1. n \in Nat /\ D = 1..n
  OBVIOUS
<1>2. NewChunks(chunks, drops) = it[D]
  BY DEF NewChunks, FoldLeft, MapThenFoldSet
<1>3. nil \in S /\ \A u \in S, k \in 1..n : Op(u, chunks[k]) \in S
  <2>1. \A k \in 1..n : chunks[k] \in ToSet(chunks)
    BY <1>1 DEF ToSet
  <2>2. \A u \in S, k \in 1..n : Append(u, chunks[k]) \in S
    BY <2>1
  <2> QED
    BY <2>2
<1> HIDE DEF n, D, ids, S, Op
<1>4. g \in [S \X (1..n) -> S] /\ \A u \in S, k \in 1..n : g[<<u, k>>] = Op(u, chunks[k])
  BY <1>3
<1>5. \E f : Fix(f)
  <2>0. g \in [S \X (1..n) -> S] /\ nil \in S
    BY <1>3, <1>4
  <2> HIDE DEF g, nil
  <2>1. PICK f \in [SUBSET (1..n) -> S] : FoldsTo(f, n, nil, g)
    BY <1>1, <2>0, FoldExists
  <2>2. ASSUME NEW s \in SUBSET (1..n), s # {}
        PROVE  g[<<f[s \ {Max(s)}], Max(s)>>] = Op(f[s \ {Max(s)}], chunks[Max(s)])
    <3>1. Max(s) \in 1..n /\ s \ {Max(s)} \in SUBSET (1..n)
      BY <1>1, <2>2, MaxIndex
    <3>2. f[s \ {Max(s)}] \in S
      BY <2>1, <3>1
    <3> QED
      BY <1>4, <3>1, <3>2
  <2>3. Fix(f)
    <3>1. f = [s \in SUBSET D |-> IF s = {} THEN nil ELSE Op(f[s \ {Max(s)}], chunks[Max(s)])]
      BY <1>1, <2>1, <2>2 DEF FoldsTo
    <3> QED
      BY <3>1 DEF nil
  <2> QED
    BY <2>3
<1>6. Fix(it)
  BY <1>5
<1> HIDE DEF it
<1>7. it[{}] \in S
  BY <1>3, <1>6
<1>8. ASSUME NEW s \in SUBSET (1..n), s # {}, it[s \ {Max(s)}] \in S PROVE it[s] \in S
  <2>1. Max(s) \in 1..n
    BY <1>1, <1>8, MaxIndex
  <2>2. it[s] = Op(it[s \ {Max(s)}], chunks[Max(s)])
    BY <1>1, <1>6, <1>8
  <2> QED
    BY <1>3, <1>8, <2>1, <2>2
<1>9. \A s \in SUBSET (1..n) : it[s] \in S
  BY <1>1, <1>7, <1>8, FoldTyped
<1>10. it[D] \in S
  BY <1>1, <1>9
<1> QED
  BY <1>2, <1>10 DEF S

\* The drops file n adds to those of the files before it.
Adds(t, at, config, base, drops) ==
  LET new == NewChunks(t[at].chunks, drops)
  IN [i \in DOMAIN new |->
        MakeDrop(config, new[i], CodecOf(config, base, new[i], t[at].kind), t[at].kind)]

AddsUp(D, t, files, config, base) ==
  /\ D[0] = <<>>
  /\ \A n \in 1..Len(files) : D[n] = D[n - 1] \o Adds(t, files[n], config, base, D[n - 1])

LEMMA DropsFacts ==
  ASSUME NEW t \in Trees, NEW files \in Seq(1..Len(t)), NEW config, NEW base
  PROVE  AddsUp(DropsUpTo(t, files, config, base), t, files, config, base)
<1> DEFINE L == Len(files)
           R == {MakeDrop(config, c, CodecOf(config, base, c, t[i].kind), t[i].kind) :
                   c \in Chunks, i \in 1..Len(t)}
           S == Seq(R)
           A(n, x) == Adds(t, files[n], config, base, x)
           g == [p \in S \X (1..L) |-> p[1] \o A(p[2], p[1])]
           Fix(f) == f = [n \in 0..L |-> IF n = 0 THEN <<>> ELSE f[n - 1] \o A(n, f[n - 1])]
           it == CHOOSE f : Fix(f)
           nil == <<>>
<1>1. L \in Nat /\ nil \in S
  OBVIOUS
<1>2. DropsUpTo(t, files, config, base) = it
  BY DEF DropsUpTo, Adds
<1>3. ASSUME NEW x, NEW n \in 1..L PROVE A(n, x) \in S
  <2> DEFINE at == files[n]
             new == NewChunks(t[at].chunks, x)
  <2>1. at \in 1..Len(t) /\ t[at].chunks \in Seq(Chunks)
    BY TreeFacts
  <2>2. new \in Seq(ToSet(t[at].chunks)) /\ ToSet(t[at].chunks) \subseteq Chunks
    BY <2>1, NewChunksFacts DEF ToSet
  <2> HIDE DEF new, at
  <2>3. new \in Seq(Chunks)
    BY <2>2
  <2>4. DOMAIN new = 1..Len(new) /\ Len(new) \in Nat /\ \A i \in 1..Len(new) : new[i] \in Chunks
    BY <2>3
  <2> DEFINE h == [i \in 1..Len(new) |->
                     MakeDrop(config, new[i], CodecOf(config, base, new[i], t[at].kind), t[at].kind)]
  <2>5. A(n, x) = h
    BY <2>4 DEF Adds, new, at
  <2>6. \A i \in 1..Len(new) : h[i] \in R
    BY <2>1, <2>4
  <2> HIDE DEF R
  <2>7. h \in [1..Len(new) -> R]
    BY <2>6
  <2> HIDE DEF h
  <2>8. h \in Seq(R)
    BY <2>4, <2>7
  <2> QED
    BY <2>5, <2>8
<1> HIDE DEF L, A, R
<1>4. \A x \in S, n \in 1..L : x \o A(n, x) \in S
  BY <1>3
<1> HIDE DEF S
<1>5. g \in [S \X (1..L) -> S] /\ \A x \in S, n \in 1..L : g[<<x, n>>] = x \o A(n, x)
  BY <1>4
<1>6. \E f : Fix(f)
  <2>0. g \in [S \X (1..L) -> S]
    BY <1>5
  <2> HIDE DEF g, nil
  <2>1. PICK f \in [0..L -> S] : Recursion(f, L, nil, g)
    BY <1>1, <2>0, RecursionExists
  <2>2. ASSUME NEW n \in 1..L PROVE f[n] = f[n - 1] \o A(n, f[n - 1])
    <3>1. n - 1 \in 0..L
      BY <1>1
    <3>2. f[n] = g[<<f[n - 1], n>>]
      BY <2>1 DEF Recursion
    <3> QED
      BY <1>5, <2>1, <3>1, <3>2
  <2> DEFINE h == [n \in 0..L |-> IF n = 0 THEN nil ELSE f[n - 1] \o A(n, f[n - 1])]
  <2>3. ASSUME NEW n \in 0..L PROVE f[n] = h[n]
    <3>1. CASE n = 0
      BY <2>1, <3>1 DEF Recursion
    <3>2. CASE n # 0
      <4>1. n \in 1..L
        BY <1>1, <3>2
      <4> QED
        BY <2>2, <3>2, <4>1
    <3> QED
      BY <3>1, <3>2
  <2> HIDE DEF h
  <2>4. f = [n \in 0..L |-> f[n]] /\ h = [n \in 0..L |-> h[n]]
    BY <2>1 DEF h
  <2>5. f = h
    BY <2>3, <2>4
  <2> QED
    BY <2>5 DEF h, nil
<1>7. Fix(it)
  BY <1>6
<1> HIDE DEF it
<1>8. it[0] = <<>> /\ \A n \in 1..L : it[n] = it[n - 1] \o A(n, it[n - 1])
  <2>1. 0 \in 0..L /\ \A n \in 1..L : n \in 0..L /\ n # 0
    BY <1>1
  <2> QED
    BY <1>7, <2>1
<1> QED
  BY <1>2, <1>8 DEF L, A, AddsUp

----------------------------------------------------------------------------
(* The context of the walk.                                                *)

LEMMA EnteredFacts ==
  ASSUME NEW c, IsContext(c), NEW at, NEW num
  PROVE  LET e == Entered(c, at, num)
         IN IsContext(e) /\ e.links = c.links /\ e.inodes = c.inodes /\ e.drops = c.drops /\ e.next = c.next
<1>1. CASE c.stack = <<>>
  BY <1>1 DEF Entered
<1>2. CASE c.stack # <<>>
  <2> DEFINE st == [c.stack EXCEPT ![Len(c.stack)].entries = Append(@, [name |-> at, num |-> num])]
  <2>1. Entered(c, at, num) = [c EXCEPT !.stack = st]
    BY <1>2 DEF Entered
  <2> HIDE DEF st
  <2> QED
    BY <2>1 DEF IsContext
<1> QED
  BY <1>1, <1>2

LEMMA PushedFacts ==
  ASSUME NEW c, IsContext(c), IsSeq(c.inodes), NEW num, NEW content
  PROVE  LET p == Pushed(c, num, content)
         IN /\ IsContext(p) /\ p.links = c.links /\ p.drops = c.drops
            /\ IsSeq(p.inodes) /\ Len(p.inodes) = Len(c.inodes) + 1
            /\ \A i \in 1..Len(c.inodes) : p.inodes[i] = c.inodes[i]
            /\ p.inodes[Len(c.inodes) + 1].content = content
<1> DEFINE new == [num |-> num, content |-> content]
           s == Append(c.inodes, new)
           T == ToSet(c.inodes) \cup {new}
<1>1. Pushed(c, num, content) = [c EXCEPT !.inodes = s]
  BY DEF Pushed
<1>2. c.inodes \in Seq(T) /\ new \in T
  BY DEF IsSeq
<1>3. new.content = content
  OBVIOUS
<1> HIDE DEF new
<1>4. /\ s \in Seq(T) /\ Len(s) = Len(c.inodes) + 1 /\ Len(c.inodes) \in Nat
      /\ \A i \in 1..Len(c.inodes) : s[i] = c.inodes[i]
      /\ s[Len(c.inodes) + 1] = new
  BY <1>2
<1> HIDE DEF s, T
<1>5. IsSeq(s)
  <2>1. DOMAIN s = 1..Len(s) /\ s = [i \in 1..Len(s) |-> s[i]]
    BY <1>4
  <2>2. s \in [1..Len(s) -> ToSet(s)]
    BY <2>1 DEF ToSet
  <2>3. Len(s) \in Nat
    BY <1>4
  <2> QED
    BY <2>2, <2>3 DEF IsSeq
<1> QED
  BY <1>1, <1>3, <1>4, <1>5 DEF IsContext

\* The links tell a file that was met from a new one.
LEMMA LinksFacts ==
  ASSUME WalkInv, ContextInv, Folding
  PROVE  /\ NewFile <=> NewFileAt(survey, pos)
         /\ pos \in 1..Len(survey) /\ Len(survey) \in Nat
         /\ Inos(survey, pos) = Inos(survey, pos - 1)
              \cup (IF Node.kind \in FileKinds THEN {Node.ino} ELSE {})
<1>1. survey \in Trees /\ pos \in 1..(Len(survey) + 1) /\ pos <= Len(survey)
  BY DEF WalkInv, Folding
<1>2. Len(survey) \in Nat
  BY <1>1, TreeFacts
<1>3. pos \in 1..Len(survey)
  BY <1>1, <1>2
<1>4. NewFile <=> NewFileAt(survey, pos)
  <2>1. NewFile <=> survey[pos].kind \in FileKinds /\ survey[pos].ino \notin Inos(survey, pos - 1)
    BY DEF NewFile, Node, ContextInv
  <2> QED
    BY <2>1 DEF Inos, NewFileAt
<1>5. 1..pos = 1..(pos - 1) \cup {pos}
  BY <1>3
<1>6. Inos(survey, pos) = Inos(survey, pos - 1) \cup (IF Node.kind \in FileKinds THEN {Node.ino} ELSE {})
  BY <1>5 DEF Inos, Node
<1> QED
  BY <1>2, <1>3, <1>4, <1>6

----------------------------------------------------------------------------
(* A step of the walk.                                                     *)

\* A sequence with one more element.
LEMMA AppendSeq ==
  ASSUME NEW s, IsSeq(s), NEW x
  PROVE  /\ IsSeq(Append(s, x)) /\ Len(s) \in Nat /\ Len(Append(s, x)) = Len(s) + 1
         /\ \A i \in 1..Len(s) : Append(s, x)[i] = s[i]
         /\ Append(s, x)[Len(s) + 1] = x
<1> DEFINE T == ToSet(s) \cup {x}
           a == Append(s, x)
<1>1. s \in Seq(T) /\ x \in T
  BY DEF IsSeq
<1> HIDE DEF T
<1>2. /\ a \in Seq(T) /\ Len(a) = Len(s) + 1 /\ Len(s) \in Nat
      /\ \A i \in 1..Len(s) : a[i] = s[i]
      /\ a[Len(s) + 1] = x
  BY <1>1
<1> HIDE DEF a
<1>3. DOMAIN a = 1..Len(a) /\ a = [i \in 1..Len(a) |-> a[i]] /\ Len(a) \in Nat
  BY <1>2
<1>4. a \in [1..Len(a) -> ToSet(a)]
  BY <1>3 DEF ToSet
<1>5. IsSeq(a)
  BY <1>3, <1>4 DEF IsSeq
<1> QED
  BY <1>2, <1>5 DEF a

\* What is sent in the step, if anything.
Sends ==
  IF NewFileAt(survey, pos) /\ survey[pos].kind \in Large
  THEN (job = "directory" => Len(chan) < Capacity)
       /\ \E num : chan' = Append(chan, [num |-> num, at |-> pos])
  ELSE chan' = chan

LEMMA SentFacts ==
  ASSUME WalkInv, Folding, survey' = survey, pos' = pos + 1
  PROVE  /\ Sent \in Seq(1..Len(survey)) /\ Len(Sent) \in Nat
         /\ Sent' = IF NewFileAt(survey, pos) /\ survey[pos].kind \in Large THEN Append(Sent, pos) ELSE Sent
<1>1. survey \in Trees /\ pos \in 1..(Len(survey) + 1) /\ pos <= Len(survey)
  BY DEF WalkInv, Folding
<1>2. Len(survey) \in Nat
  BY <1>1, TreeFacts
<1>3. pos \in 1..Len(survey) /\ pos - 1 \in 0..Len(survey)
  BY <1>1, <1>2
<1>4. Sent' = PendingUpTo(survey)[pos]
  <2>1. Sent' = PendingUpTo(survey')[pos' - 1]
    BY DEF Sent
  <2>2. pos' - 1 = pos
    BY <1>3
  <2> QED
    BY <2>1, <2>2
<1>5. Sent \in Seq(1..Len(survey))
  BY <1>1, <1>3, PendingFacts DEF Sent
<1>6. PendingUpTo(survey)[pos] =
        IF NewFileAt(survey, pos) /\ survey[pos].kind \in Large THEN Append(Sent, pos) ELSE Sent
  BY <1>1, <1>3, PendingFacts DEF Sent
<1> QED
  BY <1>4, <1>5, <1>6

\* The file of a record stays where it is when the records of the same tree,
\* base and configuration are looked at.
LEMMA RecordsKeep ==
  ASSUME UNCHANGED <<survey, cfg, job, broken>>
  PROVE  /\ \A f : FileOK(f) => FileOK(f)'
         /\ \A r : ResultOK(r) => ResultOK(r)'
<1>1. Base' = Base
  BY DEF Base
<1>2. \A codec, at : CodecsOK(codec, at) => CodecsOK(codec, at)'
  BY <1>1 DEF CodecsOK
<1>3. \A at : ChunksAt(at)' = ChunksAt(at)
  BY DEF ChunksAt
<1> QED
  BY <1>2, <1>3 DEF FileOK, ResultOK

LEMMA PoolAdvances ==
  ASSUME PoolInv, WalkInv, Folding, pos' = pos + 1, Sends,
         UNCHANGED <<job, cfg, survey, broken, arrived, inflight, results>>
  PROVE  PoolInv' /\ (job = "directory" => Len(chan') <= Capacity)
<1> DEFINE pending == NewFileAt(survey, pos) /\ survey[pos].kind \in Large
<1>1. /\ Sent \in Seq(1..Len(survey)) /\ Len(Sent) \in Nat
      /\ Sent' = IF pending THEN Append(Sent, pos) ELSE Sent
  BY SentFacts
<1>2. /\ arrived \in Nat /\ IsSeq(chan) /\ arrived + Len(chan) = Len(Sent) /\ Len(chan) \in Nat
      /\ \A k \in 1..Len(chan) : chan[k].at = Sent[arrived + k]
  BY AppendSeq DEF PoolInv
<1>3. /\ Len(Sent') = Len(Sent) + (IF pending THEN 1 ELSE 0)
      /\ \A k \in 1..Len(Sent) : Sent'[k] = Sent[k]
      /\ pending => Sent'[Len(Sent) + 1] = pos
  <2>1. CASE pending
    <3>1. pos \in Nat
      BY TreeFacts DEF WalkInv
    <3>2. Sent \in Seq(Nat)
      BY <1>1
    <3> QED
      BY <1>1, <2>1, <3>1, <3>2
  <2>2. CASE ~pending
    BY <1>1, <2>2
  <2> QED
    BY <2>1, <2>2
<1>4. /\ IsSeq(chan') /\ arrived + Len(chan') = Len(Sent')
      /\ \A k \in 1..Len(chan') : chan'[k].at = Sent'[arrived + k]
      /\ job = "directory" => Len(chan') <= Capacity
  <2>1. CASE ~pending
    <3>1. chan' = chan
      BY <2>1 DEF Sends
    <3>2. \A k \in 1..Len(chan) : arrived + k \in 1..Len(Sent)
      BY <1>2
    <3>3. job = "directory" => Len(chan') <= Capacity
      BY <3>1 DEF WalkInv
    <3> QED
      BY <1>2, <1>3, <2>1, <3>1, <3>2, <3>3
  <2>2. CASE pending
    <3>1. PICK num : chan' = Append(chan, [num |-> num, at |-> pos])
      BY <2>2 DEF Sends
    <3>0. job = "directory" => Len(chan) < Capacity
      BY <2>2 DEF Sends
    <3> DEFINE x == [num |-> num, at |-> pos]
    <3>2. x.at = pos
      OBVIOUS
    <3> HIDE DEF x
    <3>3. chan' = Append(chan, x)
      BY <3>1 DEF x
    <3>4. /\ IsSeq(chan') /\ Len(chan') = Len(chan) + 1
          /\ \A k \in 1..Len(chan) : chan'[k] = chan[k]
          /\ chan'[Len(chan) + 1] = x
      BY <1>2, <3>3, AppendSeq
    <3>5. ASSUME NEW k \in 1..Len(chan') PROVE chan'[k].at = Sent'[arrived + k]
      <4>1. CASE k = Len(chan) + 1
        <5>1. arrived + k = Len(Sent) + 1
          BY <1>2, <4>1
        <5> QED
          BY <1>3, <2>2, <3>2, <3>4, <4>1, <5>1
      <4>2. CASE k # Len(chan) + 1
        <5>1. k \in 1..Len(chan) /\ arrived + k \in 1..Len(Sent)
          BY <1>2, <3>4, <4>2
        <5> QED
          BY <1>2, <1>3, <3>4, <5>1
      <4> QED
        BY <4>1, <4>2
    <3>6. job = "directory" => Len(chan') <= Capacity
      BY <1>2, <3>0, <3>4, WriterAssumption
    <3>7. arrived + Len(chan') = Len(Sent')
      <4>1. Len(Sent') = Len(Sent) + 1
        BY <1>3, <2>2
      <4> QED
        BY <1>1, <1>2, <3>4, <4>1
    <3> QED
      BY <3>4, <3>5, <3>6, <3>7
  <2> QED
    BY <2>1, <2>2
<1>5. ASSUME NEW f, Placed(f) PROVE Placed(f)'
  <2>1. f.idx \in 0..(arrived - 1) /\ f.file.at = Sent[f.idx + 1]
    BY <1>5 DEF Placed
  <2>2. f.idx + 1 \in 1..Len(Sent)
    BY <1>2, <2>1
  <2>3. f.file.at = Sent'[f.idx + 1]
    BY <1>3, <2>1, <2>2
  <2> QED
    BY <2>1, <2>3 DEF Placed
<1>6. /\ \A f \in inflight : Placed(f)' /\ FileOK(f)'
      /\ \A r \in results : Placed(r)' /\ ResultOK(r)'
  BY <1>5, RecordsKeep DEF PoolInv
<1> HIDE DEF pending
<1> QED
  BY <1>2, <1>4, <1>6 DEF PoolInv

\* The walk goes on: what it entered, and what it sent, is right.
LEMMA AdvanceOK ==
  ASSUME WriterInv, Folding, pos' = pos + 1, Sends, ~WalkFailsAt(pos),
         UNCHANGED <<phase, job, cfg, survey, broken, sink, walk, arrived, inflight, results, cache, out>>,
         IsContext(ctx'), IsSeq(ctx'.inodes), ctx'.drops = ctx.drops,
         DOMAIN ctx'.links = Inos(survey, pos),
         \A i \in 1..Len(ctx'.inodes) : ctx'.inodes[i].content.kind # "drops"
  PROVE  WriterInv'
<1>1. PoolInv /\ WalkInv /\ ContextInv /\ PhaseInv /\ CacheInv /\ CodecInv
  BY DEF WriterInv
<1>2. PoolInv' /\ (job = "directory" => Len(chan') <= Capacity)
  BY <1>1, PoolAdvances
<1>3. pos \in 1..Len(survey) /\ Len(survey) \in Nat /\ phase = "pipeline" /\ walk = "running"
  BY <1>1, LinksFacts DEF Folding
<1>4. \A i : WalkFailsAt(i)' <=> WalkFailsAt(i)
  BY DEF WalkFailsAt, NewFileAt
<1>5. WalkInv'
  <2>1. ASSUME NEW j \in 1..(pos' - 1) PROVE ~WalkFailsAt(j)'
    <3>1. j \in 1..(pos - 1) \/ j = pos
      BY <1>3
    <3> QED
      BY <1>1, <1>4, <3>1 DEF WalkInv
  <2>2. pos' \in 1..(Len(survey') + 1)
    BY <1>3
  <2> QED
    BY <1>1, <1>2, <1>3, <2>1, <2>2 DEF WalkInv
<1>6. ContextInv'
  <2>1. pos' - 1 = pos
    BY <1>3
  <2>2. DOMAIN ctx'.links = Inos(survey', pos' - 1)
    BY <2>1
  <2> QED
    BY <2>2 DEF ContextInv, IsContext, IsSeq
<1>7. PhaseInv'
  BY <1>1, <1>3 DEF PhaseInv
<1>8. CacheInv' /\ CodecInv'
  BY <1>1 DEF CacheInv, CodecInv
<1> QED
  BY <1>2, <1>5, <1>6, <1>7, <1>8 DEF WriterInv

\* One lemma per action.
LEMMA FoldDirKeeps == ASSUME WriterInv, FoldDir PROVE WriterInv'
<1> DEFINE st == Append(ctx.stack, [num |-> ctx.next, at |-> pos, entries |-> <<>>])
<1>1. Folding /\ Node.kind = "dir" /\ ctx' = [ctx EXCEPT !.next = @ + 1, !.stack = st] /\ Advance /\ chan' = chan
  BY DEF FoldDir
<1> HIDE DEF st
<1>2. WalkInv /\ ContextInv /\ PhaseInv /\ phase = "pipeline"
  BY <1>1 DEF WriterInv, Folding
<1>3. survey[pos].kind = "dir" /\ survey[pos].kind \notin FileKinds
  BY <1>1 DEF Node, FileKinds, Large
<1>4. /\ IsContext(ctx') /\ ctx'.links = ctx.links /\ ctx'.drops = ctx.drops /\ ctx'.inodes = ctx.inodes
  BY <1>1, <1>2 DEF ContextInv, IsContext
<1>5. Inos(survey, pos) = Inos(survey, pos - 1)
  BY <1>1, <1>2, <1>3, LinksFacts DEF Node
<1>6. ~WalkFailsAt(pos) /\ Sends
  BY <1>1, <1>3 DEF WalkFailsAt, NewFileAt, Sends
<1>7. IsSeq(ctx'.inodes) /\ DOMAIN ctx'.links = Inos(survey, pos)
      /\ \A i \in 1..Len(ctx'.inodes) : ctx'.inodes[i].content.kind # "drops"
  BY <1>2, <1>4, <1>5 DEF ContextInv, PhaseInv
<1> QED
  BY <1>1, <1>4, <1>6, <1>7, AdvanceOK DEF Advance

\* A step that pushes an inode of the walk onto a context like the present one.
LEMMA PushOK ==
  ASSUME WriterInv, Folding, Advance, Sends, ~WalkFailsAt(pos),
         NEW c, IsContext(c), c.inodes = ctx.inodes, c.drops = ctx.drops, DOMAIN c.links = Inos(survey, pos),
         NEW num, NEW content, content.kind # "drops", ctx' = Pushed(c, num, content)
  PROVE  WriterInv'
<1>1. ContextInv /\ PhaseInv /\ phase = "pipeline"
  BY DEF WriterInv, Folding
<1>2. IsSeq(ctx.inodes) /\ \A i \in 1..Len(ctx.inodes) : ctx.inodes[i].content.kind # "drops"
  BY <1>1 DEF ContextInv, PhaseInv
<1> DEFINE p == Pushed(c, num, content)
<1>3. /\ IsContext(p) /\ p.links = c.links /\ p.drops = c.drops
      /\ IsSeq(p.inodes) /\ Len(p.inodes) = Len(c.inodes) + 1
      /\ \A i \in 1..Len(c.inodes) : p.inodes[i] = c.inodes[i]
      /\ p.inodes[Len(c.inodes) + 1].content = content
  BY <1>2, PushedFacts
<1>4. Len(c.inodes) \in Nat
  BY <1>2, AppendSeq
<1> HIDE DEF p
<1>5. ASSUME NEW i \in 1..Len(p.inodes) PROVE p.inodes[i].content.kind # "drops"
  <2>1. i \in 1..Len(c.inodes) \/ i = Len(c.inodes) + 1
    BY <1>3, <1>4
  <2> QED
    BY <1>2, <1>3, <2>1
<1>6. ctx' = p
  BY DEF p
<1> QED
  BY <1>3, <1>5, <1>6, AdvanceOK DEF Advance

LEMMA FoldEndKeeps == ASSUME WriterInv, FoldEnd PROVE WriterInv'
<1> DEFINE d == Last(ctx.stack)
           c0 == [ctx EXCEPT !.stack = Front(@)]
           c == Entered(c0, d.at, d.num)
           content == [kind |-> "directory", entries |-> d.entries]
<1>1. Folding /\ Node.kind = "end" /\ ctx' = Pushed(c, d.num, content) /\ Advance /\ chan' = chan
  BY DEF FoldEnd
<1>2. WalkInv /\ ContextInv
  BY DEF WriterInv
<1>3. survey[pos].kind = "end" /\ survey[pos].kind \notin FileKinds
  BY <1>1 DEF Node, FileKinds, Large
<1>4. Inos(survey, pos) = Inos(survey, pos - 1)
  BY <1>1, <1>2, <1>3, LinksFacts DEF Node
<1>5. ~WalkFailsAt(pos) /\ Sends
  BY <1>1, <1>3 DEF WalkFailsAt, NewFileAt, Sends
<1>6. IsContext(c0) /\ c0.links = ctx.links /\ c0.inodes = ctx.inodes /\ c0.drops = ctx.drops
  BY <1>2 DEF ContextInv, IsContext
<1> HIDE DEF c0
<1>7. IsContext(c) /\ c.links = ctx.links /\ c.inodes = ctx.inodes /\ c.drops = ctx.drops
  BY <1>6, EnteredFacts
<1>8. content.kind # "drops"
  OBVIOUS
<1> HIDE DEF c, d, content
<1>9. DOMAIN c.links = Inos(survey, pos)
  BY <1>2, <1>4, <1>7 DEF ContextInv
<1> QED
  BY <1>1, <1>5, <1>7, <1>8, <1>9, PushOK

\* alloc_inode, and the entry in the directory that is being folded.
LEMMA AllocatedFacts ==
  ASSUME NEW c, IsContext(c)
  PROVE  LET a == Allocated(c) IN IsContext(a) /\ a.links = c.links /\ a.inodes = c.inodes /\ a.drops = c.drops
<1> DEFINE e == [c EXCEPT !.next = @ + 1]
<1>1. IsContext(e) /\ e.links = c.links /\ e.inodes = c.inodes /\ e.drops = c.drops
  BY DEF IsContext
<1>2. Allocated(c) = Entered(e, pos, c.next)
  BY DEF Allocated
<1> HIDE DEF e
<1> QED
  BY <1>1, <1>2, EnteredFacts

LEMMA FoldSymlinkKeeps == ASSUME WriterInv, FoldSymlink PROVE WriterInv'
<1> DEFINE c == Allocated(ctx)
           content == [kind |-> "symlink"]
<1>1. Folding /\ Node.kind = "symlink" /\ ctx' = Pushed(c, ctx.next, content) /\ Advance /\ chan' = chan
  BY DEF FoldSymlink
<1>2. WalkInv /\ ContextInv
  BY DEF WriterInv
<1>3. survey[pos].kind = "symlink" /\ survey[pos].kind \notin FileKinds
  BY <1>1 DEF Node, FileKinds, Large
<1>4. Inos(survey, pos) = Inos(survey, pos - 1)
  BY <1>1, <1>2, <1>3, LinksFacts DEF Node
<1>5. ~WalkFailsAt(pos) /\ Sends
  BY <1>1, <1>3 DEF WalkFailsAt, NewFileAt, Sends
<1>6. IsContext(c) /\ c.links = ctx.links /\ c.inodes = ctx.inodes /\ c.drops = ctx.drops
  BY <1>2, AllocatedFacts DEF ContextInv
<1>7. content.kind # "drops"
  OBVIOUS
<1> HIDE DEF c, content
<1>8. DOMAIN c.links = Inos(survey, pos)
  BY <1>2, <1>4, <1>6 DEF ContextInv
<1> QED
  BY <1>1, <1>5, <1>6, <1>7, <1>8, PushOK

LEMMA FoldHardlinkKeeps == ASSUME WriterInv, FoldHardlink PROVE WriterInv'
<1> DEFINE n == ctx.links[Node.ino]
           count == IF n \in DOMAIN ctx.nlink THEN ctx.nlink[n] ELSE 1
           c == [ctx EXCEPT !.nlink = Put(@, n, count + 1)]
<1>1. /\ Folding /\ Node.kind \in FileKinds /\ Node.ino \in DOMAIN ctx.links
      /\ ctx' = Entered(c, pos, n) /\ Advance /\ chan' = chan
  BY DEF FoldHardlink
<1>2. WalkInv /\ ContextInv /\ PhaseInv /\ phase = "pipeline"
  BY <1>1 DEF WriterInv, Folding
<1>3. ~NewFileAt(survey, pos) /\ survey[pos].kind \in FileKinds
  BY <1>1, <1>2, LinksFacts DEF NewFile, Node
<1>4. Inos(survey, pos) = Inos(survey, pos - 1)
  <2>1. Inos(survey, pos) = Inos(survey, pos - 1) \cup {Node.ino} /\ Node.ino \in Inos(survey, pos - 1)
    BY <1>1, <1>2, LinksFacts DEF ContextInv
  <2> QED
    BY <2>1
<1>5. ~WalkFailsAt(pos) /\ Sends
  BY <1>1, <1>3 DEF WalkFailsAt, Sends, FileKinds, Large
<1>6. IsContext(c) /\ c.links = ctx.links /\ c.inodes = ctx.inodes /\ c.drops = ctx.drops
  BY <1>2 DEF ContextInv, IsContext
<1> HIDE DEF c, n
<1>7. IsContext(ctx') /\ ctx'.links = ctx.links /\ ctx'.inodes = ctx.inodes /\ ctx'.drops = ctx.drops
  BY <1>1, <1>6, EnteredFacts
<1>8. IsSeq(ctx'.inodes) /\ DOMAIN ctx'.links = Inos(survey, pos)
      /\ \A i \in 1..Len(ctx'.inodes) : ctx'.inodes[i].content.kind # "drops"
  BY <1>2, <1>4, <1>7 DEF ContextInv, PhaseInv
<1> QED
  BY <1>1, <1>5, <1>7, <1>8, AdvanceOK DEF Advance

\* A new file has its link and its entry.
LEMMA LinkedFacts ==
  ASSUME WalkInv, ContextInv, Folding, NewFile
  PROVE  LET c == Linked(ctx)
         IN IsContext(c) /\ DOMAIN c.links = Inos(survey, pos) /\ c.inodes = ctx.inodes /\ c.drops = ctx.drops
<1> DEFINE a == Allocated(ctx)
           l == Put(ctx.links, Node.ino, ctx.next)
<1>1. IsContext(a) /\ a.links = ctx.links /\ a.inodes = ctx.inodes /\ a.drops = ctx.drops
  BY AllocatedFacts DEF ContextInv
<1>2. Linked(ctx) = [a EXCEPT !.links = l]
  BY <1>1 DEF Linked, IsContext
<1>3. DOMAIN l = {Node.ino} \cup Inos(survey, pos - 1)
  BY DEF Put, ContextInv
<1>4. Inos(survey, pos) = Inos(survey, pos - 1) \cup {Node.ino}
  BY LinksFacts DEF NewFile
<1> HIDE DEF a, l
<1> QED
  BY <1>1, <1>2, <1>3, <1>4 DEF IsContext

LEMMA FoldInlineKeeps == ASSUME WriterInv, FoldInline PROVE WriterInv'
<1> DEFINE c == Linked(ctx)
           content == [kind |-> "inline", chunks |-> Node.chunks]
<1>1. /\ Folding /\ NewFile /\ Node.kind = "inline" /\ pos \notin broken
      /\ ctx' = Pushed(c, ctx.next, content) /\ Advance /\ chan' = chan
  BY DEF FoldInline
<1>2. WalkInv /\ ContextInv
  BY DEF WriterInv
<1>3. survey[pos].kind = "inline" /\ survey[pos].kind \notin Large
  BY <1>1 DEF Node, Large
<1>4. ~WalkFailsAt(pos) /\ Sends
  BY <1>1, <1>3 DEF WalkFailsAt, Sends
<1>5. IsContext(c) /\ DOMAIN c.links = Inos(survey, pos) /\ c.inodes = ctx.inodes /\ c.drops = ctx.drops
  BY <1>1, <1>2, LinkedFacts
<1>6. content.kind # "drops"
  OBVIOUS
<1> HIDE DEF c, content
<1> QED
  BY <1>1, <1>4, <1>5, <1>6, PushOK

LEMMA FoldLargeKeeps == ASSUME WriterInv, FoldLarge PROVE WriterInv'
<1>1. /\ Folding /\ NewFile /\ Node.kind \in Large /\ (job = "layer" \/ Len(chan) < Capacity)
      /\ ctx' = Linked(ctx) /\ chan' = Append(chan, [num |-> ctx.next, at |-> pos]) /\ Advance
  BY DEF FoldLarge
<1>2. WalkInv /\ ContextInv /\ PhaseInv /\ phase = "pipeline"
  BY <1>1 DEF WriterInv, Folding
<1>3. survey[pos].kind \in Large /\ NewFileAt(survey, pos)
  BY <1>1, <1>2, LinksFacts DEF Node
<1>4. Sends
  BY <1>1, <1>3 DEF Sends
<1>5. ~WalkFailsAt(pos)
  BY <1>3 DEF WalkFailsAt, Large
<1>6. IsContext(ctx') /\ DOMAIN ctx'.links = Inos(survey, pos) /\ ctx'.inodes = ctx.inodes /\ ctx'.drops = ctx.drops
  BY <1>1, <1>2, LinkedFacts
<1>7. IsSeq(ctx'.inodes) /\ \A i \in 1..Len(ctx'.inodes) : ctx'.inodes[i].content.kind # "drops"
  BY <1>2, <1>6 DEF ContextInv, PhaseInv
<1> QED
  BY <1>1, <1>4, <1>5, <1>6, <1>7, AdvanceOK DEF Advance

\* The walk ends, and the sender is dropped.
LEMMA WalkEndsOK ==
  ASSUME WriterInv, phase = "pipeline", walk = "running", sink' = "closed",
         \/ walk' = "err" /\ pos <= Len(survey) /\ WalkFailsAt(pos)
         \/ walk' = "ok" /\ pos > Len(survey),
         UNCHANGED <<phase, job, cfg, survey, broken, pos, ctx, chan, arrived, inflight, results, cache, out>>
  PROVE  WriterInv'
<1>1. PoolInv /\ WalkInv /\ ContextInv /\ PhaseInv /\ CacheInv /\ CodecInv
  BY DEF WriterInv
<1>2. \A i : WalkFailsAt(i)' <=> WalkFailsAt(i)
  BY DEF WalkFailsAt, NewFileAt
<1>3. walk' = "ok" => pos = Len(survey) + 1
  <2>1. Len(survey) \in Nat /\ pos \in 1..(Len(survey) + 1)
    BY <1>1, TreeFacts DEF WalkInv
  <2> QED
    BY <2>1
<1>4. WalkInv'
  BY <1>1, <1>2, <1>3 DEF WalkInv
<1>5. Sent' = Sent
  BY DEF Sent
<1>6. \A f : Placed(f) => Placed(f)'
  BY <1>5 DEF Placed
<1>7. PoolInv'
  <2>1. /\ \A f \in inflight : Placed(f)' /\ FileOK(f)'
        /\ \A r \in results : Placed(r)' /\ ResultOK(r)'
    BY <1>1, <1>6, RecordsKeep DEF PoolInv
  <2> QED
    BY <1>1, <1>5, <2>1 DEF PoolInv
<1>8. ContextInv' /\ PhaseInv'
  BY <1>1 DEF ContextInv, PhaseInv, IsContext, IsSeq
<1>9. CacheInv' /\ CodecInv'
  BY <1>1 DEF CacheInv, CodecInv
<1> QED
  BY <1>4, <1>7, <1>8, <1>9 DEF WriterInv

LEMMA FoldErrorKeeps == ASSUME WriterInv, FoldError PROVE WriterInv'
<1>1. WalkInv /\ ContextInv /\ Folding
  BY DEF WriterInv, FoldError
<1>2. WalkFailsAt(pos)
  BY <1>1, LinksFacts DEF FoldError, WalkFailsAt, Node
<1>3. pos <= Len(survey) /\ phase = "pipeline" /\ walk = "running"
  BY <1>1 DEF Folding
<1> QED
  BY <1>2, <1>3, WalkEndsOK DEF FoldError

LEMMA FoldDoneKeeps == ASSUME WriterInv, FoldDone PROVE WriterInv'
BY WalkEndsOK DEF FoldDone

----------------------------------------------------------------------------
(* The pool.                                                               *)

LEMMA TakeKeeps == ASSUME WriterInv, Take PROVE WriterInv'
<1>1. PoolInv /\ WalkInv /\ ContextInv /\ PhaseInv /\ CacheInv /\ CodecInv
  BY DEF WriterInv
<1> PICK h, new :
      h = Head(chan)
      /\ new = [idx |-> arrived, file |-> h, todo |-> ToSet(survey[h.at].chunks), codec |-> <<>>]
  OBVIOUS
<1>2. /\ phase = "pipeline" /\ chan # <<>> /\ (job = "layer" => walk = "ok")
      /\ chan' = Tail(chan) /\ arrived' = arrived + 1 /\ inflight' = inflight \cup {new}
      /\ UNCHANGED <<phase, job, cfg, survey, broken, pos, ctx, sink, walk, results, cache, out>>
  BY DEF Take
<1>3. /\ arrived \in Nat /\ IsSeq(chan) /\ arrived + Len(chan) = Len(Sent)
      /\ \A k \in 1..Len(chan) : chan[k].at = Sent[arrived + k]
      /\ Len(chan) \in Nat
  BY <1>1, AppendSeq DEF PoolInv
<1>4. /\ Len(chan) > 0 /\ h = chan[1] /\ Len(chan') = Len(chan) - 1
      /\ \A k \in 1..(Len(chan) - 1) : chan'[k] = chan[k + 1]
      /\ chan' \in Seq(ToSet(chan))
  BY <1>2, <1>3 DEF IsSeq
<1>5. IsSeq(chan')
  <2>1. DOMAIN chan' = 1..Len(chan') /\ chan' = [i \in 1..Len(chan') |-> chan'[i]] /\ Len(chan') \in Nat
    BY <1>4
  <2>2. chan' \in [1..Len(chan') -> ToSet(chan')]
    BY <2>1 DEF ToSet
  <2> QED
    BY <2>1, <2>2 DEF IsSeq
<1>6. Sent' = Sent
  BY <1>2 DEF Sent
<1>7. h.at = Sent[arrived + 1]
  BY <1>3, <1>4
<1>8. /\ new.idx = arrived /\ new.file = h /\ new.todo = ChunksAt(h.at) /\ DOMAIN new.codec = {}
      /\ new = [idx |-> new.idx, file |-> new.file, todo |-> new.todo, codec |-> new.codec]
  BY DEF ChunksAt
<1>9. FileOK(new)
  <2>1. CodecsOK(new.codec, new.file.at)
    BY <1>8 DEF CodecsOK
  <2> QED
    BY <1>8, <2>1 DEF FileOK
<1>10. \A f : Placed(f) => Placed(f)' /\ f.idx < arrived
  BY <1>2, <1>3, <1>6 DEF Placed
<1>11. Placed(new)'
  BY <1>2, <1>3, <1>6, <1>7, <1>8 DEF Placed
<1>12. PoolInv'
  <2>1. \A f \in inflight' : Placed(f)' /\ FileOK(f)'
    BY <1>1, <1>2, <1>9, <1>10, <1>11, RecordsKeep DEF PoolInv
  <2>2. \A r \in results' : Placed(r)' /\ ResultOK(r)'
    BY <1>1, <1>2, <1>10, RecordsKeep DEF PoolInv
  <2>3. \A k \in 1..Len(chan') : chan'[k].at = Sent'[arrived' + k]
    <3> SUFFICES ASSUME NEW k \in 1..Len(chan') PROVE chan'[k].at = Sent'[arrived' + k]
      OBVIOUS
    <3>1. k \in 1..(Len(chan) - 1) /\ k + 1 \in 1..Len(chan) /\ arrived' + k = arrived + (k + 1)
      BY <1>2, <1>3, <1>4
    <3> QED
      BY <1>3, <1>4, <1>6, <3>1
  <2>4. arrived' \in Nat /\ arrived' + Len(chan') = Len(Sent')
    BY <1>2, <1>3, <1>4, <1>6
  <2>5. \A f \in inflight \cup results : f.idx < arrived /\ f.idx \in Nat
    BY <1>1, <1>3, <1>10 DEF PoolInv, Placed
  <2>6. /\ \A f, g \in inflight' : f.idx = g.idx => f = g
        /\ \A f \in inflight', r \in results' : f.idx # r.idx
        /\ \A q, r \in results' : q.idx = r.idx => q = r
    BY <1>1, <1>2, <1>3, <1>8, <2>5 DEF PoolInv
  <2> QED
    BY <1>5, <2>1, <2>2, <2>3, <2>4, <2>6 DEF PoolInv
<1>13. \A i : WalkFailsAt(i)' <=> WalkFailsAt(i)
  BY <1>2 DEF WalkFailsAt, NewFileAt
<1>14. WalkInv'
  <2>1. job = "directory" => Len(chan') <= Capacity
    BY <1>1, <1>3, <1>4, WriterAssumption DEF WalkInv
  <2> QED
    BY <1>1, <1>2, <1>13, <2>1 DEF WalkInv
<1>15. ContextInv'
  BY <1>1, <1>2 DEF ContextInv, IsContext, IsSeq
<1>16. PhaseInv'
  <2>1. ASSUME NEW k \in 0..(arrived' - 1) PROVE \E f \in inflight' \cup results' : f.idx = k
    <3>1. k \in 0..(arrived - 1) \/ k = arrived
      BY <1>2, <1>3
    <3> QED
      BY <1>1, <1>2, <1>8, <3>1 DEF PhaseInv
  <2> QED
    BY <1>1, <1>2, <2>1 DEF PhaseInv
<1>17. CacheInv' /\ CodecInv'
  BY <1>1, <1>2 DEF CacheInv, CodecInv
<1> QED
  BY <1>12, <1>14, <1>15, <1>16, <1>17 DEF WriterInv

\* What a step of the pool after Take leaves alone.
LEMMA PoolStepKeeps ==
  ASSUME WriterInv, phase = "pipeline",
         UNCHANGED <<phase, job, cfg, survey, broken, pos, ctx, chan, sink, walk, arrived, out>>,
         \A k \in 0..(arrived - 1) : \E f \in inflight' \cup results' : f.idx = k
  PROVE  WalkInv' /\ ContextInv' /\ PhaseInv' /\ Sent' = Sent /\ \A f : Placed(f) => Placed(f)'
<1>1. WalkInv /\ ContextInv /\ PhaseInv
  BY DEF WriterInv
<1>2. \A i : WalkFailsAt(i)' <=> WalkFailsAt(i)
  BY DEF WalkFailsAt, NewFileAt
<1>3. WalkInv'
  BY <1>1, <1>2 DEF WalkInv
<1>4. ContextInv'
  BY <1>1 DEF ContextInv, IsContext, IsSeq
<1>5. PhaseInv'
  BY <1>1 DEF PhaseInv
<1>6. Sent' = Sent
  BY DEF Sent
<1> QED
  BY <1>3, <1>4, <1>5, <1>6 DEF Placed

LEMMA FinishedKeeps ==
  ASSUME WriterInv, NEW f \in inflight, NEW ok \in BOOLEAN, Finished(f, ok),
         IF ok THEN f.file.at \notin broken /\ f.todo = {} ELSE f.file.at \in broken
  PROVE  WriterInv'
<1> DEFINE new == [idx |-> f.idx, file |-> f.file, ok |-> ok, codec |-> f.codec]
<1>1. PoolInv /\ PhaseInv /\ CacheInv /\ CodecInv /\ phase = "pipeline"
  BY DEF WriterInv, PhaseInv
<1>2. /\ inflight' = inflight \ {f} /\ results' = results \cup {new}
      /\ UNCHANGED <<phase, job, cfg, survey, broken, pos, ctx, chan, sink, walk, arrived, cache, out>>
  BY DEF Finished
<1>3. /\ new.idx = f.idx /\ new.file = f.file /\ new.ok = ok /\ new.codec = f.codec
      /\ new = [idx |-> new.idx, file |-> new.file, ok |-> new.ok, codec |-> new.codec]
  OBVIOUS
<1> HIDE DEF new
<1>4. Placed(f) /\ FileOK(f)
  BY <1>1 DEF PoolInv
<1>5. Placed(new) /\ ResultOK(new)
  BY <1>3, <1>4 DEF Placed, ResultOK, FileOK
<1>6. \A k \in 0..(arrived - 1) : \E g \in inflight' \cup results' : g.idx = k
  <2>1. \A k \in 0..(arrived - 1) : \E g \in inflight \cup results : g.idx = k
    BY <1>1 DEF PhaseInv
  <2> QED
    BY <1>2, <1>3, <2>1
<1>7. WalkInv' /\ ContextInv' /\ PhaseInv' /\ Sent' = Sent /\ \A g : Placed(g) => Placed(g)'
  BY <1>1, <1>2, <1>6, PoolStepKeeps
<1>8. PoolInv'
  <2>1. \A g \in inflight' : Placed(g)' /\ FileOK(g)'
    BY <1>1, <1>2, <1>7, RecordsKeep DEF PoolInv
  <2>2. \A r \in results' : Placed(r)' /\ ResultOK(r)'
    BY <1>1, <1>2, <1>5, <1>7, RecordsKeep DEF PoolInv
  <2>3. /\ \A g, x \in inflight' : g.idx = x.idx => g = x
        /\ \A q, r \in results' : q.idx = r.idx => q = r
        /\ \A g \in inflight', r \in results' : g.idx # r.idx
    BY <1>1, <1>2, <1>3 DEF PoolInv
  <2> QED
    BY <1>1, <1>2, <1>7, <2>1, <2>2, <2>3 DEF PoolInv
<1>9. CacheInv' /\ CodecInv'
  BY <1>1, <1>2 DEF CacheInv, CodecInv
<1> QED
  BY <1>7, <1>8, <1>9 DEF WriterInv

LEMMA CompressKeeps ==
  ASSUME WriterInv, NEW w \in Workers, NEW f \in inflight, NEW c, CompressChunk(w, f, c)
  PROVE  WriterInv'
<1> DEFINE kind    == survey[f.file.at].kind
           chunked == kind = "chunked"
           cached  == chunked /\ c \notin Base /\ c \in DOMAIN cache[w]
           codec   == IF chunked /\ c \in Base THEN "referenced"
                      ELSE IF cached THEN cache[w][c] ELSE cfg.codec[c]
           store   == /\ chunked /\ c \notin Base /\ ~ cached
                      /\ Cardinality(DOMAIN cache[w]) < CacheMax
           new     == [f EXCEPT !.todo = @ \ {c}, !.codec = Put(@, c, codec)]
<1>1. PoolInv /\ WalkInv /\ PhaseInv /\ CacheInv /\ CodecInv
  BY DEF WriterInv
<1>2. /\ phase = "pipeline" /\ c \in f.todo /\ f.file.at \notin broken
      /\ inflight' = (inflight \ {f}) \cup {new}
      /\ cache' = IF store THEN [cache EXCEPT ![w] = Put(@, c, codec)] ELSE cache
      /\ UNCHANGED <<phase, job, cfg, survey, broken, pos, ctx, chan, sink, walk, arrived, results, out>>
  BY DEF CompressChunk
<1>3. Placed(f) /\ FileOK(f)
  BY <1>1 DEF PoolInv
<1>4. OneCodec => codec = CodecOf(cfg, Base, c, kind)
  <2>1. OneCodec /\ cached => cache[w][c] = cfg.codec[c]
    BY <1>1 DEF CodecInv, WalkInv
  <2> QED
    BY <2>1 DEF CodecOf
<1>5. /\ new.idx = f.idx /\ new.file = f.file /\ new.todo = f.todo \ {c} /\ new.codec = Put(f.codec, c, codec)
      /\ new = [idx |-> new.idx, file |-> new.file, todo |-> new.todo, codec |-> new.codec]
  <2>1. f = [idx |-> f.idx, file |-> f.file, todo |-> f.todo, codec |-> f.codec]
    BY <1>3 DEF FileOK
  <2> DEFINE codecs == Put(f.codec, c, codec)
             todo == f.todo \ {c}
  <2>2. new = [f EXCEPT !.todo = todo, !.codec = codecs]
    OBVIOUS
  <2> HIDE DEF codec, codecs, todo, new
  <2>3. new = [idx |-> f.idx, file |-> f.file, todo |-> todo, codec |-> codecs]
    BY <2>1, <2>2
  <2> QED
    BY <2>3 DEF codecs, todo
<1>6. OneCodec /\ store => codec = cfg.codec[c]
  BY <1>4 DEF CodecOf
<1>7. c \in Chunks
  <2>1. f.file.at \in 1..Len(survey)
    <3>1. Sent \in Seq(1..Len(survey)) /\ Len(Sent) \in Nat
      <4>1. survey \in Trees /\ pos \in 1..(Len(survey) + 1) /\ Len(survey) \in Nat
        BY <1>1, TreeFacts DEF WalkInv
      <4>2. pos - 1 \in 0..Len(survey)
        BY <4>1
      <4> QED
        BY <4>1, <4>2, PendingFacts DEF Sent
    <3>2. f.idx + 1 \in 1..Len(Sent)
      <4>1. arrived \in Nat /\ arrived + Len(chan) = Len(Sent) /\ Len(chan) \in Nat
        BY <1>1, AppendSeq DEF PoolInv
      <4> QED
        BY <1>3, <4>1 DEF Placed
    <3> QED
      BY <1>3, <3>1, <3>2 DEF Placed
  <2>2. survey[f.file.at].chunks \in Seq(Chunks)
    BY <1>1, <2>1, TreeFacts DEF WalkInv
  <2>3. c \in ToSet(survey[f.file.at].chunks)
    BY <1>2, <1>3 DEF FileOK, ChunksAt
  <2> QED
    BY <2>2, <2>3 DEF ToSet
<1> HIDE DEF codec, store, cached, chunked, kind, new
<1>8. FileOK(new)
  <2>1. DOMAIN new.codec = {c} \cup DOMAIN f.codec
        /\ \A x \in DOMAIN new.codec : new.codec[x] = IF x = c THEN codec ELSE f.codec[x]
    BY <1>5 DEF Put
  <2>2. CodecsOK(new.codec, new.file.at)
    BY <1>3, <1>4, <1>5, <2>1 DEF CodecsOK, FileOK, kind
  <2> QED
    BY <1>3, <1>5, <2>1, <2>2 DEF FileOK
<1>9. \A k \in 0..(arrived - 1) : \E g \in inflight' \cup results' : g.idx = k
  <2>1. \A k \in 0..(arrived - 1) : \E g \in inflight \cup results : g.idx = k
    BY <1>1, <1>2 DEF PhaseInv
  <2> QED
    BY <1>2, <1>5, <2>1
<1>10. WalkInv' /\ ContextInv' /\ PhaseInv' /\ Sent' = Sent /\ \A g : Placed(g) => Placed(g)'
  BY <1>2, <1>9, PoolStepKeeps
<1>11. PoolInv'
  <2>0. Placed(new)
    BY <1>3, <1>5 DEF Placed
  <2>1. \A g \in inflight' : Placed(g)' /\ FileOK(g)'
    BY <1>1, <1>2, <1>8, <1>10, <2>0, RecordsKeep DEF PoolInv
  <2>2. \A r \in results' : Placed(r)' /\ ResultOK(r)'
    BY <1>1, <1>2, <1>10, RecordsKeep DEF PoolInv
  <2>3. /\ \A g, x \in inflight' : g.idx = x.idx => g = x
        /\ \A q, r \in results' : q.idx = r.idx => q = r
        /\ \A g \in inflight', r \in results' : g.idx # r.idx
    BY <1>1, <1>2, <1>5 DEF PoolInv
  <2> QED
    BY <1>1, <1>2, <1>10, <2>1, <2>2, <2>3 DEF PoolInv
<1>12. CacheInv' /\ CodecInv'
  <2>1. CASE ~store
    BY <1>1, <1>2, <2>1 DEF CacheInv, CodecInv
  <2>2. CASE store
    <3> DEFINE m == Put(cache[w], c, codec)
               D == DOMAIN cache[w]
    <3>1. cache' = [cache EXCEPT ![w] = m] /\ DOMAIN cache = Workers
      BY <1>1, <1>2, <2>2 DEF CacheInv
    <3>2. DOMAIN m = {c} \cup D /\ \A x \in DOMAIN m : m[x] = IF x = c THEN codec ELSE cache[w][x]
      BY DEF Put
    <3> HIDE DEF m
    <3>3. cache'[w] = m /\ (\A v \in Workers : v # w => cache'[v] = cache[v])
          /\ cache' = [v \in Workers |-> cache'[v]]
      BY <3>1
    <3>4. IsFiniteSet(D) /\ Cardinality(D) \in Nat /\ D \subseteq Chunks /\ Cardinality(D) < CacheMax
      BY <1>1, <2>2, FS_CardinalityType DEF CacheInv, store
    <3>5. IsFiniteSet(DOMAIN m) /\ Cardinality(DOMAIN m) <= CacheMax /\ DOMAIN m \subseteq Chunks
      <4>1. /\ IsFiniteSet(D \cup {c})
            /\ Cardinality(D \cup {c}) = IF c \in D THEN Cardinality(D) ELSE Cardinality(D) + 1
        BY <3>4, FS_AddElement
      <4>2. D \cup {c} = DOMAIN m
        BY <3>2
      <4> HIDE DEF D
      <4>3. Cardinality(D \cup {c}) <= CacheMax
        BY <3>4, <4>1, WriterAssumption
      <4> QED
        BY <1>7, <3>4, <4>1, <4>2, <4>3
    <3>6. CacheInv'
      BY <1>1, <3>3, <3>5 DEF CacheInv
    <3>7. CodecInv'
      <4> SUFFICES ASSUME OneCodec, NEW v \in Workers, NEW x \in DOMAIN cache'[v], NEW g \in Configs
                   PROVE  cache'[v][x] = g.codec[x]
        BY DEF CodecInv
      <4>1. CASE v # w
        BY <1>1, <3>3, <4>1 DEF CodecInv
      <4>2. CASE v = w /\ x # c
        BY <1>1, <3>2, <3>3, <4>2 DEF CodecInv
      <4>3. CASE v = w /\ x = c
        <5>1. cfg.codec = g.codec
          BY <1>1 DEF OneCodec, WalkInv
        <5> QED
          BY <1>6, <2>2, <3>2, <3>3, <4>3, <5>1
      <4> QED
        BY <4>1, <4>2, <4>3
    <3> QED
      BY <3>6, <3>7
  <2> QED
    BY <2>1, <2>2
<1> QED
  BY <1>10, <1>11, <1>12 DEF WriterInv

----------------------------------------------------------------------------
(* The calling thread.                                                     *)

LEMMA PendingFilesFacts ==
  ASSUME WalkInv
  PROVE  /\ PendingFiles \in Seq(1..Len(survey)) /\ Len(PendingFiles) \in Nat
         /\ DOMAIN PendingFiles = 1..Len(PendingFiles)
         /\ walk = "ok" => Sent = PendingFiles /\ \A i \in DOMAIN survey : ~WalkFailsAt(i)
<1>1. survey \in Trees /\ Len(survey) \in Nat /\ DOMAIN survey = 1..Len(survey)
  BY TreeFacts DEF WalkInv
<1>2. Len(survey) \in 0..Len(survey)
  BY <1>1
<1>3. PendingFiles \in Seq(1..Len(survey))
  BY <1>1, <1>2, PendingFacts DEF PendingFiles
<1>4. ASSUME walk = "ok" PROVE Sent = PendingFiles /\ \A i \in DOMAIN survey : ~WalkFailsAt(i)
  <2>1. pos - 1 = Len(survey)
    BY <1>1, <1>4 DEF WalkInv
  <2>2. Sent = PendingFiles
    BY <2>1 DEF Sent, PendingFiles
  <2> QED
    BY <1>1, <2>1, <2>2 DEF WalkInv
<1> QED
  BY <1>3, <1>4

\* The drops of a sequential write, file by file.
LEMMA SequentialFacts ==
  ASSUME WalkInv
  PROVE  LET D == DropsUpTo(survey, PendingFiles, cfg, Base)
         IN /\ D[0] = <<>>
            /\ \A n \in 1..Len(PendingFiles) :
                 D[n] = D[n - 1] \o Adds(survey, PendingFiles[n], cfg, Base, D[n - 1])
<1>1. survey \in Trees /\ PendingFiles \in Seq(1..Len(survey))
  BY PendingFilesFacts DEF WalkInv
<1>2. AddsUp(DropsUpTo(survey, PendingFiles, cfg, Base), survey, PendingFiles, cfg, Base)
  BY <1>1, DropsFacts
<1> QED
  BY <1>2 DEF AddsUp

\* What the write has to end with, as SameAsSequential says.
Outcome(o) ==
  IF \E i \in DOMAIN survey : WalkFailsAt(i)
  THEN o = [kind |-> "error", at |-> "walk"]
  ELSE LET failing == {k \in DOMAIN PendingFiles : PendingFiles[k] \in broken}
       IN IF failing # {}
          THEN \E k \in failing :
                 /\ o = [kind |-> "error", at |-> PendingFiles[k]]
                 /\ job = "layer" \/ \A j \in failing : k <= j
          ELSE /\ o.kind = "image"
               /\ o.slabs = PackSlabs(ApplyDictionaries(cfg, Adopted, SequentialDrops))
               /\ o.dicts = EmittedDictionaries(cfg, Adopted, SequentialDrops)
               /\ LET walked == Len(o.inodes) - Len(PendingFiles)
                  IN /\ walked >= 0
                     /\ \A i \in 1..walked : o.inodes[i].content.kind # "drops"
                     /\ \A k \in DOMAIN PendingFiles :
                          o.inodes[walked + k].content =
                            [kind |-> "drops", chunks |-> survey[PendingFiles[k]].chunks]

\* The write ends with what it has to.
LEMMA EndsOK ==
  ASSUME WriterInv, phase' = "done", inflight = {}, OneCodec => Outcome(out'),
         UNCHANGED <<job, cfg, survey, broken, pos, ctx, pipeVars, cache>>
  PROVE  WriterInv'
<1>1. PoolInv /\ WalkInv /\ ContextInv /\ PhaseInv /\ CacheInv /\ CodecInv
  BY DEF WriterInv
<1>2. UNCHANGED <<chan, sink, walk, arrived, inflight, results>>
  BY DEF pipeVars
<1>3. \A i : WalkFailsAt(i)' <=> WalkFailsAt(i)
  BY DEF WalkFailsAt, NewFileAt
<1>4. WalkInv'
  BY <1>1, <1>2, <1>3 DEF WalkInv
<1>5. Sent' = Sent
  BY DEF Sent
<1>6. PoolInv'
  <2>1. \A f : Placed(f) => Placed(f)'
    BY <1>2, <1>5 DEF Placed
  <2>2. /\ \A f \in inflight : Placed(f)' /\ FileOK(f)'
        /\ \A r \in results : Placed(r)' /\ ResultOK(r)'
    BY <1>1, <2>1, RecordsKeep DEF PoolInv
  <2> QED
    BY <1>1, <1>2, <1>5, <2>2 DEF PoolInv
<1>7. ContextInv'
  BY <1>1 DEF ContextInv, IsContext, IsSeq
<1>8. OneCodec => SameAsSequential'
  <2>1. PendingFiles' = PendingFiles /\ Base' = Base /\ Adopted' = Adopted
    BY DEF PendingFiles, Base, Adopted
  <2>2. SequentialDrops' = SequentialDrops
    BY <2>1 DEF SequentialDrops
  <2> QED
    BY <1>3, <2>1, <2>2 DEF Outcome, SameAsSequential
<1>9. PhaseInv'
  BY <1>2, <1>8 DEF PhaseInv
<1>10. CacheInv' /\ CodecInv'
  BY <1>1 DEF CacheInv, CodecInv
<1> QED
  BY <1>4, <1>6, <1>7, <1>9, <1>10 DEF WriterInv

\* A result of the pool for a file that could not be read.
LEMMA FailingFacts ==
  ASSUME WriterInv, walk = "ok", NEW r \in results
  PROVE  /\ r.idx + 1 \in DOMAIN PendingFiles /\ r.file.at = PendingFiles[r.idx + 1]
         /\ ~r.ok => r.file.at \in broken
         /\ r.ok => r.file.at \notin broken
<1>1. PoolInv /\ WalkInv
  BY DEF WriterInv
<1>2. Placed(r) /\ ResultOK(r)
  BY <1>1 DEF PoolInv
<1>3. arrived \in Nat /\ arrived + Len(chan) = Len(Sent) /\ Len(chan) \in Nat
  BY <1>1, AppendSeq DEF PoolInv
<1>4. Sent = PendingFiles /\ DOMAIN PendingFiles = 1..Len(PendingFiles) /\ Len(PendingFiles) \in Nat
  BY <1>1, PendingFilesFacts
<1>5. r.idx \in 0..(arrived - 1) /\ r.file.at = Sent[r.idx + 1]
  BY <1>2 DEF Placed
<1>6. r.idx + 1 \in 1..Len(Sent)
  BY <1>3, <1>5
<1> QED
  BY <1>2, <1>4, <1>5, <1>6 DEF ResultOK

LEMMA JoinKeeps == ASSUME WriterInv, Join PROVE WriterInv'
<1>1. PoolInv /\ WalkInv /\ ContextInv /\ PhaseInv /\ CacheInv /\ CodecInv
  BY DEF WriterInv
<1>2. phase = "pipeline" /\ inflight = {}
  BY DEF Join
<1>3. CASE walk = "err" /\ Fail("walk")
  <2>1. \E i \in DOMAIN survey : WalkFailsAt(i)
    <3>1. pos <= Len(survey) /\ WalkFailsAt(pos) /\ pos \in 1..(Len(survey) + 1)
      BY <1>1, <1>3 DEF WalkInv
    <3>2. Len(survey) \in Nat /\ DOMAIN survey = 1..Len(survey)
      BY <1>1, TreeFacts DEF WalkInv
    <3>3. pos \in DOMAIN survey
      BY <3>1, <3>2
    <3> QED
      BY <3>1, <3>3
  <2>2. out' = [kind |-> "error", at |-> "walk"]
    BY <1>3 DEF Fail
  <2>3. Outcome(out')
    BY <2>1, <2>2 DEF Outcome
  <2> QED
    BY <1>2, <1>3, <2>3, EndsOK DEF Fail
<1>4. CASE /\ walk = "ok" /\ chan = <<>> /\ phase' = "merge"
           /\ UNCHANGED <<job, cfg, survey, broken, pos, ctx, pipeVars, cache, out, writes>>
  <2>1. UNCHANGED <<chan, sink, walk, arrived, inflight, results, job, cfg, survey, broken, pos, ctx, cache>>
    BY <1>4 DEF pipeVars
  <2>2. \A i : WalkFailsAt(i)' <=> WalkFailsAt(i)
    BY <2>1 DEF WalkFailsAt, NewFileAt
  <2>3. WalkInv'
    BY <1>1, <1>4, <2>1, <2>2 DEF WalkInv
  <2>4. Sent' = Sent
    BY <2>1 DEF Sent
  <2>5. PoolInv'
    <3>1. \A f : Placed(f) => Placed(f)'
      BY <2>1, <2>4 DEF Placed
    <3>2. /\ \A f \in inflight : Placed(f)' /\ FileOK(f)'
          /\ \A r \in results : Placed(r)' /\ ResultOK(r)'
      BY <1>1, <2>1, <3>1, RecordsKeep DEF PoolInv
    <3> QED
      BY <1>1, <2>1, <2>4, <3>2 DEF PoolInv
  <2>6. ContextInv' /\ CacheInv' /\ CodecInv'
    BY <1>1, <2>1 DEF ContextInv, IsContext, IsSeq, CacheInv, CodecInv
  <2>7. PendingFiles' = PendingFiles /\ Base' = Base
    BY <2>1 DEF PendingFiles, Base
  <2>8. Merged(0)'
    <3>1. arrived \in Nat /\ Len(ctx.inodes) \in Nat
      BY <1>1, AppendSeq DEF PoolInv, ContextInv
    <3>2. \A r \in results : r.idx \in 0..(arrived - 1)
      BY <1>1 DEF PoolInv, Placed
    <3>3. \A k \in 0..(arrived - 1) : \E r \in results : r.idx = k
      BY <1>1, <1>2 DEF PhaseInv
    <3>4. DropsUpTo(survey, PendingFiles, cfg, Base)[0] = <<>>
      BY <1>1, SequentialFacts
    <3>5. ctx.drops = <<>> /\ \A i \in 1..Len(ctx.inodes) : ctx.inodes[i].content.kind # "drops"
      BY <1>1, <1>2 DEF PhaseInv
    <3> QED
      BY <2>1, <2>7, <3>1, <3>2, <3>3, <3>4, <3>5 DEF Merged
  <2>9. PhaseInv'
    <3>1. 0 \in 0..arrived'
      BY <1>1, <2>1 DEF PoolInv
    <3> QED
      BY <1>2, <1>4, <2>1, <2>8, <3>1 DEF PhaseInv
  <2> QED
    BY <2>3, <2>5, <2>6, <2>9 DEF WriterInv
<1> QED
  BY <1>3, <1>4 DEF Join

LEMMA CollectErrorKeeps == ASSUME WriterInv, NEW r \in results, CollectError(r) PROVE WriterInv'
<1>1. PoolInv /\ WalkInv
  BY DEF WriterInv
<1>2. phase = "pipeline" /\ job = "layer" /\ inflight = {} /\ ~r.ok /\ Fail(r.file.at)
  BY DEF CollectError
<1>3. walk = "ok"
  <2>1. r.idx \in 0..(arrived - 1) /\ arrived \in Nat
    BY <1>1 DEF PoolInv, Placed
  <2>2. arrived # 0
    BY <2>1
  <2> QED
    BY <1>1, <1>2, <2>2 DEF WalkInv
<1>4. /\ r.idx + 1 \in DOMAIN PendingFiles /\ r.file.at = PendingFiles[r.idx + 1]
      /\ r.file.at \in broken
  BY <1>2, <1>3, FailingFacts
<1>5. \A i \in DOMAIN survey : ~WalkFailsAt(i)
  BY <1>1, <1>3, PendingFilesFacts
<1>6. out' = [kind |-> "error", at |-> r.file.at]
  BY <1>2 DEF Fail
<1>7. Outcome(out')
  BY <1>2, <1>4, <1>5, <1>6 DEF Outcome
<1> QED
  BY <1>2, <1>7, EndsOK DEF Fail

\* The result that is merged next is the one of the next file.
LEMMA NextResult ==
  ASSUME WriterInv, phase = "merge", NEW r \in results, \A q \in results : r.idx <= q.idx
  PROVE  /\ walk = "ok" /\ chan = <<>> /\ inflight = {}
         /\ r.idx \in 0..(arrived - 1) /\ Merged(r.idx)
<1>1. PoolInv /\ PhaseInv
  BY DEF WriterInv
<1>2. PICK m \in 0..arrived : Merged(m)
  BY <1>1 DEF PhaseInv
<1>3. arrived \in Nat /\ \A q \in results : q.idx \in 0..(arrived - 1)
  BY <1>1 DEF PoolInv, Placed
<1>4. m <= r.idx
  BY <1>2 DEF Merged
<1>5. r.idx <= m
  <2>1. m \in m..(arrived - 1)
    BY <1>2, <1>3, <1>4
  <2>2. PICK q \in results : q.idx = m
    BY <1>2, <2>1 DEF Merged
  <2> QED
    BY <2>2
<1>6. m = r.idx
  BY <1>2, <1>3, <1>4, <1>5
<1> QED
  BY <1>1, <1>2, <1>3, <1>6 DEF PhaseInv

LEMMA MergeFailKeeps ==
  ASSUME WriterInv, NEW r \in results, MergeFile(r), ~r.ok
  PROVE  WriterInv'
<1>1. phase = "merge" /\ (\A q \in results : r.idx <= q.idx) /\ Fail(r.file.at)
  BY DEF MergeFile
<1>2. walk = "ok" /\ inflight = {} /\ r.idx \in 0..(arrived - 1) /\ Merged(r.idx)
  BY <1>1, NextResult
<1>3. /\ r.idx + 1 \in DOMAIN PendingFiles /\ r.file.at = PendingFiles[r.idx + 1]
      /\ r.file.at \in broken
  BY <1>2, FailingFacts
<1>4. WalkInv /\ arrived \in Nat
  BY DEF WriterInv, PoolInv
<1>5. (\A i \in DOMAIN survey : ~WalkFailsAt(i)) /\ DOMAIN PendingFiles = 1..Len(PendingFiles)
      /\ Len(PendingFiles) \in Nat
  BY <1>2, <1>4, PendingFilesFacts
<1>6. ASSUME NEW j \in DOMAIN PendingFiles, PendingFiles[j] \in broken PROVE r.idx + 1 <= j
  <2>1. j \notin 1..r.idx
    BY <1>2, <1>6 DEF Merged
  <2> QED
    BY <1>2, <1>4, <1>5, <2>1
<1>7. out' = [kind |-> "error", at |-> r.file.at]
  BY <1>1 DEF Fail
<1>8. Outcome(out')
  BY <1>3, <1>5, <1>6, <1>7 DEF Outcome
<1> QED
  BY <1>1, <1>2, <1>8, EndsOK DEF Fail

\* The drops merged for a file are those a sequential write adds.
LEMMA MergedDrops ==
  ASSUME NEW r, ResultOK(r), r.ok, OneCodec, survey \in Trees, r.file.at \in 1..Len(survey), NEW drops
  PROVE  LET node == survey[r.file.at]
             new  == NewChunks(node.chunks, drops)
         IN [i \in DOMAIN new |-> MakeDrop(cfg, new[i], r.codec[new[i]], node.kind)]
              = Adds(survey, r.file.at, cfg, Base, drops)
<1> DEFINE node == survey[r.file.at]
           new  == NewChunks(node.chunks, drops)
<1>1. node.chunks \in Seq(Chunks)
  BY TreeFacts
<1>2. new \in Seq(ToSet(node.chunks))
  <2> PICK s : s = node.chunks
    OBVIOUS
  <2>1. NewChunks(s, drops) \in Seq(ToSet(s))
    BY <1>1, NewChunksFacts
  <2> QED
    BY <2>1
<1>3. \A i \in DOMAIN new : new[i] \in ToSet(node.chunks)
  <2> HIDE DEF new
  <2> QED
    BY <1>2
<1>4. \A c \in ToSet(node.chunks) : r.codec[c] = CodecOf(cfg, Base, c, node.kind)
  BY DEF ResultOK, CodecsOK, ChunksAt
<1>5. Adds(survey, r.file.at, cfg, Base, drops)
        = [i \in DOMAIN new |-> MakeDrop(cfg, new[i], CodecOf(cfg, Base, new[i], node.kind), node.kind)]
  BY DEF Adds
<1> HIDE DEF new, node
<1>6. \A i \in DOMAIN new : r.codec[new[i]] = CodecOf(cfg, Base, new[i], node.kind)
  BY <1>3, <1>4
<1>7. [i \in DOMAIN new |-> MakeDrop(cfg, new[i], r.codec[new[i]], node.kind)]
        = [i \in DOMAIN new |-> MakeDrop(cfg, new[i], CodecOf(cfg, Base, new[i], node.kind), node.kind)]
  BY <1>6
<1> QED
  BY <1>5, <1>7 DEF new, node

LEMMA MergeKeeps ==
  ASSUME WriterInv, NEW r \in results, MergeFile(r), r.ok
  PROVE  WriterInv'
<1> PICK m : m = r.idx
  OBVIOUS
<1>1. PoolInv /\ WalkInv /\ ContextInv /\ PhaseInv /\ CacheInv /\ CodecInv
  BY DEF WriterInv
<1>2. phase = "merge" /\ (\A q \in results : r.idx <= q.idx) /\ Merge(r)
  BY DEF MergeFile
<1>3. /\ walk = "ok" /\ chan = <<>> /\ inflight = {} /\ m \in 0..(arrived - 1) /\ Merged(m)
      /\ arrived \in Nat /\ m \in Nat
  BY <1>1, <1>2, NextResult DEF PoolInv
<1>4. /\ m + 1 \in DOMAIN PendingFiles /\ r.file.at = PendingFiles[m + 1]
      /\ r.file.at \notin broken
  BY <1>3, FailingFacts
<1> DEFINE node == survey[r.file.at]
           new  == NewChunks(node.chunks, ctx.drops)
           add  == [i \in DOMAIN new |-> MakeDrop(cfg, new[i], r.codec[new[i]], node.kind)]
           content == [kind |-> "drops", chunks |-> node.chunks]
           p == Pushed(ctx, r.file.num, content)
<1>5. /\ ctx' = [p EXCEPT !.drops = @ \o add] /\ results' = results \ {r}
      /\ UNCHANGED <<phase, job, cfg, survey, broken, pos, chan, sink, walk, arrived, inflight, cache, out>>
  BY <1>2 DEF Merge
<1>6. /\ IsContext(p) /\ p.links = ctx.links /\ p.drops = ctx.drops
      /\ IsSeq(p.inodes) /\ Len(p.inodes) = Len(ctx.inodes) + 1
      /\ \A i \in 1..Len(ctx.inodes) : p.inodes[i] = ctx.inodes[i]
      /\ p.inodes[Len(ctx.inodes) + 1].content = content
      /\ Len(ctx.inodes) \in Nat
  BY <1>1, PushedFacts, AppendSeq DEF ContextInv
<1> HIDE DEF p, add, new
<1>7. /\ ctx'.drops = ctx.drops \o add /\ ctx'.inodes = p.inodes /\ ctx'.links = ctx.links
      /\ IsContext(ctx')
  BY <1>5, <1>6 DEF IsContext
<1>8. ContextInv'
  BY <1>1, <1>5, <1>6, <1>7 DEF ContextInv, IsContext, IsSeq
<1>9. \A i : WalkFailsAt(i)' <=> WalkFailsAt(i)
  BY <1>5 DEF WalkFailsAt, NewFileAt
<1>10. WalkInv'
  BY <1>1, <1>5, <1>9 DEF WalkInv
<1>11. PoolInv'
  <2>1. Sent' = Sent
    BY <1>5 DEF Sent
  <2>2. \A f : Placed(f) => Placed(f)'
    BY <1>5, <2>1 DEF Placed
  <2>3. /\ \A f \in inflight' : Placed(f)' /\ FileOK(f)'
        /\ \A q \in results' : Placed(q)' /\ ResultOK(q)'
    BY <1>1, <1>5, <2>2, RecordsKeep DEF PoolInv
  <2> QED
    BY <1>1, <1>5, <2>1, <2>3 DEF PoolInv
<1>12. PendingFiles' = PendingFiles /\ Base' = Base
  BY <1>5 DEF PendingFiles, Base
<1>13. PendingFiles \in Seq(1..Len(survey)) /\ DOMAIN PendingFiles = 1..Len(PendingFiles)
       /\ Len(PendingFiles) \in Nat
  BY <1>1, PendingFilesFacts
<1>14. ASSUME OneCodec PROVE ctx'.drops = DropsUpTo(survey, PendingFiles, cfg, Base)[m + 1]
  <2> DEFINE D == DropsUpTo(survey, PendingFiles, cfg, Base)
  <2>1. r.file.at \in 1..Len(survey) /\ survey \in Trees /\ ResultOK(r)
    BY <1>1, <1>4, <1>13 DEF WalkInv, PoolInv
  <2>2. add = Adds(survey, r.file.at, cfg, Base, ctx.drops)
    BY <1>14, <2>1, MergedDrops DEF add, new
  <2>3. ctx.drops = D[m]
    BY <1>3, <1>14 DEF Merged
  <2>4. m + 1 \in 1..Len(PendingFiles) /\ (m + 1) - 1 = m
    BY <1>3, <1>4, <1>13
  <2>5. D[m + 1] = D[m] \o Adds(survey, PendingFiles[m + 1], cfg, Base, D[m])
    BY <1>1, <2>4, SequentialFacts
  <2> HIDE DEF D
  <2>6. ctx'.drops = D[m + 1]
    BY <1>4, <1>7, <2>2, <2>3, <2>5
  <2> QED
    BY <2>6 DEF D
<1>15. Merged(m + 1)'
  <2>1. \A q \in results' : m + 1 <= q.idx
    <3> SUFFICES ASSUME NEW q \in results' PROVE m + 1 <= q.idx
      OBVIOUS
    <3>1. q \in results /\ q # r
      BY <1>5
    <3>2. q.idx \in 0..(arrived - 1) /\ q.idx # m
      BY <1>1, <3>1 DEF PoolInv, Placed
    <3> QED
      BY <1>2, <1>3, <3>1, <3>2
  <2>2. \A k \in (m + 1)..(arrived - 1) : \E q \in results' : q.idx = k
    <3> SUFFICES ASSUME NEW k \in (m + 1)..(arrived - 1) PROVE \E q \in results' : q.idx = k
      OBVIOUS
    <3>1. k \in m..(arrived - 1) /\ k # m
      BY <1>3
    <3>2. PICK q \in results : q.idx = k
      BY <1>3, <3>1 DEF Merged
    <3> QED
      BY <1>5, <3>1, <3>2
  <2>3. \A k \in 1..(m + 1) : k \in 1..m \/ k = m + 1
    BY <1>3
  <2>4. \A k \in 1..(m + 1) : PendingFiles[k] \notin broken
    BY <1>3, <1>4, <2>3 DEF Merged
  <2>5. m <= Len(ctx.inodes) /\ m + 1 \in 0..arrived
    BY <1>3 DEF Merged
  <2>6. Len(ctx'.inodes) = Len(ctx.inodes) + 1 /\ Len(ctx'.inodes) - (m + 1) = Len(ctx.inodes) - m
        /\ m + 1 <= Len(ctx'.inodes)
    BY <1>3, <1>6, <1>7, <2>5
  <2>7. \A i \in 1..(Len(ctx'.inodes) - (m + 1)) : ctx'.inodes[i].content.kind # "drops"
    <3> SUFFICES ASSUME NEW i \in 1..(Len(ctx.inodes) - m) PROVE ctx'.inodes[i].content.kind # "drops"
      BY <2>6
    <3>1. i \in 1..Len(ctx.inodes)
      BY <1>3, <1>6
    <3> QED
      BY SMTT(30), <1>3, <1>6, <1>7, <3>1 DEF Merged
  <2>8. ASSUME NEW k \in 1..(m + 1)
        PROVE  ctx'.inodes[Len(ctx'.inodes) - (m + 1) + k].content =
                 [kind |-> "drops", chunks |-> survey[PendingFiles[k]].chunks]
    <3>1. CASE k = m + 1
      <4>1. Len(ctx'.inodes) - (m + 1) + k = Len(ctx.inodes) + 1
        BY <1>3, <1>6, <2>6, <3>1
      <4> QED
        BY <1>4, <1>6, <1>7, <3>1, <4>1
    <3>2. CASE k \in 1..m
      <4>1. Len(ctx.inodes) - m + k \in 1..Len(ctx.inodes)
        BY SMTT(30), <1>3, <1>6, <2>5, <3>2
      <4>2. Len(ctx'.inodes) - (m + 1) + k = Len(ctx.inodes) - m + k
        BY <2>6
      <4>3. ctx.inodes[Len(ctx.inodes) - m + k].content =
              [kind |-> "drops", chunks |-> survey[PendingFiles[k]].chunks]
        BY <1>3, <3>2 DEF Merged
      <4>4. p.inodes[Len(ctx.inodes) - m + k] = ctx.inodes[Len(ctx.inodes) - m + k]
        BY <1>6, <4>1
      <4> QED
        BY <1>7, <4>2, <4>3, <4>4
    <3> QED
      BY <2>3, <3>1, <3>2
  <2> QED
    BY <1>5, <1>12, <1>14, <2>1, <2>2, <2>4, <2>5, <2>6, <2>7, <2>8 DEF Merged
<1>16. PhaseInv'
  <2>1. m + 1 \in 0..arrived'
    BY <1>3, <1>5
  <2> QED
    BY <1>2, <1>3, <1>5, <1>15, <2>1 DEF PhaseInv
<1>17. CacheInv' /\ CodecInv'
  BY <1>1, <1>5 DEF CacheInv, CodecInv
<1> QED
  BY <1>8, <1>10, <1>11, <1>16, <1>17 DEF WriterInv

\* Every inode is encoded in place; one backed by drops stays so.
LEMMA EncodedFacts ==
  ASSUME NEW n, NEW table, NEW nlink
  PROVE  /\ n.content.kind = "drops" => EncodeInode(n, table, nlink).content = n.content
         /\ n.content.kind # "drops" => EncodeInode(n, table, nlink).content.kind # "drops"
<1> DEFINE shared == n.content.kind = "inline" /\ n.content.chunks \in ToSet(table)
           count == IF n.num \in DOMAIN nlink THEN nlink[n.num] ELSE 1
           index == CHOOSE i \in DOMAIN table : table[i] = n.content.chunks
<1>1. EncodeInode(n, table, nlink)
        = [num |-> n.num, nlink |-> count,
           content |-> IF shared THEN [kind |-> "shared", index |-> index] ELSE n.content]
  BY DEF EncodeInode
<1> HIDE DEF count, index
<1> QED
  BY <1>1

LEMMA AssembleKeeps == ASSUME WriterInv, Assemble PROVE WriterInv'
<1>1. PoolInv /\ WalkInv /\ ContextInv /\ PhaseInv
  BY DEF WriterInv
<1> PICK table, nlink, inodes :
      /\ table = IF cfg.shared THEN SharedInline(ctx.inodes) ELSE <<>>
      /\ nlink = ctx.nlink
      /\ inodes = [i \in DOMAIN ctx.inodes |-> EncodeInode(ctx.inodes[i], table, nlink)]
  OBVIOUS
<1>2. /\ phase = "merge" /\ results = {} /\ phase' = "done"
      /\ out' = [kind |-> "image", inodes |-> inodes, shared |-> table,
                 slabs |-> PackSlabs(ApplyDictionaries(cfg, Adopted, ctx.drops)),
                 dicts |-> EmittedDictionaries(cfg, Adopted, ctx.drops)]
      /\ UNCHANGED <<job, cfg, survey, broken, pos, ctx, pipeVars, cache>>
  BY DEF Assemble
<1>3. walk = "ok" /\ chan = <<>> /\ inflight = {}
  BY <1>1, <1>2 DEF PhaseInv
<1>4. PICK m \in 0..arrived : Merged(m)
  BY <1>1, <1>2 DEF PhaseInv
<1>5. arrived \in Nat /\ Len(Sent) = arrived
  BY <1>1, <1>3 DEF PoolInv
<1>6. /\ Sent = PendingFiles /\ DOMAIN PendingFiles = 1..Len(PendingFiles)
      /\ \A i \in DOMAIN survey : ~WalkFailsAt(i)
  BY <1>1, <1>3, PendingFilesFacts
<1>7. m = arrived
  <2>1. ~(m <= arrived - 1)
    <3> SUFFICES ASSUME m <= arrived - 1 PROVE FALSE
      OBVIOUS
    <3>1. m \in m..(arrived - 1)
      BY <1>4, <1>5
    <3> QED
      BY <1>2, <1>4, <3>1 DEF Merged
  <2> QED
    BY <1>4, <1>5, <2>1
<1>8. Len(PendingFiles) = m
  BY <1>5, <1>6, <1>7
<1>9. {k \in DOMAIN PendingFiles : PendingFiles[k] \in broken} = {}
  BY <1>4, <1>6, <1>8 DEF Merged
<1>10. OneCodec => ctx.drops = SequentialDrops
  BY <1>4, <1>8 DEF Merged, SequentialDrops
<1>11. Len(ctx.inodes) \in Nat /\ DOMAIN ctx.inodes = 1..Len(ctx.inodes)
  BY <1>1 DEF ContextInv, IsSeq
<1>12. Len(inodes) = Len(ctx.inodes) /\ \A i \in 1..Len(ctx.inodes) : inodes[i] = EncodeInode(ctx.inodes[i], table, nlink)
  BY <1>11
<1>13. m <= Len(ctx.inodes) /\ m \in Nat
  BY <1>4, <1>5, <1>7 DEF Merged
<1>14. \A i \in 1..(Len(inodes) - m) : inodes[i].content.kind # "drops"
  <2> SUFFICES ASSUME NEW i \in 1..(Len(ctx.inodes) - m) PROVE inodes[i].content.kind # "drops"
    BY <1>12
  <2>1. i \in 1..Len(ctx.inodes)
    BY <1>11, <1>13
  <2>2. ctx.inodes[i].content.kind # "drops"
    BY <1>4 DEF Merged
  <2> QED
    BY <1>12, <2>1, <2>2, EncodedFacts
<1>15. ASSUME NEW k \in 1..m
       PROVE  inodes[(Len(inodes) - m) + k].content = [kind |-> "drops", chunks |-> survey[PendingFiles[k]].chunks]
  <2> DEFINE i == (Len(ctx.inodes) - m) + k
  <2>1. i \in 1..Len(ctx.inodes) /\ i = (Len(inodes) - m) + k
    BY <1>11, <1>12, <1>13
  <2>2. ctx.inodes[i].content = [kind |-> "drops", chunks |-> survey[PendingFiles[k]].chunks]
    BY <1>4 DEF Merged
  <2> HIDE DEF i
  <2>3. ctx.inodes[i].content.kind = "drops"
    BY <2>2
  <2> QED
    BY SMTT(30), <1>12, <2>1, <2>2, <2>3, EncodedFacts
<1>16. OneCodec => Outcome(out')
  <2>1. /\ out'.kind = "image" /\ out'.inodes = inodes
        /\ out'.slabs = PackSlabs(ApplyDictionaries(cfg, Adopted, ctx.drops))
        /\ out'.dicts = EmittedDictionaries(cfg, Adopted, ctx.drops)
    BY <1>2
  <2>2. Len(inodes) - m >= 0
    BY <1>11, <1>12, <1>13
  <2> QED
    BY <1>6, <1>8, <1>9, <1>10, <1>14, <1>15, <2>1, <2>2 DEF Outcome
<1> QED
  BY <1>2, <1>3, <1>16, EndsOK

----------------------------------------------------------------------------
(* The specification.                                                      *)

\* A write that has just begun.
LEMMA StartsOK ==
  ASSUME NEW s \in Trees, job' \in Jobs, cfg' \in Configs, survey' = s, CacheInv', CodecInv',
         phase' \in {"idle", "pipeline"}, pos' = 1, ctx' = EmptyContext, chan' = <<>>, sink' = "open",
         walk' = "running", arrived' = 0, inflight' = {}, results' = {}
  PROVE  WriterInv'
<1>1. Len(s) \in Nat
  BY TreeFacts
<1>2. Sent' = <<>>
  BY PendingFacts DEF Sent
<1>3. IsSeq(<<>>)
  BY DEF IsSeq
<1>4. PoolInv'
  BY <1>2, <1>3 DEF PoolInv, IsSeq
<1>5. WalkInv'
  BY <1>1, WriterAssumption DEF WalkInv
<1>6. ContextInv'
  <2>1. /\ IsContext(EmptyContext) /\ DOMAIN EmptyContext.links = {} /\ EmptyContext.inodes = <<>>
        /\ EmptyContext.drops = <<>>
    BY DEF IsContext, EmptyContext
  <2>2. Inos(s, 0) = {}
    BY DEF Inos
  <2> QED
    BY <1>3, <2>1, <2>2 DEF ContextInv, IsContext, IsSeq
<1>7. PhaseInv'
  BY DEF PhaseInv, EmptyContext
<1> QED
  BY <1>4, <1>5, <1>6, <1>7 DEF WriterInv

LEMMA BeginKeeps == ASSUME WriterInv, Begin PROVE WriterInv'
<1>1. CacheInv' /\ CodecInv'
  BY DEF WriterInv, Begin, CacheInv, CodecInv
<1> QED
  BY <1>1, StartsOK DEF Begin

LEMMA InitOK == ASSUME Init PROVE WriterInv
<1>1. job \in Jobs /\ cfg \in Configs /\ survey \in Trees
  BY WriterAssumption DEF Init
<1>2. Len(survey) \in Nat
  BY <1>1, TreeFacts
<1>3. Sent = <<>>
  BY <1>1, PendingFacts DEF Init, Sent
<1>4. IsSeq(<<>>)
  BY DEF IsSeq
<1>5. PoolInv
  BY <1>3, <1>4 DEF Init, PoolInv
<1>6. WalkInv
  BY <1>1, <1>2, WriterAssumption DEF Init, WalkInv
<1>7. ContextInv
  <2>1. /\ IsContext(EmptyContext) /\ DOMAIN EmptyContext.links = {} /\ EmptyContext.inodes = <<>>
    BY DEF IsContext, EmptyContext
  <2>2. Inos(survey, 0) = {}
    BY DEF Inos
  <2> QED
    BY <1>4, <2>1, <2>2 DEF Init, ContextInv
<1>8. PhaseInv
  BY DEF Init, PhaseInv
<1>9. CacheInv /\ CodecInv
  BY FS_EmptySet, WriterAssumption DEF Init, CacheInv, CodecInv
<1> QED
  BY <1>5, <1>6, <1>7, <1>8, <1>9 DEF WriterInv

LEMMA StutterKeeps == ASSUME WriterInv, UNCHANGED vars PROVE WriterInv'
<1>1. PoolInv /\ WalkInv /\ ContextInv /\ PhaseInv /\ CacheInv /\ CodecInv
  BY DEF WriterInv
<1>2. UNCHANGED <<phase, job, cfg, survey, broken, pos, ctx, chan, sink, walk, arrived, inflight,
                  results, cache, out>>
  BY DEF vars, pipeVars
<1>3. \A i : WalkFailsAt(i)' <=> WalkFailsAt(i)
  BY <1>2 DEF WalkFailsAt, NewFileAt
<1>4. Sent' = Sent /\ PendingFiles' = PendingFiles /\ Base' = Base /\ Adopted' = Adopted
  BY <1>2 DEF Sent, PendingFiles, Base, Adopted
<1>5. SequentialDrops' = SequentialDrops
  BY <1>2, <1>4 DEF SequentialDrops
<1>6. SameAsSequential => SameAsSequential'
  BY <1>2, <1>3, <1>4, <1>5 DEF SameAsSequential
<1>7. \A m : Merged(m) => Merged(m)'
  BY <1>2, <1>4 DEF Merged
<1>8. PoolInv'
  <2>1. \A f : Placed(f) => Placed(f)'
    BY <1>2, <1>4 DEF Placed
  <2>2. /\ \A f \in inflight : Placed(f)' /\ FileOK(f)'
        /\ \A r \in results : Placed(r)' /\ ResultOK(r)'
    BY <1>1, <1>2, <2>1, RecordsKeep DEF PoolInv
  <2> QED
    BY <1>1, <1>2, <1>4, <2>2 DEF PoolInv
<1>9. WalkInv' /\ ContextInv'
  BY <1>1, <1>2, <1>3 DEF WalkInv, ContextInv, IsContext, IsSeq
<1>10. PhaseInv' /\ CacheInv' /\ CodecInv'
  BY <1>1, <1>2, <1>6, <1>7 DEF PhaseInv, CacheInv, CodecInv
<1> QED
  BY <1>8, <1>9, <1>10 DEF WriterInv

\* The invariant is inductive.
LEMMA NextKeeps == WriterInv /\ [Next]_vars => WriterInv'
<1> SUFFICES ASSUME WriterInv, [Next]_vars PROVE WriterInv'
  OBVIOUS
<1>1. CASE Begin
  BY <1>1, BeginKeeps
<1>2. CASE Fold
  BY <1>2, FoldDirKeeps, FoldEndKeeps, FoldSymlinkKeeps, FoldHardlinkKeeps, FoldInlineKeeps,
     FoldLargeKeeps, FoldErrorKeeps, FoldDoneKeeps DEF Fold
<1>3. CASE Pool
  <2>1. CASE Take
    BY <2>1, TakeKeeps
  <2>2. ASSUME NEW f \in inflight, ReadFails(f) PROVE WriterInv'
    BY <2>2, FinishedKeeps DEF ReadFails
  <2>3. ASSUME NEW f \in inflight, FinishFile(f) PROVE WriterInv'
    BY <2>3, FinishedKeeps DEF FinishFile
  <2>4. ASSUME NEW f \in inflight, NEW w \in Workers, NEW c \in f.todo, CompressChunk(w, f, c)
        PROVE  WriterInv'
    BY <2>4, CompressKeeps
  <2> QED
    BY <1>3, <2>1, <2>2, <2>3, <2>4 DEF Pool
<1>4. CASE Caller
  <2>1. CASE Join
    BY <2>1, JoinKeeps
  <2>2. ASSUME NEW r \in results, CollectError(r) PROVE WriterInv'
    BY <2>2, CollectErrorKeeps
  <2>3. ASSUME NEW r \in results, MergeFile(r) PROVE WriterInv'
    BY <2>3, MergeKeeps, MergeFailKeeps
  <2>4. CASE Assemble
    BY <2>4, AssembleKeeps
  <2> QED
    BY <1>4, <2>1, <2>2, <2>3, <2>4 DEF Caller
<1>5. CASE UNCHANGED vars
  BY <1>5, StutterKeeps
<1> QED
  BY <1>1, <1>2, <1>3, <1>4, <1>5 DEF Next

LEMMA WriterInvHolds == Spec => []WriterInv
BY InitOK, NextKeeps, PTL DEF Spec

\* The channel of a streaming write never holds more than PIPELINE_CAPACITY
\* files, no compress cache more than COMPRESS_CACHE_MAX_ENTRIES drops, and no
\* file is in the pool that was not taken off the channel; whatever the tree,
\* the configurations and the number of threads.
THEOREM WriterTypeCorrect == Spec => []WriterTypeOK
<1>1. ASSUME WriterInv PROVE WriterTypeOK
  <2>1. PoolInv /\ WalkInv /\ CacheInv
    BY <1>1 DEF WriterInv
  <2>2. \A f \in inflight \cup results : f.idx \in 0..(arrived - 1) /\ arrived \in Nat
    BY <2>1 DEF PoolInv, Placed
  <2>3. \A f \in inflight \cup results : f.idx < arrived
    BY <2>2
  <2> QED
    BY <2>1, <2>3 DEF WalkInv, CacheInv, WriterTypeOK
<1> QED
  BY <1>1, WriterInvHolds, PTL

\* write_directory_streaming and write_layer are deterministic: in whatever
\* order the threads of the pool compress and finish the files, the write ends
\* with the slabs, dictionaries and file inodes, or the error, of a sequential
\* one.  The configurations of the process choose the same codecs, because the
\* compress caches, which are keyed by content alone, outlive a write.
THEOREM PackingIsSequential ==
  ASSUME OneCodec
  PROVE  Spec => []SameAsSequential
<1>1. ASSUME WriterInv PROVE SameAsSequential
  BY <1>1 DEF WriterInv, PhaseInv, SameAsSequential
<1> QED
  BY <1>1, WriterInvHolds, PTL
============================================================================
