------------------------ MODULE DirectoryReadProofs ------------------------
(***************************************************************************)
(* Every file reads back: the invariant and the proof of                   *)
(* EveryFileReadsBack of DirectoryWriter, on top of the pipeline's own     *)
(* invariant (DirectoryWriterProofs).                                      *)
(*                                                                         *)
(* The parts of the invariant are about a tree t of which n nodes are      *)
(* walked, the files `sent` to the pool, the number m of them that are     *)
(* merged, and a context c; a step of the walk or of the merge takes each  *)
(* part to itself.                                                         *)
(***************************************************************************)
EXTENDS DirectoryWriterProofs

IsFile(t, j) == t[j].kind \in FileKinds

Ids(drops) == {drops[i].id : i \in DOMAIN drops}

\* Inode numbers: handed out in order, one to a file.
NumInv(c) ==
  /\ c.next \in Nat
  /\ \A x \in DOMAIN c.links : c.links[x] \in Nat /\ c.links[x] < c.next
  /\ \A x, y \in DOMAIN c.links : c.links[x] = c.links[y] => x = y
  /\ \A i \in 1..Len(c.stack) :
       /\ c.stack[i].num \in Nat /\ c.stack[i].num < c.next
       /\ \A x \in DOMAIN c.links : c.links[x] # c.stack[i].num
  /\ \A i \in 1..Len(c.inodes) : c.inodes[i].num \in Nat /\ c.inodes[i].num < c.next
  /\ \A k \in DOMAIN c.nlink : \E x \in DOMAIN c.links : k = c.links[x]

\* An entry of a directory that is being folded, or of one that is done.
InStack(st, e) == \E i \in 1..Len(st) : e \in ToSet(st[i].entries)
InDirs(inodes, e) ==
  \E i \in 1..Len(inodes) :
    inodes[i].content.kind = "directory" /\ e \in ToSet(inodes[i].content.entries)
HasEntry(c, e) == InStack(c.stack, e) \/ InDirs(c.inodes, e)

\* The directories being folded.
Frames(t, n, st) ==
  /\ IsSeq(st)
  /\ \A i \in 1..Len(st) :
       /\ st[i] = [num |-> st[i].num, at |-> st[i].at, entries |-> st[i].entries]
       /\ IsSeq(st[i].entries)
       /\ st[i].at \in 1..n /\ t[st[i].at].kind = "dir"
  /\ Len(st) = Depth(t, n)

\* Every file that was walked has an entry under its name, which leads to
\* its number, and no other.
EntryInv(t, n, c) ==
  /\ \A e : HasEntry(c, e) =>
       e.name \in 1..n /\ (IsFile(t, e.name) => e.num = c.links[t[e.name].ino])
  /\ \A j \in 1..n : IsFile(t, j) => HasEntry(c, [name |-> j, num |-> c.links[t[j].ino]])

\* The link count of a file is the number of its entries.
LinksOf(nlink, num) == IF num \in DOMAIN nlink THEN nlink[num] ELSE 1
NodesOf(t, n, x) == {j \in 1..n : IsFile(t, j) /\ t[j].ino = x}
CountInv(t, n, c) ==
  \A x \in DOMAIN c.links : LinksOf(c.nlink, c.links[x]) = Cardinality(NodesOf(t, n, x))

\* Exactly one inode has the number, with this content; or none has it.
One(inodes, num, content) ==
  \E i \in 1..Len(inodes) : /\ inodes[i] = [num |-> num, content |-> content]
                            /\ \A k \in 1..Len(inodes) : inodes[k].num = num => k = i
None(inodes, num) == \A k \in 1..Len(inodes) : inodes[k].num # num

DropsOf(node) == [kind |-> "drops", chunks |-> node.chunks]
InlineOf(node) == [kind |-> "inline", chunks |-> node.chunks]

\* A file that was sent has its inode once it is merged, another one has it
\* from the walk.
SentInv(t, sent, m, c) ==
  \A k \in 1..Len(sent) :
    IF k <= m
    THEN /\ One(c.inodes, c.links[t[sent[k]].ino], DropsOf(t[sent[k]]))
         /\ ToSet(t[sent[k]].chunks) \subseteq Ids(c.drops)
    ELSE None(c.inodes, c.links[t[sent[k]].ino])

InlineInv(t, n, sent, c) ==
  \A j \in 1..n : IsFile(t, j) =>
    \/ \E k \in 1..Len(sent) : t[sent[k]].ino = t[j].ino
    \/ One(c.inodes, c.links[t[j].ino], InlineOf(t[j]))

\* What the walk of the first n nodes leaves in a context.
Walked(t, n, sent, m, c) ==
  /\ IsContext(c) /\ IsSeq(c.inodes) /\ DOMAIN c.links = Inos(t, n)
  /\ NumInv(c) /\ Frames(t, n, c.stack) /\ EntryInv(t, n, c) /\ CountInv(t, n, c)
  /\ SentInv(t, sent, m, c) /\ InlineInv(t, n, sent, c)

\* A drop of the chunk may be made a container of frames.
MayBeContainer(config, c) == config.seekable /\ (SizeOf[c] > WholeThreshold \/ SizeOf[c] > ChunkThreshold)

\* A drop that is queued decodes; a reference is to a drop of the base.
DropOK(config, base, d) ==
  /\ d = [id |-> d.id, codec |-> d.codec, seekable |-> d.seekable, dict |-> "none", body |-> d.body]
  /\ d.id \in Chunks
  /\ d.seekable => MayBeContainer(config, d.id) /\ d.body = "container"
  /\ ~d.seekable => d.body = "stream"
  /\ d.codec = "referenced" => d.id \in base

DropsInv(config, base, drops) ==
  /\ IsSeq(drops)
  /\ \A i \in 1..Len(drops) : DropOK(config, base, drops[i])
  /\ \A i, j \in 1..Len(drops) : drops[i].id = drops[j].id => i = j

----------------------------------------------------------------------------
(* Numbers.                                                                *)

\* What a step does with numbers: it may hand out the next one, to a file or
\* to a directory; the others it uses are in use.
NumNext(c, d) ==
  /\ d.next \in {c.next, c.next + 1}
  /\ \/ d.links = c.links
     \/ d.next = c.next + 1 /\ \E x : x \notin DOMAIN c.links /\ d.links = Put(c.links, x, c.next)
  /\ \A i \in 1..Len(d.inodes) :
       \/ \E k \in 1..Len(c.inodes) : d.inodes[i].num = c.inodes[k].num
       \/ d.inodes[i].num \in Nat /\ d.inodes[i].num < d.next
  /\ \A i \in 1..Len(d.stack) :
       \/ \E k \in 1..Len(c.stack) : d.stack[i].num = c.stack[k].num
       \/ d.stack[i].num = c.next /\ d.next = c.next + 1 /\ d.links = c.links
  /\ \A k \in DOMAIN d.nlink : k \in DOMAIN c.nlink \/ \E x \in DOMAIN c.links : k = c.links[x]

KeepsLinks(c, d) == \A x \in DOMAIN c.links : x \in DOMAIN d.links /\ d.links[x] = c.links[x]

LEMMA NumStep ==
  ASSUME NEW c, NumInv(c), NEW d, NumNext(c, d)
  PROVE  NumInv(d) /\ KeepsLinks(c, d)
<1> USE DEF NumNext, KeepsLinks
<1>1. /\ c.next \in Nat /\ d.next \in Nat /\ c.next <= d.next
      /\ \A k \in Nat : k < c.next => k < d.next
  BY DEF NumInv
<1>2. \A x \in DOMAIN c.links : x \in DOMAIN d.links /\ d.links[x] = c.links[x]
  BY DEF Put
<1>3. \A x \in DOMAIN d.links :
        \/ x \in DOMAIN c.links /\ d.links[x] = c.links[x]
        \/ x \notin DOMAIN c.links /\ d.links[x] = c.next /\ d.next = c.next + 1 /\ d.links # c.links
  BY DEF Put
<1>4. ASSUME NEW x \in DOMAIN d.links PROVE d.links[x] \in Nat /\ d.links[x] < d.next
  BY <1>1, <1>3 DEF NumInv
<1>5. ASSUME NEW x \in DOMAIN d.links, NEW y \in DOMAIN d.links, d.links[x] = d.links[y] PROVE x = y
  <2>1. CASE d.links = c.links
    BY <1>5, <2>1 DEF NumInv
  <2>2. CASE d.links # c.links
    <3>1. PICK z : z \notin DOMAIN c.links /\ d.links = Put(c.links, z, c.next)
      BY <2>2
    <3>2. \A v \in DOMAIN d.links : d.links[v] = IF v = z THEN c.next ELSE c.links[v]
      BY <3>1 DEF Put
    <3>3. \A v \in DOMAIN d.links : v = z \/ v \in DOMAIN c.links
      BY <3>1 DEF Put
    <3>4. \A v \in DOMAIN c.links : c.links[v] # c.next
      BY <1>1 DEF NumInv
    <3> QED
      BY <1>5, <3>2, <3>3, <3>4 DEF NumInv
  <2> QED
    BY <2>1, <2>2
<1>6. ASSUME NEW i \in 1..Len(d.stack)
      PROVE  /\ d.stack[i].num \in Nat /\ d.stack[i].num < d.next
             /\ \A x \in DOMAIN d.links : d.links[x] # d.stack[i].num
  <2>1. CASE d.stack[i].num = c.next /\ d.next = c.next + 1 /\ d.links = c.links
    BY <1>1, <2>1 DEF NumInv
  <2>2. CASE \E k \in 1..Len(c.stack) : d.stack[i].num = c.stack[k].num
    <3>1. PICK k \in 1..Len(c.stack) : d.stack[i].num = c.stack[k].num
      BY <2>2
    <3>2. /\ c.stack[k].num \in Nat /\ c.stack[k].num < c.next
          /\ \A x \in DOMAIN c.links : c.links[x] # c.stack[k].num
      BY DEF NumInv
    <3> QED
      BY SMTT(30), <1>1, <1>3, <3>1, <3>2
  <2> QED
    BY <2>1, <2>2
<1>7. ASSUME NEW i \in 1..Len(d.inodes) PROVE d.inodes[i].num \in Nat /\ d.inodes[i].num < d.next
  BY <1>1 DEF NumInv
<1>8. ASSUME NEW k \in DOMAIN d.nlink PROVE \E x \in DOMAIN d.links : k = d.links[x]
  <2>1. PICK x \in DOMAIN c.links : k = c.links[x]
    BY DEF NumInv
  <2> QED
    BY <1>2, <2>1
<1> QED
  BY <1>1, <1>2, <1>4, <1>5, <1>6, <1>7, <1>8 DEF NumInv

----------------------------------------------------------------------------
(* Entries.                                                                *)

\* A step that enters nothing but the node it is at, or a directory.
LEMMA EntryStep ==
  ASSUME NEW t, NEW n \in Nat, NEW c, NEW d, EntryInv(t, n, c), DOMAIN c.links = Inos(t, n),
         KeepsLinks(c, d),
         \A e : HasEntry(c, e) => HasEntry(d, e),
         \A e : HasEntry(d, e) =>
           \/ HasEntry(c, e)
           \/ e.name \in 1..n /\ ~IsFile(t, e.name)
           \/ e.name = n + 1 /\ (IsFile(t, n + 1) => e.num = d.links[t[n + 1].ino]),
         IsFile(t, n + 1) => HasEntry(d, [name |-> n + 1, num |-> d.links[t[n + 1].ino]])
  PROVE  EntryInv(t, n + 1, d)
<1>1. \A j \in 1..(n + 1) : j \in 1..n \/ j = n + 1
  OBVIOUS
<1>2. 1..n \subseteq 1..(n + 1) /\ n + 1 \in 1..(n + 1)
  OBVIOUS
<1>3. \A j \in 1..n : IsFile(t, j) => t[j].ino \in DOMAIN c.links
  BY DEF Inos, IsFile
<1>4. ASSUME NEW e, HasEntry(d, e)
      PROVE  e.name \in 1..(n + 1) /\ (IsFile(t, e.name) => e.num = d.links[t[e.name].ino])
  <2>1. CASE HasEntry(c, e)
    <3>1. e.name \in 1..n /\ (IsFile(t, e.name) => e.num = c.links[t[e.name].ino])
      BY <2>1 DEF EntryInv
    <3> QED
      BY <1>2, <1>3, <3>1 DEF KeepsLinks
  <2> QED
    BY <1>2, <1>4, <2>1
<1>5. ASSUME NEW j \in 1..(n + 1), IsFile(t, j) PROVE HasEntry(d, [name |-> j, num |-> d.links[t[j].ino]])
  <2>1. CASE j \in 1..n
    <3>1. HasEntry(c, [name |-> j, num |-> c.links[t[j].ino]])
      BY <1>5, <2>1 DEF EntryInv
    <3>2. c.links[t[j].ino] = d.links[t[j].ino]
      BY <1>3, <1>5, <2>1 DEF KeepsLinks
    <3> QED
      BY <3>1, <3>2
  <2> QED
    BY <1>1, <1>5, <2>1
<1> QED
  BY <1>4, <1>5 DEF EntryInv

\* A sequence is its elements.
LEMMA SeqFacts ==
  ASSUME NEW s, IsSeq(s)
  PROVE  /\ Len(s) \in Nat /\ DOMAIN s = 1..Len(s) /\ s = [i \in 1..Len(s) |-> s[i]]
         /\ s = <<>> <=> Len(s) = 0
         /\ \A x : x \in ToSet(s) <=> \E i \in 1..Len(s) : s[i] = x
         /\ \A x : ToSet(Append(s, x)) = ToSet(s) \cup {x}
<1>1. s \in Seq(ToSet(s))
  BY DEF IsSeq
<1>2. Len(s) \in Nat /\ DOMAIN s = 1..Len(s) /\ s = [i \in 1..Len(s) |-> s[i]] /\ (s = <<>> <=> Len(s) = 0)
  BY <1>1
<1>3. \A x : x \in ToSet(s) <=> \E i \in 1..Len(s) : s[i] = x
  BY <1>2 DEF ToSet
<1>4. ASSUME NEW x PROVE ToSet(Append(s, x)) = ToSet(s) \cup {x}
  <2> DEFINE a == Append(s, x)
  <2>1. /\ IsSeq(a) /\ Len(a) = Len(s) + 1
        /\ \A i \in 1..Len(s) : a[i] = s[i]
        /\ a[Len(s) + 1] = x
    BY AppendSeq
  <2> HIDE DEF a
  <2>2. DOMAIN a = 1..(Len(s) + 1)
    BY <2>1 DEF IsSeq
  <2>3. \A i \in 1..(Len(s) + 1) : i \in 1..Len(s) \/ i = Len(s) + 1
    BY <1>2
  <2>4. 1..Len(s) \subseteq 1..(Len(s) + 1) /\ Len(s) + 1 \in 1..(Len(s) + 1)
    BY <1>2
  <2>5. ToSet(a) = ToSet(s) \cup {x}
    BY <1>2, <2>1, <2>2, <2>3, <2>4 DEF ToSet
  <2> QED
    BY <2>5 DEF a
<1> QED
  BY <1>2, <1>3, <1>4

LEMMA IsSeqFrom ==
  ASSUME NEW n \in Nat, NEW s, s = [i \in 1..n |-> s[i]]
  PROVE  IsSeq(s) /\ Len(s) = n
<1>1. s \in [1..n -> ToSet(s)]
  BY DEF ToSet
<1>2. s \in Seq(ToSet(s))
  BY <1>1
<1> QED
  BY <1>2 DEF IsSeq

\* Entered, on the stack.
EntersIn(st, at, num, s2) ==
  /\ Len(s2) = Len(st)
  /\ \A i \in 1..Len(st) : s2[i].num = st[i].num
  /\ \A x : InStack(s2, x) <=> InStack(st, x) \/ (st # <<>> /\ x = [name |-> at, num |-> num])

LEMMA EnteredStack ==
  ASSUME NEW c, IsContext(c), NEW t, NEW n, Frames(t, n, c.stack), NEW at, NEW num,
         NEW e, e = Entered(c, at, num)
  PROVE  Frames(t, n, e.stack) /\ EntersIn(c.stack, at, num, e.stack) /\ e.nlink = c.nlink
<1> USE DEF EntersIn
<1>1. CASE c.stack = <<>>
  BY <1>1 DEF Entered
<1>2. CASE c.stack # <<>>
  <2> DEFINE st == c.stack
             L == Len(st)
             new == [name |-> at, num |-> num]
             es == Append(st[L].entries, new)
             f == [num |-> st[L].num, at |-> st[L].at, entries |-> es]
  <2>1. /\ IsSeq(st) /\ Len(st) = Depth(t, n)
        /\ \A i \in 1..L : /\ st[i] = [num |-> st[i].num, at |-> st[i].at, entries |-> st[i].entries]
                           /\ IsSeq(st[i].entries)
                           /\ st[i].at \in 1..n /\ t[st[i].at].kind = "dir"
    BY DEF Frames
  <2>2. L \in Nat /\ st = [i \in 1..L |-> st[i]] /\ L # 0
    BY <1>2, <2>1, SeqFacts
  <2>3. L \in 1..L
    BY <2>2
  <2>4. IsSeq(es) /\ ToSet(es) = ToSet(st[L].entries) \cup {new}
    BY ZenonT(30), <2>1, <2>3, SeqFacts, AppendSeq
  <2>5. e = [c EXCEPT !.stack = [st EXCEPT ![L] = [st[L] EXCEPT !.entries = es]]]
    BY <1>2 DEF Entered
  <2> HIDE DEF es, new
  <2>6. [st[L] EXCEPT !.entries = es] = f
    <3> PICK g : g = st[L]
      OBVIOUS
    <3>1. g = [num |-> g.num, at |-> g.at, entries |-> g.entries]
      BY <2>1, <2>3, Zenon
    <3>2. [g EXCEPT !.entries = es] = [num |-> g.num, at |-> g.at, entries |-> es]
      BY <3>1
    <3> QED
      BY <3>2
  <2>7. e.stack = [st EXCEPT ![L] = f] /\ e.nlink = c.nlink
    BY <2>5, <2>6 DEF IsContext
  <2>8. f.num = st[L].num /\ f.at = st[L].at /\ f.entries = es
        /\ f = [num |-> f.num, at |-> f.at, entries |-> f.entries]
    OBVIOUS
  <2> HIDE DEF f, st
  <2>9. e.stack = [i \in 1..L |-> IF i = L THEN f ELSE st[i]]
    BY <2>2, <2>7
  <2>10. e.stack = [i \in 1..L |-> e.stack[i]]
    BY <2>9
  <2>11. IsSeq(e.stack) /\ Len(e.stack) = L
    BY <2>2, <2>10, IsSeqFrom
  <2>12. \A i \in 1..L : e.stack[i] = IF i = L THEN f ELSE st[i]
    BY <2>9
  <2>13. Frames(t, n, e.stack)
    BY <2>1, <2>3, <2>4, <2>8, <2>11, <2>12 DEF Frames
  <2>14. \A x : InStack(e.stack, x) <=> InStack(st, x) \/ x = new
    BY <2>3, <2>4, <2>8, <2>11, <2>12 DEF InStack
  <2> QED
    BY <1>2, <2>7, <2>8, <2>11, <2>12, <2>13, <2>14 DEF st, new
<1> QED
  BY <1>1, <1>2

LEMMA NodesCount ==
  ASSUME NEW n \in Nat, NEW S, S \subseteq 1..n
  PROVE  /\ IsFiniteSet(S) /\ Cardinality(S) \in Nat
         /\ Cardinality(S \cup {n + 1}) = Cardinality(S) + 1
         /\ n + 1 \notin S
<1>1. IsFiniteSet(1..n)
  BY FS_Interval
<1>2. IsFiniteSet(S)
  BY <1>1, FS_Subset
<1>3. n + 1 \notin S
  OBVIOUS
<1> QED
  BY <1>2, <1>3, FS_AddElement, FS_CardinalityType

\* A directory opens a level, its end closes it.
LEMMA DepthStep ==
  ASSUME NEW t, NEW n \in Nat
  PROVE  /\ Depth(t, 0) = 0 /\ Depth(t, n) \in Int
         /\ Depth(t, n + 1) = Depth(t, n) + (IF t[n + 1].kind = "dir" THEN 1 ELSE 0)
                                          - (IF t[n + 1].kind = "end" THEN 1 ELSE 0)
<1>1. ASSUME NEW kind
      PROVE  /\ Cardinality(Nodes(t, n, kind)) \in Nat
             /\ Cardinality(Nodes(t, n + 1, kind)) =
                  Cardinality(Nodes(t, n, kind)) + (IF t[n + 1].kind = kind THEN 1 ELSE 0)
  <2>1. Nodes(t, n, kind) \subseteq 1..n
    BY DEF Nodes
  <2>2. 1..(n + 1) = 1..n \cup {n + 1}
    OBVIOUS
  <2>3. Nodes(t, n + 1, kind) = Nodes(t, n, kind) \cup (IF t[n + 1].kind = kind THEN {n + 1} ELSE {})
    BY <2>2 DEF Nodes
  <2>4. CASE t[n + 1].kind = kind
    BY <2>1, <2>3, <2>4, NodesCount
  <2>5. CASE t[n + 1].kind # kind
    <3>1. Nodes(t, n + 1, kind) = Nodes(t, n, kind)
      BY <2>3, <2>5
    <3>2. Cardinality(Nodes(t, n, kind)) \in Nat
      BY <2>1, NodesCount
    <3> QED
      BY <2>5, <3>1, <3>2
  <2> QED
    BY <2>4, <2>5
<1>2. ASSUME NEW kind PROVE Cardinality(Nodes(t, 0, kind)) = 0
  <2>1. Nodes(t, 0, kind) = {}
    BY DEF Nodes
  <2> QED
    BY <2>1, FS_EmptySet
<1>3. Depth(t, 0) = 0
  BY <1>2 DEF Depth
<1>4. \A k \in {"dir", "end"} :
        /\ Cardinality(Nodes(t, n, k)) \in Nat
        /\ Cardinality(Nodes(t, n + 1, k)) = Cardinality(Nodes(t, n, k)) + (IF t[n + 1].kind = k THEN 1 ELSE 0)
  BY <1>1
<1> QED
  BY <1>3, <1>4 DEF Depth

LEMMA DepthOpens ==
  ASSUME NEW t, NEW n \in Nat, t[n + 1].kind = "dir"
  PROVE  Depth(t, n + 1) = Depth(t, n) + 1 /\ Depth(t, n) \in Int
BY DepthStep

LEMMA DepthCloses ==
  ASSUME NEW t, NEW n \in Nat, t[n + 1].kind = "end"
  PROVE  Depth(t, n + 1) = Depth(t, n) - 1 /\ Depth(t, n) \in Int
BY DepthStep

\* A directory is open wherever there is a file to enter.
LEMMA OpenAt ==
  ASSUME NEW t \in Trees, NEW n \in Nat, n + 1 \in 1..Len(t), t[n + 1].kind # "dir", NEW st, Frames(t, n, st)
  PROVE  Len(st) \in Nat /\ Len(st) > 0 /\ st # <<>>
<1>1. t[1].kind = "dir" /\ Len(t) \in Nat /\ \A k \in 1..(Len(t) - 1) : Depth(t, k) > 0
  BY TreeFacts, WriterAssumption
<1>2. n # 0
  BY <1>1
<1>3. n \in 1..(Len(t) - 1)
  BY <1>1, <1>2
<1>4. Len(st) > 0 /\ IsSeq(st)
  BY <1>1, <1>3 DEF Frames
<1>5. Len(st) \in Nat /\ (st = <<>> <=> Len(st) = 0)
  BY <1>4, SeqFacts
<1> QED
  BY <1>4, <1>5

\* The frames, when the walk goes on to a node that opens or ends nothing.
LEMMA FramesStay ==
  ASSUME NEW t, NEW n \in Nat, NEW st, Frames(t, n, st), t[n + 1].kind \notin {"dir", "end"}
  PROVE  Frames(t, n + 1, st)
<1>1. Depth(t, n + 1) = Depth(t, n)
  BY DepthStep
<1>2. 1..n \subseteq 1..(n + 1)
  OBVIOUS
<1> QED
  BY <1>1, <1>2 DEF Frames

PushesOn(st, num, s2) ==
  /\ Len(s2) = Len(st) + 1 /\ Len(st) \in Nat
  /\ \A i \in 1..Len(st) : s2[i] = st[i]
  /\ s2[Len(st) + 1].num = num
  /\ \A e : InStack(s2, e) <=> InStack(st, e)

LEMMA FramesPush ==
  ASSUME NEW t, NEW n \in Nat, NEW st, Frames(t, n, st), t[n + 1].kind = "dir", NEW num,
         NEW s2, s2 = Append(st, [num |-> num, at |-> n + 1, entries |-> <<>>])
  PROVE  Frames(t, n + 1, s2) /\ PushesOn(st, num, s2)
<1> USE DEF PushesOn
<1> DEFINE f == [num |-> num, at |-> n + 1, entries |-> <<>>]
<1>1. IsSeq(st) /\ Len(st) = Depth(t, n)
  BY DEF Frames
<1>2. /\ f.num = num /\ f.at = n + 1 /\ f.entries = <<>> /\ f = [num |-> f.num, at |-> f.at, entries |-> f.entries]
      /\ ToSet(f.entries) = {} /\ IsSeq(f.entries)
  BY DEF ToSet, IsSeq
<1> HIDE DEF f
<1>3. /\ IsSeq(s2) /\ Len(st) \in Nat /\ Len(s2) = Len(st) + 1
      /\ \A i \in 1..Len(st) : s2[i] = st[i]
      /\ s2[Len(st) + 1] = f
  BY <1>1, AppendSeq DEF f
<1>4. Len(s2) = Depth(t, n + 1)
  <2>1. Depth(t, n + 1) = Depth(t, n) + 1 /\ Depth(t, n) \in Int
    BY DepthOpens, Zenon
  <2> QED
    BY <1>1, <1>3, <2>1
<1>5. \A i \in 1..Len(s2) : i \in 1..Len(st) \/ i = Len(st) + 1
  BY <1>3
<1>6. 1..n \subseteq 1..(n + 1) /\ n + 1 \in 1..(n + 1) /\ 1..Len(st) \subseteq 1..Len(s2)
  BY <1>3
<1>7. Frames(t, n + 1, s2)
  <2> SUFFICES ASSUME NEW i \in 1..Len(s2)
               PROVE  /\ s2[i] = [num |-> s2[i].num, at |-> s2[i].at, entries |-> s2[i].entries]
                      /\ IsSeq(s2[i].entries)
                      /\ s2[i].at \in 1..(n + 1) /\ t[s2[i].at].kind = "dir"
    BY <1>3, <1>4 DEF Frames
  <2>1. CASE i \in 1..Len(st)
    BY <1>3, <1>6, <2>1 DEF Frames
  <2>2. CASE i = Len(st) + 1
    BY <1>2, <1>3, <1>6, <2>2
  <2> QED
    BY <1>5, <2>1, <2>2
<1>8. \A e : InStack(s2, e) <=> InStack(st, e)
  BY <1>2, <1>3, <1>5, <1>6 DEF InStack
<1> QED
  BY <1>2, <1>3, <1>7, <1>8

PopsTo(st, f, s2) ==
  /\ \A i \in 1..Len(s2) : s2[i] = st[i] /\ i \in 1..Len(st)
  /\ Len(st) \in 1..Len(st) /\ f = st[Len(st)]
  /\ \A e : InStack(st, e) <=> InStack(s2, e) \/ e \in ToSet(f.entries)

LEMMA FramesPop ==
  ASSUME NEW t, NEW n \in Nat, NEW st, Frames(t, n, st), t[n + 1].kind = "end", Len(st) > 0,
         NEW s2, s2 = Front(st), NEW f, f = Last(st)
  PROVE  /\ Frames(t, n + 1, s2) /\ PopsTo(st, f, s2)
         /\ f.at \in 1..n /\ t[f.at].kind = "dir"
<1> USE DEF PopsTo
<1>1. IsSeq(st) /\ Len(st) = Depth(t, n)
  BY DEF Frames
<1>2. Len(st) \in Nat /\ st = [i \in 1..Len(st) |-> st[i]]
  BY <1>1, SeqFacts
<1>3. s2 = SubSeq(st, 1, Len(st) - 1) /\ f = st[Len(st)]
  BY DEF Front, Last
<1>4. s2 = [i \in 1..(Len(st) - 1) |-> st[i]]
  <2>1. st \in Seq(ToSet(st))
    BY <1>1 DEF IsSeq
  <2> QED
    BY <1>2, <1>3, <2>1
<1>5. s2 = [i \in 1..(Len(st) - 1) |-> s2[i]] /\ Len(st) - 1 \in Nat
  BY <1>2, <1>4
<1>6. IsSeq(s2) /\ Len(s2) = Len(st) - 1
  BY <1>5, IsSeqFrom
<1>7. \A i \in 1..Len(st) : i \in 1..Len(s2) \/ i = Len(st)
  BY <1>2, <1>6
<1>8. \A i \in 1..Len(s2) : s2[i] = st[i] /\ i \in 1..Len(st)
  BY <1>2, <1>4, <1>6
<1>9. Len(st) \in 1..Len(st)
  BY <1>2
<1>10. f.at \in 1..n /\ t[f.at].kind = "dir"
  BY <1>3, <1>9 DEF Frames
<1>11. \A e : InStack(st, e) <=> InStack(s2, e) \/ e \in ToSet(f.entries)
  BY <1>3, <1>7, <1>8, <1>9 DEF InStack
<1>12. Len(s2) = Depth(t, n + 1)
  <2>1. Depth(t, n + 1) = Depth(t, n) - 1 /\ Depth(t, n) \in Int
    BY DepthCloses, Zenon
  <2> QED
    BY <1>1, <1>2, <1>6, <2>1
<1>13. Frames(t, n + 1, s2)
  <2>1. 1..n \subseteq 1..(n + 1)
    OBVIOUS
  <2> QED
    BY <1>6, <1>8, <1>12, <2>1 DEF Frames
<1> QED
  BY <1>2, <1>3, <1>6, <1>8, <1>9, <1>10, <1>11, <1>13

----------------------------------------------------------------------------
(* Link counts.                                                            *)

LEMMA CountOther ==
  ASSUME NEW t, NEW n \in Nat, NEW c, NEW d, CountInv(t, n, c), ~IsFile(t, n + 1),
         d.links = c.links, d.nlink = c.nlink
  PROVE  CountInv(t, n + 1, d)
<1>1. 1..(n + 1) = 1..n \cup {n + 1}
  OBVIOUS
<1>2. \A x : NodesOf(t, n + 1, x) = NodesOf(t, n, x)
  BY <1>1 DEF NodesOf
<1> QED
  BY <1>2 DEF CountInv

LEMMA NodesOfStep ==
  ASSUME NEW t, NEW n \in Nat, IsFile(t, n + 1), NEW x
  PROVE  /\ Cardinality(NodesOf(t, n, x)) \in Nat
         /\ Cardinality(NodesOf(t, n + 1, x)) =
              Cardinality(NodesOf(t, n, x)) + (IF x = t[n + 1].ino THEN 1 ELSE 0)
<1>1. 1..(n + 1) = 1..n \cup {n + 1}
  OBVIOUS
<1>2. NodesOf(t, n, x) \subseteq 1..n
  BY DEF NodesOf
<1>3. CASE x = t[n + 1].ino
  <2>1. NodesOf(t, n + 1, x) = NodesOf(t, n, x) \cup {n + 1}
    BY <1>1, <1>3 DEF NodesOf
  <2> QED
    BY <1>2, <1>3, <2>1, NodesCount
<1>4. CASE x # t[n + 1].ino
  <2>1. NodesOf(t, n + 1, x) = NodesOf(t, n, x)
    BY <1>1, <1>4 DEF NodesOf
  <2>2. Cardinality(NodesOf(t, n, x)) \in Nat
    BY <1>2, NodesCount
  <2> QED
    BY <1>4, <2>1, <2>2
<1> QED
  BY <1>3, <1>4

LEMMA CountNew ==
  ASSUME NEW t, NEW n \in Nat, NEW c, NEW d, CountInv(t, n, c), NumInv(c), DOMAIN c.links = Inos(t, n),
         IsFile(t, n + 1), t[n + 1].ino \notin DOMAIN c.links,
         d.links = Put(c.links, t[n + 1].ino, c.next), d.nlink = c.nlink
  PROVE  CountInv(t, n + 1, d)
<1> PICK y : y = t[n + 1].ino
  OBVIOUS
<1>1. NodesOf(t, n, y) = {}
  BY DEF NodesOf, Inos, IsFile
<1>2. Cardinality(NodesOf(t, n, y)) = 0
  BY <1>1, FS_EmptySet
<1>3. c.next \notin DOMAIN c.nlink
  BY DEF NumInv
<1>4. DOMAIN d.links = {y} \cup DOMAIN c.links /\ d.links[y] = c.next /\ \A x \in DOMAIN c.links : d.links[x] = c.links[x]
  BY DEF Put
<1> SUFFICES ASSUME NEW x \in DOMAIN d.links
             PROVE  LinksOf(d.nlink, d.links[x]) = Cardinality(NodesOf(t, n + 1, x))
  BY DEF CountInv
<1>5. CASE x = y
  <2>1. LinksOf(d.nlink, d.links[x]) = 1
    BY <1>3, <1>4, <1>5 DEF LinksOf
  <2>2. Cardinality(NodesOf(t, n + 1, y)) = 0 + 1
    BY <1>2, NodesOfStep
  <2> QED
    BY <1>5, <2>1, <2>2
<1>6. CASE x # y
  <2>1. x \in DOMAIN c.links /\ LinksOf(d.nlink, d.links[x]) = Cardinality(NodesOf(t, n, x))
    BY <1>4, <1>6 DEF CountInv
  <2>2. /\ Cardinality(NodesOf(t, n + 1, x)) = Cardinality(NodesOf(t, n, x)) + 0
        /\ Cardinality(NodesOf(t, n, x)) \in Nat
    BY <1>6, NodesOfStep
  <2> QED
    BY <2>1, <2>2
<1> QED
  BY <1>5, <1>6

LEMMA CountAgain ==
  ASSUME NEW t, NEW n \in Nat, NEW c, NEW d, CountInv(t, n, c), NumInv(c),
         IsFile(t, n + 1), t[n + 1].ino \in DOMAIN c.links, d.links = c.links,
         d.nlink = Put(c.nlink, c.links[t[n + 1].ino], LinksOf(c.nlink, c.links[t[n + 1].ino]) + 1)
  PROVE  CountInv(t, n + 1, d)
<1> PICK y, v : y = t[n + 1].ino /\ v = c.links[y]
  OBVIOUS
<1>1. \A k : LinksOf(d.nlink, k) = IF k = v THEN LinksOf(c.nlink, v) + 1 ELSE LinksOf(c.nlink, k)
  BY DEF LinksOf, Put
<1> SUFFICES ASSUME NEW x \in DOMAIN c.links
             PROVE  LinksOf(d.nlink, c.links[x]) = Cardinality(NodesOf(t, n + 1, x))
  BY DEF CountInv
<1>2. LinksOf(c.nlink, c.links[x]) = Cardinality(NodesOf(t, n, x))
  BY DEF CountInv
<1>3. CASE x = y
  <2>1. Cardinality(NodesOf(t, n + 1, x)) = Cardinality(NodesOf(t, n, x)) + 1
    BY <1>3, NodesOfStep
  <2> QED
    BY <1>1, <1>2, <1>3, <2>1
<1>4. CASE x # y
  <2>1. c.links[x] # v
    BY <1>4 DEF NumInv
  <2>2. /\ Cardinality(NodesOf(t, n + 1, x)) = Cardinality(NodesOf(t, n, x)) + 0
        /\ Cardinality(NodesOf(t, n, x)) \in Nat
    BY <1>4, NodesOfStep
  <2> QED
    BY <1>1, <1>2, <2>1, <2>2
<1> QED
  BY <1>3, <1>4

----------------------------------------------------------------------------
(* Inodes.                                                                 *)

PushOf(s, num, content, p) ==
  /\ IsSeq(p)
  /\ \A v, x : v # num /\ One(s, v, x) => One(p, v, x)
  /\ \A v : v # num /\ None(s, v) => None(p, v)
  /\ None(s, num) => One(p, num, content)
  /\ \A e : InDirs(p, e) <=>
       InDirs(s, e) \/ (content.kind = "directory" /\ e \in ToSet(content.entries))
  /\ \A i \in 1..Len(p) : (\E k \in 1..Len(s) : p[i].num = s[k].num) \/ p[i].num = num

LEMMA InodesPush ==
  ASSUME NEW s, IsSeq(s), NEW num, NEW content, NEW p, p = Append(s, [num |-> num, content |-> content])
  PROVE  PushOf(s, num, content, p)
<1> USE DEF PushOf
<1> PICK new : new = [num |-> num, content |-> content]
  OBVIOUS
<1>1. new.num = num /\ new.content = content
  OBVIOUS
<1>2. /\ IsSeq(p) /\ Len(s) \in Nat /\ Len(p) = Len(s) + 1
      /\ \A i \in 1..Len(s) : p[i] = s[i]
      /\ p[Len(s) + 1] = new
  BY AppendSeq
<1>3. /\ \A i \in 1..Len(p) : i \in 1..Len(s) \/ i = Len(s) + 1
      /\ \A i \in 1..Len(s) : i \in 1..Len(p)
      /\ Len(s) + 1 \in 1..Len(p)
  BY <1>2
<1>4. ASSUME NEW v, NEW x, v # num, One(s, v, x) PROVE One(p, v, x)
  <2>1. PICK i \in 1..Len(s) : /\ s[i] = [num |-> v, content |-> x]
                               /\ \A k \in 1..Len(s) : s[k].num = v => k = i
    BY <1>4 DEF One
  <2>2. \A k \in 1..Len(p) : p[k].num = v => k = i
    BY <1>1, <1>2, <1>3, <1>4, <2>1
  <2>3. i \in 1..Len(p) /\ p[i] = [num |-> v, content |-> x]
    BY <1>2, <1>3, <2>1
  <2> QED
    BY <2>2, <2>3 DEF One
<1>5. ASSUME NEW v, v # num, None(s, v) PROVE None(p, v)
  BY <1>1, <1>2, <1>3, <1>5 DEF None
<1>6. ASSUME None(s, num) PROVE One(p, num, content)
  <2>1. \A k \in 1..Len(p) : p[k].num = num => k = Len(s) + 1
    BY <1>2, <1>3, <1>6 DEF None
  <2>2. Len(s) + 1 \in 1..Len(p) /\ p[Len(s) + 1] = [num |-> num, content |-> content]
    BY <1>2, <1>3
  <2> QED
    BY <2>1, <2>2 DEF One
<1>7. \A e : InDirs(p, e) <=> InDirs(s, e) \/ (content.kind = "directory" /\ e \in ToSet(content.entries))
  BY <1>1, <1>2, <1>3 DEF InDirs
<1>8. \A i \in 1..Len(p) : (\E k \in 1..Len(s) : p[i].num = s[k].num) \/ p[i].num = num
  BY <1>1, <1>2, <1>3
<1> QED
  BY <1>2, <1>4, <1>5, <1>6, <1>7, <1>8

\* A step that pushes no inode, or one whose number is no file's.
Extends(c, d) ==
  /\ KeepsLinks(c, d)
  /\ \A x \in DOMAIN c.links : \A y :
       /\ One(c.inodes, c.links[x], y) => One(d.inodes, c.links[x], y)
       /\ None(c.inodes, c.links[x]) => None(d.inodes, c.links[x])

LEMMA SentStep ==
  ASSUME NEW t, NEW c, NEW d, NEW sent, SentInv(t, sent, 0, c), Extends(c, d),
         \A k \in 1..Len(sent) : t[sent[k]].ino \in DOMAIN c.links, Len(sent) \in Nat
  PROVE  SentInv(t, sent, 0, d)
<1>1. \A k \in 1..Len(sent) : ~(k <= 0)
  OBVIOUS
<1> QED
  BY <1>1 DEF SentInv, Extends, KeepsLinks

LEMMA InlineStep ==
  ASSUME NEW t, NEW n \in Nat, NEW c, NEW d, NEW sent, NEW more, InlineInv(t, n, sent, c), Extends(c, d),
         DOMAIN c.links = Inos(t, n),
         \A k \in 1..Len(sent) : \E i \in 1..Len(more) : more[i] = sent[k],
         IsFile(t, n + 1) =>
           \/ \E k \in 1..Len(more) : t[more[k]].ino = t[n + 1].ino
           \/ One(d.inodes, d.links[t[n + 1].ino], InlineOf(t[n + 1]))
  PROVE  InlineInv(t, n + 1, more, d)
<1>1. \A j \in 1..(n + 1) : j \in 1..n \/ j = n + 1
  OBVIOUS
<1>2. \A j \in 1..n : IsFile(t, j) => t[j].ino \in DOMAIN c.links
  BY DEF Inos, IsFile
<1> SUFFICES ASSUME NEW j \in 1..n, IsFile(t, j)
             PROVE  \/ \E k \in 1..Len(more) : t[more[k]].ino = t[j].ino
                    \/ One(d.inodes, d.links[t[j].ino], InlineOf(t[j]))
  BY <1>1 DEF InlineInv
<1>3. CASE \E k \in 1..Len(sent) : t[sent[k]].ino = t[j].ino
  BY <1>3
<1>4. CASE One(c.inodes, c.links[t[j].ino], InlineOf(t[j]))
  BY <1>2, <1>4 DEF Extends, KeepsLinks
<1> QED
  BY <1>3, <1>4 DEF InlineInv

\* The files that are sent are new ones, each of another inode.
SentOK(t, n, sent) ==
  /\ sent \in Seq(1..n)
  /\ \A k \in 1..Len(sent) : NewFileAt(t, sent[k]) /\ t[sent[k]].kind \in Large
  /\ \A i, k \in 1..Len(sent) : t[sent[i]].ino = t[sent[k]].ino => i = k

LEMMA SentGrows ==
  ASSUME NEW t, NEW n \in Nat, NEW sent, SentOK(t, n, sent), NewFileAt(t, n + 1), t[n + 1].kind \in Large,
         NEW more, more = Append(sent, n + 1)
  PROVE  /\ SentOK(t, n + 1, more) /\ Len(sent) \in Nat /\ Len(more) = Len(sent) + 1
         /\ \A k \in 1..Len(sent) : more[k] = sent[k]
         /\ more[Len(sent) + 1] = n + 1
<1>1. sent \in Seq(1..n)
  BY DEF SentOK
<1>2. sent \in Seq(1..(n + 1)) /\ n + 1 \in 1..(n + 1)
  BY <1>1
<1>3. /\ more \in Seq(1..(n + 1)) /\ Len(more) = Len(sent) + 1 /\ Len(sent) \in Nat
      /\ \A k \in 1..Len(sent) : more[k] = sent[k]
      /\ more[Len(sent) + 1] = n + 1
  BY <1>2
<1>4. \A k \in 1..Len(more) : k \in 1..Len(sent) \/ k = Len(sent) + 1
  BY <1>3
<1>5. \A k \in 1..Len(sent) : sent[k] \in 1..n /\ t[sent[k]].kind \in FileKinds /\ t[sent[k]].ino # t[n + 1].ino
  <2>1. (n + 1) - 1 = n
    OBVIOUS
  <2> QED
    BY <1>1, <2>1 DEF SentOK, NewFileAt, FileKinds
<1>6. \A k \in 1..Len(more) : NewFileAt(t, more[k]) /\ t[more[k]].kind \in Large
  BY <1>3, <1>4 DEF SentOK
<1>7. \A i, k \in 1..Len(more) : t[more[i]].ino = t[more[k]].ino => i = k
  BY <1>3, <1>4, <1>5 DEF SentOK
<1> QED
  BY <1>3, <1>6, <1>7 DEF SentOK

LEMMA SentIsOK ==
  ASSUME NEW t \in Trees
  PROVE  \A n \in 0..Len(t) : SentOK(t, n, PendingUpTo(t)[n])
<1> DEFINE N == {n \in Nat : n <= Len(t) => SentOK(t, n, PendingUpTo(t)[n])}
<1>0. Len(t) \in Nat
  BY TreeFacts
<1>1. 0 \in N
  <2>1. PendingUpTo(t)[0] = <<>>
    BY PendingFacts
  <2>2. SentOK(t, 0, <<>>)
    BY DEF SentOK
  <2> QED
    BY <2>1, <2>2
<1>2. ASSUME NEW n \in Nat, n \in N PROVE n + 1 \in N
  <2> SUFFICES ASSUME n + 1 <= Len(t) PROVE SentOK(t, n + 1, PendingUpTo(t)[n + 1])
    OBVIOUS
  <2> PICK sent, more : sent = PendingUpTo(t)[n] /\ more = PendingUpTo(t)[n + 1]
    OBVIOUS
  <2>1. SentOK(t, n, sent)
    BY <1>0, <1>2
  <2>2. n + 1 \in 1..Len(t) /\ (n + 1) - 1 = n
    BY <1>0
  <2>3. more = IF NewFileAt(t, n + 1) /\ t[n + 1].kind \in Large THEN Append(sent, n + 1) ELSE sent
    BY <2>2, PendingFacts
  <2>4. CASE NewFileAt(t, n + 1) /\ t[n + 1].kind \in Large
    <3>1. more = Append(sent, n + 1)
      BY <2>3, <2>4
    <3>2. SentOK(t, n + 1, more)
      BY <2>1, <2>4, <3>1, SentGrows
    <3> QED
      BY <3>2
  <2>5. CASE ~(NewFileAt(t, n + 1) /\ t[n + 1].kind \in Large)
    <3>1. more = sent
      BY <2>3, <2>5
    <3>2. sent \in Seq(1..(n + 1))
      BY <2>1 DEF SentOK
    <3> QED
      BY <2>1, <3>1, <3>2 DEF SentOK
  <2> QED
    BY <2>4, <2>5
<1> HIDE DEF N
<1>3. Nat \subseteq N
  BY <1>1, <1>2, NatSetInduction
<1> QED
  BY <1>0, <1>3 DEF N

----------------------------------------------------------------------------
(* The steps of the walk.                                                  *)

LEMMA InosStep ==
  ASSUME NEW t, NEW n \in Nat
  PROVE  Inos(t, n + 1) = Inos(t, n) \cup (IF IsFile(t, n + 1) THEN {t[n + 1].ino} ELSE {})
<1>1. 1..(n + 1) = 1..n \cup {n + 1}
  OBVIOUS
<1> QED
  BY <1>1 DEF Inos, IsFile

LEMMA InosStay ==
  ASSUME NEW t, NEW n \in Nat, ~IsFile(t, n + 1)
  PROVE  Inos(t, n + 1) = Inos(t, n)
BY InosStep

LEMMA ExtendsSame ==
  ASSUME NEW c, NEW d, d.inodes = c.inodes, KeepsLinks(c, d)
  PROVE  Extends(c, d)
BY DEF Extends

LEMMA ExtendsPush ==
  ASSUME NEW c, NEW d, NEW num, NEW content, PushOf(c.inodes, num, content, d.inodes), KeepsLinks(c, d),
         \A x \in DOMAIN c.links : c.links[x] # num
  PROVE  Extends(c, d)
BY DEF Extends, PushOf

\* What SentInv and InlineInv need of the files that were sent.
LEMMA SentLinked ==
  ASSUME NEW t, NEW n \in Nat, NEW sent, SentOK(t, n, sent)
  PROVE  Len(sent) \in Nat /\ \A k \in 1..Len(sent) : t[sent[k]].ino \in Inos(t, n)
<1>1. sent \in Seq(1..n)
  BY DEF SentOK
<1>2. \A k \in 1..Len(sent) : sent[k] \in 1..n /\ t[sent[k]].kind \in FileKinds
  BY <1>1 DEF SentOK, FileKinds
<1> QED
  BY <1>1, <1>2 DEF Inos

\* A step that sends nothing.
LEMMA FilesStay ==
  ASSUME NEW t, NEW n \in Nat, NEW sent, SentOK(t, n, sent), NEW c, Walked(t, n, sent, 0, c),
         NEW d, Extends(c, d),
         IsFile(t, n + 1) =>
           \/ \E k \in 1..Len(sent) : t[sent[k]].ino = t[n + 1].ino
           \/ One(d.inodes, d.links[t[n + 1].ino], InlineOf(t[n + 1]))
  PROVE  SentInv(t, sent, 0, d) /\ InlineInv(t, n + 1, sent, d)
<1>1. Len(sent) \in Nat /\ \A k \in 1..Len(sent) : t[sent[k]].ino \in DOMAIN c.links
  BY SentLinked DEF Walked
<1>2. SentInv(t, sent, 0, d)
  BY <1>1, SentStep DEF Walked
<1>3. InlineInv(t, n + 1, sent, d)
  BY InlineStep DEF Walked
<1> QED
  BY <1>2, <1>3

\* A directory is opened.
LEMMA WalkDir ==
  ASSUME NEW t, NEW n \in Nat, NEW sent, SentOK(t, n, sent), NEW c, Walked(t, n, sent, 0, c),
         t[n + 1].kind = "dir", NEW d, IsContext(d), d.next = c.next + 1, d.links = c.links,
         d.nlink = c.nlink, d.inodes = c.inodes, Frames(t, n + 1, d.stack), PushesOn(c.stack, c.next, d.stack)
  PROVE  Walked(t, n + 1, sent, 0, d)
<1>1. /\ IsSeq(c.inodes) /\ DOMAIN c.links = Inos(t, n) /\ NumInv(c)
      /\ EntryInv(t, n, c) /\ CountInv(t, n, c)
  BY DEF Walked
<1>2. ~IsFile(t, n + 1)
  BY DEF IsFile, FileKinds, Large
<1>3. NumInv(d) /\ KeepsLinks(c, d)
  <2>1. \A i \in 1..Len(d.stack) : i \in 1..Len(c.stack) \/ i = Len(c.stack) + 1
    BY DEF PushesOn
  <2>2. \A i \in 1..Len(d.stack) :
           \/ \E k \in 1..Len(c.stack) : d.stack[i].num = c.stack[k].num
           \/ d.stack[i].num = c.next /\ d.next = c.next + 1 /\ d.links = c.links
    BY <2>1 DEF PushesOn
  <2>3. NumNext(c, d)
    BY <2>2 DEF NumNext
  <2> QED
    BY <1>1, <2>3, NumStep
<1>4. \A e : HasEntry(d, e) <=> HasEntry(c, e)
  BY DEF HasEntry, PushesOn
<1>5. EntryInv(t, n + 1, d)
  BY <1>1, <1>2, <1>3, <1>4, EntryStep
<1>6. CountInv(t, n + 1, d)
  BY <1>1, <1>2, CountOther
<1>7. DOMAIN d.links = Inos(t, n + 1)
  BY <1>1, <1>2, InosStay
<1>8. SentInv(t, sent, 0, d) /\ InlineInv(t, n + 1, sent, d)
  BY <1>2, <1>3, ExtendsSame, FilesStay
<1> QED
  BY <1>1, <1>3, <1>5, <1>6, <1>7, <1>8 DEF Walked

\* A directory is closed: its frame, entered in the one below, is its inode.
LEMMA WalkEnd ==
  ASSUME NEW t, NEW n \in Nat, NEW sent, SentOK(t, n, sent), NEW c, Walked(t, n, sent, 0, c),
         t[n + 1].kind = "end", NEW f, f.at \in 1..n, t[f.at].kind = "dir",
         NEW st, PopsTo(c.stack, f, st),
         NEW d, IsContext(d), d.next = c.next, d.links = c.links, d.nlink = c.nlink,
         Frames(t, n + 1, d.stack), EntersIn(st, f.at, f.num, d.stack),
         NEW content, content.kind = "directory", content.entries = f.entries,
         PushOf(c.inodes, f.num, content, d.inodes)
  PROVE  Walked(t, n + 1, sent, 0, d)
<1>1. /\ IsSeq(c.inodes) /\ DOMAIN c.links = Inos(t, n) /\ NumInv(c)
      /\ EntryInv(t, n, c) /\ CountInv(t, n, c)
  BY DEF Walked
<1>2. ~IsFile(t, n + 1) /\ ~IsFile(t, f.at)
  BY DEF IsFile, FileKinds, Large
<1>3. f.num \in Nat /\ f.num < c.next /\ \A x \in DOMAIN c.links : c.links[x] # f.num
  BY <1>1 DEF NumInv, PopsTo
<1>4. NumInv(d) /\ KeepsLinks(c, d)
  <2>1. \A i \in 1..Len(d.inodes) :
          \/ \E k \in 1..Len(c.inodes) : d.inodes[i].num = c.inodes[k].num
          \/ d.inodes[i].num \in Nat /\ d.inodes[i].num < d.next
    BY <1>3 DEF PushOf
  <2>2. \A i \in 1..Len(d.stack) : \E k \in 1..Len(c.stack) : d.stack[i].num = c.stack[k].num
    BY DEF PopsTo, EntersIn
  <2>3. NumNext(c, d)
    BY <2>1, <2>2 DEF NumNext
  <2> QED
    BY <1>1, <2>3, NumStep
<1>5. /\ \A x : HasEntry(c, x) => HasEntry(d, x)
      /\ \A x : HasEntry(d, x) => HasEntry(c, x) \/ x = [name |-> f.at, num |-> f.num]
  BY DEF HasEntry, PopsTo, EntersIn, PushOf
<1>6. EntryInv(t, n + 1, d)
  <2>1. ASSUME NEW x, HasEntry(d, x)
        PROVE  HasEntry(c, x) \/ (x.name \in 1..n /\ ~IsFile(t, x.name))
    <3>1. CASE x = [name |-> f.at, num |-> f.num]
      <4>1. x.name = f.at
        BY <3>1
      <4> QED
        BY <1>2, <4>1
    <3> QED
      BY <1>5, <2>1, <3>1
  <2> QED
    BY <1>1, <1>2, <1>4, <1>5, <2>1, EntryStep
<1>7. CountInv(t, n + 1, d)
  BY <1>1, <1>2, CountOther
<1>8. DOMAIN d.links = Inos(t, n + 1)
  BY <1>1, <1>2, InosStay
<1>9. SentInv(t, sent, 0, d) /\ InlineInv(t, n + 1, sent, d)
  BY <1>2, <1>3, <1>4, ExtendsPush, FilesStay
<1>10. IsSeq(d.inodes)
  BY DEF PushOf
<1> QED
  BY <1>4, <1>6, <1>7, <1>8, <1>9, <1>10 DEF Walked

\* An inode of the walk that is no file.
LEMMA WalkSymlink ==
  ASSUME NEW t, NEW n \in Nat, NEW sent, SentOK(t, n, sent), NEW c, Walked(t, n, sent, 0, c),
         ~IsFile(t, n + 1), NEW d, IsContext(d), d.next = c.next + 1, d.links = c.links, d.nlink = c.nlink,
         Frames(t, n + 1, d.stack), EntersIn(c.stack, n + 1, c.next, d.stack),
         NEW content, content.kind # "directory", PushOf(c.inodes, c.next, content, d.inodes)
  PROVE  Walked(t, n + 1, sent, 0, d)
<1>1. /\ IsSeq(c.inodes) /\ DOMAIN c.links = Inos(t, n) /\ NumInv(c)
      /\ EntryInv(t, n, c) /\ CountInv(t, n, c)
  BY DEF Walked
<1>2. c.next \in Nat /\ c.next < c.next + 1 /\ \A x \in DOMAIN c.links : c.links[x] # c.next
  BY <1>1 DEF NumInv
<1>3. NumInv(d) /\ KeepsLinks(c, d)
  <2>1. \A i \in 1..Len(d.inodes) :
          \/ \E k \in 1..Len(c.inodes) : d.inodes[i].num = c.inodes[k].num
          \/ d.inodes[i].num \in Nat /\ d.inodes[i].num < d.next
    BY <1>2 DEF PushOf
  <2>2. NumNext(c, d)
    BY <2>1 DEF NumNext, EntersIn
  <2> QED
    BY <1>1, <2>2, NumStep
<1>4. /\ \A x : HasEntry(c, x) => HasEntry(d, x)
      /\ \A x : HasEntry(d, x) => HasEntry(c, x) \/ x = [name |-> n + 1, num |-> c.next]
  BY DEF HasEntry, EntersIn, PushOf
<1>5. EntryInv(t, n + 1, d)
  <2>1. ASSUME NEW x, HasEntry(d, x) PROVE HasEntry(c, x) \/ x.name = n + 1
    BY <1>4, <2>1
  <2> QED
    BY <1>1, <1>3, <1>4, <2>1, EntryStep
<1>6. CountInv(t, n + 1, d)
  BY <1>1, CountOther
<1>7. DOMAIN d.links = Inos(t, n + 1)
  BY <1>1, InosStay
<1>8. SentInv(t, sent, 0, d) /\ InlineInv(t, n + 1, sent, d)
  BY <1>2, <1>3, ExtendsPush, FilesStay
<1>9. IsSeq(d.inodes)
  BY DEF PushOf
<1> QED
  BY <1>3, <1>5, <1>6, <1>7, <1>8, <1>9 DEF Walked

\* A second entry of a file.
LEMMA WalkHardlink ==
  ASSUME NEW t \in Trees, NEW n \in Nat, n + 1 \in 1..Len(t), NEW sent, SentOK(t, n, sent),
         NEW c, Walked(t, n, sent, 0, c), c.stack # <<>>,
         IsFile(t, n + 1), t[n + 1].ino \in DOMAIN c.links,
         NEW num, num = c.links[t[n + 1].ino],
         NEW d, IsContext(d), d.next = c.next, d.links = c.links, d.inodes = c.inodes,
         d.nlink = Put(c.nlink, num, LinksOf(c.nlink, num) + 1),
         Frames(t, n + 1, d.stack), EntersIn(c.stack, n + 1, num, d.stack)
  PROVE  Walked(t, n + 1, sent, 0, d)
<1>1. /\ IsSeq(c.inodes) /\ DOMAIN c.links = Inos(t, n) /\ NumInv(c)
      /\ EntryInv(t, n, c) /\ CountInv(t, n, c) /\ InlineInv(t, n, sent, c)
  BY DEF Walked
<1>2. NumInv(d) /\ KeepsLinks(c, d)
  <2>1. NumNext(c, d)
    BY DEF NumNext, EntersIn, Put
  <2> QED
    BY <1>1, <2>1, NumStep
<1>3. \A x : HasEntry(d, x) <=> HasEntry(c, x) \/ x = [name |-> n + 1, num |-> num]
  BY DEF HasEntry, EntersIn
<1>4. EntryInv(t, n + 1, d)
  <2>1. ASSUME NEW x, HasEntry(d, x)
        PROVE  HasEntry(c, x) \/ (x.name = n + 1 /\ x.num = d.links[t[n + 1].ino])
    BY <1>3, <2>1
  <2>2. HasEntry(d, [name |-> n + 1, num |-> d.links[t[n + 1].ino]])
    BY <1>3
  <2> QED
    BY <1>1, <1>2, <1>3, <2>1, <2>2, EntryStep
<1>5. CountInv(t, n + 1, d)
  BY <1>1, CountAgain
<1>6. DOMAIN d.links = Inos(t, n + 1)
  <2>1. Inos(t, n + 1) = Inos(t, n) \cup {t[n + 1].ino}
    BY InosStep
  <2> QED
    BY <1>1, <2>1
<1>7. \/ \E k \in 1..Len(sent) : t[sent[k]].ino = t[n + 1].ino
      \/ One(d.inodes, d.links[t[n + 1].ino], InlineOf(t[n + 1]))
  <2>1. PICK j \in 1..n : IsFile(t, j) /\ t[j].ino = t[n + 1].ino
    BY <1>1 DEF Inos, IsFile
  <2>2. t[j].chunks = t[n + 1].chunks
    <3>1. Len(t) \in Nat /\ DOMAIN t = 1..Len(t)
      BY TreeFacts
    <3>2. j \in DOMAIN t /\ n + 1 \in DOMAIN t
      BY <3>1
    <3>3. {t[j].kind, t[n + 1].kind} \subseteq FileKinds
      BY <2>1 DEF IsFile
    <3> QED
      BY <2>1, <3>2, <3>3, WriterAssumption
  <2>3. InlineOf(t[j]) = InlineOf(t[n + 1])
    BY <2>2 DEF InlineOf
  <2> QED
    BY <1>1, <2>1, <2>3 DEF InlineInv
<1>8. SentInv(t, sent, 0, d) /\ InlineInv(t, n + 1, sent, d)
  BY <1>2, <1>7, ExtendsSame, FilesStay
<1> QED
  BY <1>1, <1>2, <1>4, <1>5, <1>6, <1>8 DEF Walked

\* A new file is linked and entered.
LEMMA WalkNew ==
  ASSUME NEW t, NEW n \in Nat, NEW sent, NEW c, Walked(t, n, sent, 0, c), c.stack # <<>>,
         IsFile(t, n + 1), t[n + 1].ino \notin DOMAIN c.links,
         NEW d, d.next = c.next + 1, d.links = Put(c.links, t[n + 1].ino, c.next), d.nlink = c.nlink,
         EntersIn(c.stack, n + 1, c.next, d.stack),
         \A i \in 1..Len(d.inodes) :
           (\E k \in 1..Len(c.inodes) : d.inodes[i].num = c.inodes[k].num) \/ d.inodes[i].num = c.next,
         \A e : InDirs(d.inodes, e) <=> InDirs(c.inodes, e)
  PROVE  /\ NumInv(d) /\ EntryInv(t, n + 1, d) /\ CountInv(t, n + 1, d) /\ DOMAIN d.links = Inos(t, n + 1)
         /\ KeepsLinks(c, d) /\ d.links[t[n + 1].ino] = c.next /\ None(c.inodes, c.next)
         /\ \A x \in DOMAIN c.links : c.links[x] # c.next
<1>1. /\ IsSeq(c.inodes) /\ DOMAIN c.links = Inos(t, n) /\ NumInv(c)
      /\ EntryInv(t, n, c) /\ CountInv(t, n, c)
  BY DEF Walked
<1>2. /\ c.next \in Nat /\ c.next < c.next + 1 /\ None(c.inodes, c.next)
      /\ \A x \in DOMAIN c.links : c.links[x] # c.next
  BY <1>1 DEF NumInv, None
<1>3. NumInv(d) /\ KeepsLinks(c, d)
  <2>1. \A i \in 1..Len(d.inodes) :
          \/ \E k \in 1..Len(c.inodes) : d.inodes[i].num = c.inodes[k].num
          \/ d.inodes[i].num \in Nat /\ d.inodes[i].num < d.next
    BY <1>2
  <2>2. \E x : x \notin DOMAIN c.links /\ d.links = Put(c.links, x, c.next)
    OBVIOUS
  <2>3. NumNext(c, d)
    BY <2>1, <2>2 DEF NumNext, EntersIn
  <2> QED
    BY <1>1, <2>3, NumStep
<1>4. d.links[t[n + 1].ino] = c.next /\ DOMAIN d.links = DOMAIN c.links \cup {t[n + 1].ino}
  BY DEF Put
<1>5. \A x : HasEntry(d, x) <=> HasEntry(c, x) \/ x = [name |-> n + 1, num |-> c.next]
  BY DEF HasEntry, EntersIn
<1>6. EntryInv(t, n + 1, d)
  <2>1. ASSUME NEW x, HasEntry(d, x)
        PROVE  HasEntry(c, x) \/ (x.name = n + 1 /\ x.num = d.links[t[n + 1].ino])
    BY <1>4, <1>5, <2>1
  <2>2. HasEntry(d, [name |-> n + 1, num |-> d.links[t[n + 1].ino]])
    BY <1>4, <1>5
  <2> QED
    BY <1>1, <1>3, <1>5, <2>1, <2>2, EntryStep
<1>7. CountInv(t, n + 1, d)
  BY <1>1, CountNew
<1>8. DOMAIN d.links = Inos(t, n + 1)
  <2>1. Inos(t, n + 1) = Inos(t, n) \cup {t[n + 1].ino}
    BY InosStep
  <2> QED
    BY <1>1, <1>4, <2>1
<1> QED
  BY <1>2, <1>3, <1>4, <1>6, <1>7, <1>8

LEMMA WalkInline ==
  ASSUME NEW t, NEW n \in Nat, NEW sent, SentOK(t, n, sent), NEW c, Walked(t, n, sent, 0, c), c.stack # <<>>,
         IsFile(t, n + 1), t[n + 1].ino \notin DOMAIN c.links,
         NEW d, IsContext(d), d.next = c.next + 1, d.links = Put(c.links, t[n + 1].ino, c.next),
         d.nlink = c.nlink, Frames(t, n + 1, d.stack), EntersIn(c.stack, n + 1, c.next, d.stack),
         NEW content, content = InlineOf(t[n + 1]), PushOf(c.inodes, c.next, content, d.inodes)
  PROVE  Walked(t, n + 1, sent, 0, d)
<1>1. content.kind = "inline"
  BY DEF InlineOf
<1>2. /\ \A i \in 1..Len(d.inodes) :
           (\E k \in 1..Len(c.inodes) : d.inodes[i].num = c.inodes[k].num) \/ d.inodes[i].num = c.next
      /\ \A e : InDirs(d.inodes, e) <=> InDirs(c.inodes, e)
      /\ IsSeq(d.inodes)
  BY <1>1 DEF PushOf
<1>3. /\ NumInv(d) /\ EntryInv(t, n + 1, d) /\ CountInv(t, n + 1, d) /\ DOMAIN d.links = Inos(t, n + 1)
      /\ KeepsLinks(c, d) /\ d.links[t[n + 1].ino] = c.next /\ None(c.inodes, c.next)
      /\ \A x \in DOMAIN c.links : c.links[x] # c.next
  BY <1>2, WalkNew
<1>4. One(d.inodes, d.links[t[n + 1].ino], InlineOf(t[n + 1]))
  BY <1>3 DEF PushOf
<1>5. SentInv(t, sent, 0, d) /\ InlineInv(t, n + 1, sent, d)
  BY <1>3, <1>4, ExtendsPush, FilesStay
<1> QED
  BY <1>2, <1>3, <1>5 DEF Walked

LEMMA WalkLarge ==
  ASSUME NEW t, NEW n \in Nat, NEW sent, SentOK(t, n, sent), NEW c, Walked(t, n, sent, 0, c), c.stack # <<>>,
         NewFileAt(t, n + 1), t[n + 1].kind \in Large, t[n + 1].ino \notin DOMAIN c.links,
         NEW d, IsContext(d), d.next = c.next + 1, d.links = Put(c.links, t[n + 1].ino, c.next),
         d.nlink = c.nlink, Frames(t, n + 1, d.stack), EntersIn(c.stack, n + 1, c.next, d.stack),
         d.inodes = c.inodes, NEW more, more = Append(sent, n + 1)
  PROVE  Walked(t, n + 1, more, 0, d)
<1>0. IsFile(t, n + 1)
  BY DEF IsFile, FileKinds
<1>1. /\ NumInv(d) /\ EntryInv(t, n + 1, d) /\ CountInv(t, n + 1, d) /\ DOMAIN d.links = Inos(t, n + 1)
      /\ KeepsLinks(c, d) /\ d.links[t[n + 1].ino] = c.next /\ None(c.inodes, c.next)
  BY <1>0, WalkNew
<1>2. /\ Len(sent) \in Nat /\ Len(more) = Len(sent) + 1
      /\ \A k \in 1..Len(sent) : more[k] = sent[k]
      /\ more[Len(sent) + 1] = n + 1
  BY SentGrows
<1>3. /\ \A k \in 1..Len(more) : k \in 1..Len(sent) \/ k = Len(sent) + 1
      /\ \A k \in 1..Len(sent) : k \in 1..Len(more) /\ ~(k <= 0)
      /\ Len(sent) + 1 \in 1..Len(more) /\ ~(Len(sent) + 1 <= 0)
  BY <1>2
<1>4. Extends(c, d)
  BY <1>1, ExtendsSame
<1>5. Len(sent) \in Nat /\ \A k \in 1..Len(sent) : t[sent[k]].ino \in DOMAIN c.links
  BY SentLinked DEF Walked
<1>6. SentInv(t, sent, 0, d)
  BY <1>4, <1>5, SentStep DEF Walked
<1>7. SentInv(t, more, 0, d)
  <2> SUFFICES ASSUME NEW k \in 1..Len(more) PROVE None(d.inodes, d.links[t[more[k]].ino]) /\ ~(k <= 0)
    BY DEF SentInv
  <2>1. CASE k \in 1..Len(sent)
    BY <1>2, <1>3, <1>6, <2>1 DEF SentInv
  <2>2. CASE k = Len(sent) + 1
    BY <1>1, <1>2, <1>3, <2>2
  <2> QED
    BY <1>3, <2>1, <2>2
<1>8. InlineInv(t, n + 1, more, d)
  <2>1. \A k \in 1..Len(sent) : \E i \in 1..Len(more) : more[i] = sent[k]
    BY <1>2, <1>3
  <2>2. \E k \in 1..Len(more) : t[more[k]].ino = t[n + 1].ino
    BY <1>2, <1>3
  <2> QED
    BY <1>4, <2>1, <2>2, InlineStep DEF Walked
<1>9. IsSeq(d.inodes)
  BY DEF Walked
<1> QED
  BY <1>1, <1>7, <1>8, <1>9 DEF Walked

----------------------------------------------------------------------------
(* The actions of the walk.                                                *)

\* What Entered and Pushed change of a context.
LEMMA EnteredSame ==
  ASSUME NEW c, IsContext(c), NEW at, NEW num, NEW e, e = Entered(c, at, num)
  PROVE  IsContext(e) /\ e.links = c.links /\ e.inodes = c.inodes /\ e.drops = c.drops /\ e.next = c.next
BY EnteredFacts

LEMMA PushedSame ==
  ASSUME NEW c, IsContext(c), IsSeq(c.inodes), NEW num, NEW content, NEW p, p = Pushed(c, num, content)
  PROVE  /\ IsContext(p) /\ p.links = c.links /\ p.nlink = c.nlink /\ p.drops = c.drops /\ p.next = c.next
         /\ p.stack = c.stack /\ PushOf(c.inodes, num, content, p.inodes)
<1> PICK s : s = Append(c.inodes, [num |-> num, content |-> content])
  OBVIOUS
<1>1. p = [c EXCEPT !.inodes = s]
  BY DEF Pushed
<1>2. p.inodes = s /\ IsContext(p) /\ p.links = c.links /\ p.nlink = c.nlink /\ p.drops = c.drops
      /\ p.next = c.next /\ p.stack = c.stack
  BY <1>1 DEF IsContext
<1>3. PushOf(c.inodes, num, content, s)
  <2> PICK i : i = c.inodes
    OBVIOUS
  <2>1. IsSeq(i) /\ s = Append(i, [num |-> num, content |-> content])
    OBVIOUS
  <2>2. PushOf(i, num, content, s)
    BY <2>1, InodesPush
  <2> QED
    BY <2>2
<1> QED
  BY <1>2, <1>3

\* Where the fold is.
LEMMA FoldAt ==
  ASSUME WriterInv, Folding, survey' = survey, pos' = pos + 1,
         NEW n, n = pos - 1, NEW t, t = survey, NEW sent, sent = Sent
  PROVE  /\ t \in Trees /\ n \in Nat /\ pos = n + 1 /\ n + 1 \in 1..Len(t) /\ pos' - 1 = n + 1 /\ SentOK(t, n, sent)
         /\ Sent' = IF NewFileAt(t, n + 1) /\ t[n + 1].kind \in Large THEN Append(sent, n + 1) ELSE sent
<1>1. WalkInv /\ ContextInv
  BY DEF WriterInv
<1>2. survey \in Trees /\ pos \in 1..Len(survey) /\ Len(survey) \in Nat
  BY <1>1, LinksFacts DEF WalkInv
<1>3. n \in Nat /\ n + 1 = pos /\ n \in 0..Len(t) /\ pos' - 1 = n + 1
  BY <1>2
<1>4. SentOK(t, n, sent)
  BY <1>2, <1>3, SentIsOK DEF Sent
<1>5. Sent' = IF NewFileAt(survey, pos) /\ survey[pos].kind \in Large THEN Append(Sent, pos) ELSE Sent
  BY <1>1, SentFacts
<1> QED
  BY <1>2, <1>3, <1>4, <1>5

WalkedHere == Walked(survey, pos - 1, Sent, 0, ctx)

LEMMA FoldDirWalks == ASSUME WriterInv, WalkedHere, FoldDir PROVE WalkedHere'
<1> PICK n, t, sent, c, d : n = pos - 1 /\ t = survey /\ sent = Sent /\ c = ctx /\ d = ctx'
  OBVIOUS
<1>1. Folding /\ Node.kind = "dir" /\ survey' = survey /\ pos' = pos + 1
  BY DEF FoldDir, Advance
<1>2. t \in Trees /\ n \in Nat /\ pos = n + 1 /\ n + 1 \in 1..Len(t) /\ pos' - 1 = n + 1 /\ SentOK(t, n, sent)
      /\ Sent' = IF NewFileAt(t, n + 1) /\ t[n + 1].kind \in Large THEN Append(sent, n + 1) ELSE sent
  BY <1>1, FoldAt
<1>3. t[n + 1].kind = "dir"
  BY <1>1, <1>2 DEF Node
<1>4. Sent' = sent
  BY <1>2, <1>3 DEF Large
<1>5. Walked(t, n, sent, 0, c)
  BY DEF WalkedHere
<1> PICK num, st, s2 : num = c.next /\ st = c.stack
                       /\ s2 = Append(st, [num |-> num, at |-> n + 1, entries |-> <<>>])
  OBVIOUS
<1>6. d = [c EXCEPT !.next = @ + 1, !.stack = s2]
  BY <1>2 DEF FoldDir
<1>7. IsContext(c) /\ Frames(t, n, st)
  BY <1>5 DEF Walked
<1>8. /\ IsContext(d) /\ d.next = c.next + 1 /\ d.links = c.links /\ d.nlink = c.nlink /\ d.inodes = c.inodes
      /\ d.stack = s2
  BY <1>6, <1>7 DEF IsContext
<1>9. Frames(t, n + 1, s2) /\ PushesOn(st, num, s2)
  BY <1>2, <1>3, <1>7, FramesPush
<1>10. Walked(t, n + 1, sent, 0, d)
  BY <1>2, <1>3, <1>5, <1>8, <1>9, WalkDir
<1> QED
  BY <1>1, <1>2, <1>4, <1>10 DEF WalkedHere

LEMMA FoldEndWalks == ASSUME WriterInv, WalkedHere, FoldEnd PROVE WalkedHere'
<1> PICK n, t, sent, c, d : n = pos - 1 /\ t = survey /\ sent = Sent /\ c = ctx /\ d = ctx'
  OBVIOUS
<1>1. Folding /\ Node.kind = "end" /\ survey' = survey /\ pos' = pos + 1
  BY DEF FoldEnd, Advance
<1>2. t \in Trees /\ n \in Nat /\ pos = n + 1 /\ n + 1 \in 1..Len(t) /\ pos' - 1 = n + 1 /\ SentOK(t, n, sent)
      /\ Sent' = IF NewFileAt(t, n + 1) /\ t[n + 1].kind \in Large THEN Append(sent, n + 1) ELSE sent
  BY <1>1, FoldAt
<1>3. t[n + 1].kind = "end"
  BY <1>1, <1>2 DEF Node
<1>4. Sent' = sent
  BY <1>2, <1>3 DEF Large
<1>5. Walked(t, n, sent, 0, c)
  BY DEF WalkedHere
<1>c. PICK st, s2, f, c0, e, content :
      /\ st = c.stack /\ s2 = Front(st) /\ f = Last(st)
      /\ c0 = [c EXCEPT !.stack = s2] /\ e = Entered(c0, f.at, f.num)
      /\ content = [kind |-> "directory", entries |-> f.entries]
  OBVIOUS
<1>6. d = Pushed(e, f.num, content)
  BY <1>c DEF FoldEnd
<1>7. IsContext(c) /\ Frames(t, n, st) /\ IsSeq(c.inodes)
  BY <1>5, <1>c DEF Walked
<1>8. Len(st) > 0
  BY <1>2, <1>3, <1>7, OpenAt
<1>9. Frames(t, n + 1, s2) /\ PopsTo(st, f, s2) /\ f.at \in 1..n /\ t[f.at].kind = "dir"
  BY <1>2, <1>3, <1>7, <1>8, <1>c, FramesPop
<1>10. /\ IsContext(c0) /\ c0.next = c.next /\ c0.stack = s2 /\ c0.links = c.links /\ c0.nlink = c.nlink
       /\ c0.inodes = c.inodes
  BY <1>7, <1>c DEF IsContext
<1>11. /\ IsContext(e) /\ e.next = c.next /\ e.links = c.links /\ e.inodes = c.inodes
       /\ Frames(t, n + 1, e.stack) /\ EntersIn(s2, f.at, f.num, e.stack) /\ e.nlink = c.nlink
  <2> PICK at, num : at = f.at /\ num = f.num
    OBVIOUS
  <2>2. Frames(t, n + 1, c0.stack) /\ e = Entered(c0, at, num)
    BY <1>9, <1>10, <1>c
  <2>1. /\ IsContext(e) /\ e.next = c.next /\ e.links = c.links /\ e.inodes = c.inodes
    BY <1>10, <2>2, EnteredSame
  <2>3. Frames(t, n + 1, e.stack) /\ EntersIn(c0.stack, at, num, e.stack) /\ e.nlink = c0.nlink
    BY <1>10, <2>2, EnteredStack
  <2> QED
    BY <1>10, <2>1, <2>3
<1>12. /\ IsContext(d) /\ d.links = c.links /\ d.nlink = c.nlink /\ d.next = c.next
       /\ d.stack = e.stack /\ PushOf(c.inodes, f.num, content, d.inodes)
  <2>1. IsSeq(e.inodes)
    BY <1>7, <1>11
  <2>2. /\ IsContext(d) /\ d.links = e.links /\ d.nlink = e.nlink /\ d.next = e.next
        /\ d.stack = e.stack /\ PushOf(e.inodes, f.num, content, d.inodes)
    BY <1>6, <1>11, <2>1, PushedSame
  <2> QED
    BY <1>11, <2>2
<1>13. content.kind = "directory" /\ content.entries = f.entries
  BY <1>c
<1>14. Walked(t, n + 1, sent, 0, d)
  <2>1. PopsTo(c.stack, f, s2) /\ Frames(t, n + 1, d.stack) /\ EntersIn(s2, f.at, f.num, d.stack)
    BY <1>9, <1>11, <1>12, <1>c
  <2> QED
    BY <1>2, <1>3, <1>5, <1>9, <1>12, <1>13, <2>1, WalkEnd
<1> QED
  BY <1>1, <1>2, <1>4, <1>14 DEF WalkedHere

\* alloc_inode and the entry of the node, in an open directory.
LEMMA AllocatedWalks ==
  ASSUME NEW t \in Trees, NEW n \in Nat, n + 1 \in 1..Len(t), t[n + 1].kind \notin {"dir", "end"},
         NEW c, IsContext(c), Frames(t, n, c.stack),
         NEW num, NEW c0, IsContext(c0), c0.stack = c.stack, NEW e, e = Entered(c0, n + 1, num)
  PROVE  /\ IsContext(e) /\ e.next = c0.next /\ e.links = c0.links /\ e.inodes = c0.inodes /\ e.nlink = c0.nlink
         /\ Frames(t, n + 1, e.stack) /\ EntersIn(c.stack, n + 1, num, e.stack) /\ c.stack # <<>>
<1>1. Frames(t, n + 1, c0.stack)
  BY FramesStay
<1>2. IsContext(e) /\ e.next = c0.next /\ e.links = c0.links /\ e.inodes = c0.inodes
  BY EnteredSame
<1>3. Frames(t, n + 1, e.stack) /\ EntersIn(c0.stack, n + 1, num, e.stack) /\ e.nlink = c0.nlink
  <2>1. ASSUME NEW m, NEW at, m = n + 1, at = n + 1
        PROVE  Frames(t, m, e.stack) /\ EntersIn(c0.stack, at, num, e.stack) /\ e.nlink = c0.nlink
    <3>1. IsContext(c0) /\ Frames(t, m, c0.stack) /\ e = Entered(c0, at, num)
      BY <1>1, <2>1
    <3> QED
      BY ONLY <3>1, EnteredStack
  <2> QED
    BY <2>1
<1>4. c.stack # <<>>
  BY OpenAt
<1> QED
  BY <1>2, <1>3, <1>4

LEMMA FoldSymlinkWalks == ASSUME WriterInv, WalkedHere, FoldSymlink PROVE WalkedHere'
<1>0. PICK n, t, sent, c, d, c0, e, content :
        /\ n = pos - 1 /\ t = survey /\ sent = Sent /\ c = ctx /\ d = ctx'
        /\ c0 = [c EXCEPT !.next = @ + 1] /\ e = Entered(c0, pos, c.next) /\ content = [kind |-> "symlink"]
  OBVIOUS
<1>1. Folding /\ Node.kind = "symlink" /\ survey' = survey /\ pos' = pos + 1
  BY DEF FoldSymlink, Advance
<1>2. t \in Trees /\ n \in Nat /\ pos = n + 1 /\ n + 1 \in 1..Len(t) /\ pos' - 1 = n + 1 /\ SentOK(t, n, sent)
      /\ Sent' = IF NewFileAt(t, n + 1) /\ t[n + 1].kind \in Large THEN Append(sent, n + 1) ELSE sent
  BY <1>0, <1>1, FoldAt
<1>3. t[n + 1].kind = "symlink" /\ ~IsFile(t, n + 1)
  BY <1>0, <1>1, <1>2 DEF Node, IsFile, FileKinds, Large
<1>4. Sent' = sent
  BY <1>2, <1>3 DEF Large
<1>5. Walked(t, n, sent, 0, c)
  BY <1>0 DEF WalkedHere
<1>6. d = Pushed(e, c.next, content)
  BY <1>0 DEF FoldSymlink, Allocated
<1>7. IsContext(c) /\ Frames(t, n, c.stack) /\ IsSeq(c.inodes)
  BY <1>5 DEF Walked
<1>8. /\ IsContext(c0) /\ c0.next = c.next + 1 /\ c0.stack = c.stack /\ c0.links = c.links
      /\ c0.nlink = c.nlink /\ c0.inodes = c.inodes
  BY <1>0, <1>7 DEF IsContext
<1>9. PICK num : num = c.next /\ e = Entered(c0, n + 1, num)
  BY <1>0, <1>2
<1>10. /\ IsContext(e) /\ e.next = c0.next /\ e.links = c0.links /\ e.inodes = c0.inodes /\ e.nlink = c0.nlink
       /\ Frames(t, n + 1, e.stack) /\ EntersIn(c.stack, n + 1, num, e.stack)
  BY <1>2, <1>3, <1>7, <1>8, <1>9, AllocatedWalks
<1>11. /\ IsContext(d) /\ d.links = e.links /\ d.nlink = e.nlink /\ d.next = e.next
       /\ d.stack = e.stack /\ PushOf(e.inodes, num, content, d.inodes)
  <2>1. IsSeq(e.inodes) /\ d = Pushed(e, num, content)
    BY <1>6, <1>7, <1>8, <1>9, <1>10
  <2> QED
    BY <1>10, <2>1, PushedSame
<1>12. content.kind # "directory"
  BY <1>0
<1>13. /\ d.next = c.next + 1 /\ d.links = c.links /\ d.nlink = c.nlink /\ Frames(t, n + 1, d.stack)
       /\ EntersIn(c.stack, n + 1, c.next, d.stack) /\ PushOf(c.inodes, c.next, content, d.inodes)
  BY <1>8, <1>9, <1>10, <1>11
<1>14. Walked(t, n + 1, sent, 0, d)
  BY <1>2, <1>3, <1>5, <1>11, <1>12, <1>13, WalkSymlink
<1> QED
  BY <1>0, <1>1, <1>2, <1>4, <1>14 DEF WalkedHere

LEMMA FoldHardlinkWalks == ASSUME WriterInv, WalkedHere, FoldHardlink PROVE WalkedHere'
<1>0. PICK n, t, sent, c, d, num, nl, c0 :
        /\ n = pos - 1 /\ t = survey /\ sent = Sent /\ c = ctx /\ d = ctx'
        /\ num = c.links[Node.ino] /\ nl = Put(c.nlink, num, LinksOf(c.nlink, num) + 1)
        /\ c0 = [c EXCEPT !.nlink = nl]
  OBVIOUS
<1>1. Folding /\ Node.kind \in FileKinds /\ Node.ino \in DOMAIN ctx.links /\ survey' = survey /\ pos' = pos + 1
  BY DEF FoldHardlink, Advance
<1>2. t \in Trees /\ n \in Nat /\ pos = n + 1 /\ n + 1 \in 1..Len(t) /\ pos' - 1 = n + 1 /\ SentOK(t, n, sent)
      /\ Sent' = IF NewFileAt(t, n + 1) /\ t[n + 1].kind \in Large THEN Append(sent, n + 1) ELSE sent
  BY <1>0, <1>1, FoldAt
<1>3. t[n + 1].kind \notin {"dir", "end"} /\ IsFile(t, n + 1) /\ t[n + 1].ino \in DOMAIN c.links
      /\ num = c.links[t[n + 1].ino]
  BY <1>0, <1>1, <1>2 DEF Node, IsFile, FileKinds, Large
<1>4. Sent' = sent
  <2>1. ~NewFile /\ WalkInv /\ ContextInv
    BY <1>1 DEF NewFile, WriterInv
  <2>2. ~NewFileAt(survey, pos)
    BY <1>1, <2>1, LinksFacts
  <2> QED
    BY <1>0, <1>2, <2>2
<1>5. Walked(t, n, sent, 0, c)
  BY <1>0 DEF WalkedHere
<1>6. d = Entered(c0, n + 1, num)
  <2>1. ctx' = Entered([ctx EXCEPT !.nlink = Put(ctx.nlink, ctx.links[Node.ino], LinksOf(ctx.nlink, ctx.links[Node.ino]) + 1)],
                       pos, ctx.links[Node.ino])
    BY DEF FoldHardlink, LinksOf
  <2> QED
    BY <1>0, <1>2, <2>1
<1>7. IsContext(c) /\ Frames(t, n, c.stack) /\ IsSeq(c.inodes)
  BY <1>5 DEF Walked
<1>8. /\ IsContext(c0) /\ c0.next = c.next /\ c0.stack = c.stack /\ c0.links = c.links
      /\ c0.nlink = nl /\ c0.inodes = c.inodes
  BY <1>0, <1>7 DEF IsContext
<1>9. /\ IsContext(d) /\ d.next = c0.next /\ d.links = c0.links /\ d.inodes = c0.inodes /\ d.nlink = c0.nlink
      /\ Frames(t, n + 1, d.stack) /\ EntersIn(c.stack, n + 1, num, d.stack) /\ c.stack # <<>>
  BY <1>2, <1>3, <1>6, <1>7, <1>8, AllocatedWalks
<1>10. d.nlink = Put(c.nlink, num, LinksOf(c.nlink, num) + 1)
  BY <1>0, <1>8, <1>9
<1>11. Walked(t, n + 1, sent, 0, d)
  BY <1>2, <1>3, <1>5, <1>8, <1>9, <1>10, WalkHardlink
<1> QED
  BY <1>0, <1>1, <1>2, <1>4, <1>11 DEF WalkedHere

\* Linked, in an open directory.
LEMMA LinkedWalks ==
  ASSUME NEW t \in Trees, NEW n \in Nat, pos = n + 1, t = survey, n + 1 \in 1..Len(t), IsFile(t, n + 1),
         NEW c, IsContext(c), Frames(t, n, c.stack), NEW d, d = Linked(c)
  PROVE  /\ IsContext(d) /\ d.next = c.next + 1 /\ d.links = Put(c.links, t[n + 1].ino, c.next)
         /\ d.nlink = c.nlink /\ d.inodes = c.inodes /\ Frames(t, n + 1, d.stack)
         /\ EntersIn(c.stack, n + 1, c.next, d.stack) /\ c.stack # <<>>
<1>0. PICK num, c0, e, l : /\ num = c.next /\ c0 = [c EXCEPT !.next = @ + 1] /\ e = Entered(c0, n + 1, num)
                           /\ l = Put(c.links, t[n + 1].ino, num)
  OBVIOUS
<1>1. /\ IsContext(c0) /\ c0.next = c.next + 1 /\ c0.stack = c.stack /\ c0.links = c.links
      /\ c0.nlink = c.nlink /\ c0.inodes = c.inodes
  BY <1>0 DEF IsContext
<1>2. t[n + 1].kind \notin {"dir", "end"}
  BY DEF IsFile, FileKinds, Large
<1>3. e = Entered(c0, n + 1, num)
  BY <1>0
<1>4. /\ IsContext(e) /\ e.next = c0.next /\ e.links = c0.links /\ e.inodes = c0.inodes /\ e.nlink = c0.nlink
      /\ Frames(t, n + 1, e.stack) /\ EntersIn(c.stack, n + 1, num, e.stack) /\ c.stack # <<>>
  BY <1>1, <1>2, <1>3, AllocatedWalks
<1>5. d = [e EXCEPT !.links = l]
  <2>1. Allocated(c) = e
    BY <1>0 DEF Allocated
  <2>2. d = [e EXCEPT !.links = Put(@, survey[pos].ino, c.next)]
    BY <2>1 DEF Linked, Node
  <2>3. e.links = c.links /\ survey[pos].ino = t[n + 1].ino
    BY <1>1, <1>4
  <2> QED
    BY <1>0, <2>2, <2>3
<1>6. /\ IsContext(d) /\ d.next = e.next /\ d.links = l /\ d.nlink = e.nlink /\ d.inodes = e.inodes /\ d.stack = e.stack
  BY <1>4, <1>5 DEF IsContext
<1> QED
  BY <1>0, <1>1, <1>4, <1>6

LEMMA FoldInlineWalks == ASSUME WriterInv, WalkedHere, FoldInline PROVE WalkedHere'
<1>0. PICK n, t, sent, c, d, e, num, content :
        /\ n = pos - 1 /\ t = survey /\ sent = Sent /\ c = ctx /\ d = ctx' /\ num = c.next
        /\ e = Linked(c) /\ content = InlineOf(survey[pos])
  OBVIOUS
<1>1. Folding /\ NewFile /\ Node.kind = "inline" /\ survey' = survey /\ pos' = pos + 1
  BY DEF FoldInline, Advance
<1>2. t \in Trees /\ n \in Nat /\ pos = n + 1 /\ n + 1 \in 1..Len(t) /\ pos' - 1 = n + 1 /\ SentOK(t, n, sent)
      /\ Sent' = IF NewFileAt(t, n + 1) /\ t[n + 1].kind \in Large THEN Append(sent, n + 1) ELSE sent
  BY <1>0, <1>1, FoldAt
<1>3. t[n + 1].kind = "inline" /\ IsFile(t, n + 1) /\ t[n + 1].ino \notin DOMAIN c.links
  BY <1>0, <1>1, <1>2 DEF Node, IsFile, FileKinds, NewFile
<1>4. Sent' = sent
  BY <1>2, <1>3 DEF Large
<1>5. Walked(t, n, sent, 0, c)
  BY <1>0 DEF WalkedHere
<1>6. d = Pushed(e, num, content)
  BY <1>0 DEF FoldInline, InlineOf, Node
<1>7. IsContext(c) /\ Frames(t, n, c.stack) /\ IsSeq(c.inodes)
  BY <1>5 DEF Walked
<1>8. /\ IsContext(e) /\ e.next = c.next + 1 /\ e.links = Put(c.links, t[n + 1].ino, c.next)
      /\ e.nlink = c.nlink /\ e.inodes = c.inodes /\ Frames(t, n + 1, e.stack)
      /\ EntersIn(c.stack, n + 1, c.next, e.stack) /\ c.stack # <<>>
  BY <1>0, <1>2, <1>3, <1>7, LinkedWalks
<1>9. /\ IsContext(d) /\ d.links = e.links /\ d.nlink = e.nlink /\ d.next = e.next
      /\ d.stack = e.stack /\ PushOf(e.inodes, num, content, d.inodes)
  <2>1. IsSeq(e.inodes)
    BY <1>7, <1>8
  <2> QED
    BY <1>6, <1>8, <2>1, PushedSame
<1>10. /\ d.next = c.next + 1 /\ d.links = Put(c.links, t[n + 1].ino, c.next)
       /\ d.nlink = c.nlink /\ Frames(t, n + 1, d.stack)
       /\ EntersIn(c.stack, n + 1, c.next, d.stack) /\ PushOf(c.inodes, c.next, content, d.inodes)
  BY <1>0, <1>8, <1>9
<1>11. content = InlineOf(t[n + 1])
  BY <1>0, <1>2
<1>12. Walked(t, n + 1, sent, 0, d)
  BY <1>2, <1>3, <1>5, <1>8, <1>9, <1>10, <1>11, WalkInline
<1> QED
  BY <1>0, <1>1, <1>2, <1>4, <1>12 DEF WalkedHere

LEMMA FoldLargeWalks == ASSUME WriterInv, WalkedHere, FoldLarge PROVE WalkedHere'
<1>0. PICK n, t, sent, c, d :
        /\ n = pos - 1 /\ t = survey /\ sent = Sent /\ c = ctx /\ d = ctx'
  OBVIOUS
<1>1. Folding /\ NewFile /\ Node.kind \in Large /\ survey' = survey /\ pos' = pos + 1
  BY DEF FoldLarge, Advance
<1>2. t \in Trees /\ n \in Nat /\ pos = n + 1 /\ n + 1 \in 1..Len(t) /\ pos' - 1 = n + 1 /\ SentOK(t, n, sent)
      /\ Sent' = IF NewFileAt(t, n + 1) /\ t[n + 1].kind \in Large THEN Append(sent, n + 1) ELSE sent
  BY <1>0, <1>1, FoldAt
<1>3. t[n + 1].kind \in Large /\ IsFile(t, n + 1) /\ t[n + 1].ino \notin DOMAIN c.links
  BY <1>0, <1>1, <1>2 DEF Node, IsFile, FileKinds, NewFile
<1>4. NewFileAt(t, n + 1) /\ Sent' = Append(sent, n + 1)
  <2>1. WalkInv /\ ContextInv
    BY DEF WriterInv
  <2>2. NewFileAt(survey, pos)
    BY <1>1, <2>1, LinksFacts
  <2>3. NewFileAt(t, n + 1)
    BY <1>0, <1>2, <2>2
  <2> QED
    BY <1>2, <1>3, <2>3
<1>5. Walked(t, n, sent, 0, c)
  BY <1>0 DEF WalkedHere
<1>6. d = Linked(c)
  BY <1>0 DEF FoldLarge
<1>7. IsContext(c) /\ Frames(t, n, c.stack)
  BY <1>5 DEF Walked
<1>8. /\ IsContext(d) /\ d.next = c.next + 1 /\ d.links = Put(c.links, t[n + 1].ino, c.next)
      /\ d.nlink = c.nlink /\ d.inodes = c.inodes /\ Frames(t, n + 1, d.stack)
      /\ EntersIn(c.stack, n + 1, c.next, d.stack) /\ c.stack # <<>>
  BY <1>0, <1>2, <1>3, <1>6, <1>7, LinkedWalks
<1>9. Walked(t, n + 1, Sent', 0, d)
  <2> PICK more : more = Sent'
    OBVIOUS
  <2>1. more = Append(sent, n + 1)
    BY <1>4
  <2>2. Walked(t, n + 1, more, 0, d)
    BY <1>2, <1>3, <1>4, <1>5, <1>8, <2>1, WalkLarge
  <2> QED
    BY <2>2
<1> QED
  BY <1>0, <1>1, <1>2, <1>9 DEF WalkedHere

----------------------------------------------------------------------------
(* The files in the pool.                                                  *)

\* The inode number a file travels with is the one the walk gave it, and a
\* chunk that is compressed to a reference is in the base.
Numbered(f) == f.num = ctx.links[survey[f.at].ino]
Referenced(f) == \A c \in DOMAIN f.codec : f.codec[c] = "referenced" => c \in Base

PoolRead ==
  /\ \A k \in 1..Len(chan) : Numbered(chan[k])
  /\ \A f \in inflight : Numbered(f.file) /\ Referenced(f)
  /\ \A r \in results : Numbered(r.file) /\ Referenced(r)

\* References are never cached.
CleanCaches == \A w \in Workers : \A c \in DOMAIN cache[w] : cache[w][c] # "referenced"

WasWalked(at) == at \in 1..(pos - 1) /\ IsFile(survey, at)

LEMMA PoolAts ==
  ASSUME WriterInv
  PROVE  /\ \A k \in 1..Len(chan) : WasWalked(chan[k].at)
         /\ \A f \in inflight : WasWalked(f.file.at)
         /\ \A r \in results : WasWalked(r.file.at)
<1>1. PoolInv /\ WalkInv
  BY DEF WriterInv
<1>2. survey \in Trees /\ Len(survey) \in Nat /\ pos - 1 \in 0..Len(survey)
  BY <1>1, TreeFacts DEF WalkInv
<1>3. SentOK(survey, pos - 1, Sent)
  BY <1>2, SentIsOK DEF Sent
<1>4. PICK sent, n : sent = Sent /\ n = pos - 1
  OBVIOUS
<1>5. sent \in Seq(1..n) /\ \A k \in 1..Len(sent) : survey[sent[k]].kind \in Large
  BY <1>3, <1>4 DEF SentOK
<1>6. Len(sent) \in Nat /\ \A k \in 1..Len(sent) : sent[k] \in 1..n
  <2>1. ASSUME NEW S, sent \in Seq(S) PROVE Len(sent) \in Nat /\ \A k \in 1..Len(sent) : sent[k] \in S
    BY ONLY <2>1
  <2> QED
    BY <1>5, <2>1
<1>7. \A k \in 1..Len(sent) : WasWalked(sent[k])
  BY <1>4, <1>5, <1>6 DEF WasWalked, IsFile, FileKinds
<1>8. arrived \in Nat /\ Len(chan) \in Nat /\ arrived + Len(chan) = Len(sent)
  BY <1>1, <1>4 DEF PoolInv, IsSeq
<1>9. ASSUME NEW k \in 1..Len(chan) PROVE WasWalked(chan[k].at)
  <2>1. arrived + k \in 1..Len(sent) /\ chan[k].at = sent[arrived + k]
    BY <1>1, <1>4, <1>8 DEF PoolInv
  <2> QED
    BY <1>7, <2>1
<1>10. ASSUME NEW f, Placed(f) PROVE WasWalked(f.file.at)
  <2>1. f.idx + 1 \in 1..Len(sent) /\ f.file.at = sent[f.idx + 1]
    BY <1>4, <1>8, <1>10 DEF Placed
  <2> QED
    BY <1>7, <2>1
<1>11. \A f \in inflight : WasWalked(f.file.at)
  BY <1>1, <1>10 DEF PoolInv
<1>12. \A r \in results : WasWalked(r.file.at)
  BY <1>1, <1>10 DEF PoolInv
<1> QED
  BY <1>9, <1>11, <1>12

\* The numbers stay, whatever the walk adds.
LEMMA NumbersStay ==
  ASSUME WriterInv, KeepsLinks(ctx, ctx'), survey' = survey, NEW f, WasWalked(f.at), Numbered(f)
  PROVE  Numbered(f)'
<1>1. DOMAIN ctx.links = Inos(survey, pos - 1)
  BY DEF WriterInv, ContextInv
<1>2. survey[f.at].ino \in DOMAIN ctx.links
  BY <1>1 DEF Inos, IsFile, WasWalked
<1> QED
  BY <1>2 DEF Numbered, KeepsLinks

LEMMA ReferencesStay ==
  ASSUME UNCHANGED job
  PROVE  \A f : Referenced(f) => Referenced(f)'
BY DEF Referenced, Base

\* A step of the walk.
LEMMA FoldPool ==
  ASSUME WriterInv, PoolRead, KeepsLinks(ctx, ctx'), UNCHANGED <<survey, job, inflight, results>>,
         \/ chan' = chan
         \/ \E f : chan' = Append(chan, f) /\ Numbered(f)'
  PROVE  PoolRead'
<1>1. \A k \in 1..Len(chan) : Numbered(chan[k])'
  BY PoolAts, NumbersStay DEF PoolRead
<1>2. \A f \in inflight : Numbered(f.file)' /\ Referenced(f)'
  BY PoolAts, NumbersStay, ReferencesStay DEF PoolRead
<1>3. \A r \in results : Numbered(r.file)' /\ Referenced(r)'
  BY PoolAts, NumbersStay, ReferencesStay DEF PoolRead
<1>4. (\A k \in 1..Len(chan) : Numbered(chan[k]))'
  <2>1. CASE chan' = chan
    BY <1>1, <2>1 DEF Numbered
  <2>2. CASE \E f : chan' = Append(chan, f) /\ Numbered(f)'
    <3>1. PICK f : chan' = Append(chan, f) /\ Numbered(f)'
      BY <2>2
    <3>2. IsSeq(chan)
      BY DEF WriterInv, PoolInv
    <3>3. PICK s, q : s = chan /\ q = chan'
      OBVIOUS
    <3>4. IsSeq(s) /\ q = Append(s, f)
      BY <3>1, <3>2, <3>3
    <3>5. /\ Len(s) \in Nat /\ Len(q) = Len(s) + 1
          /\ \A i \in 1..Len(s) : q[i] = s[i]
          /\ q[Len(s) + 1] = f
      BY ONLY <3>4, AppendSeq
    <3>6. \A k \in 1..Len(q) : k \in 1..Len(s) \/ k = Len(s) + 1
      BY <3>5
    <3>7. \A k \in 1..Len(s) : Numbered(s[k])'
      BY <1>1, <3>3
    <3>8. ASSUME NEW k \in 1..Len(q) PROVE Numbered(q[k])'
      BY <3>1, <3>5, <3>6, <3>7
    <3> QED
      BY <3>3, <3>8
  <2> QED
    BY <2>1, <2>2
<1> QED
  BY <1>2, <1>3, <1>4 DEF PoolRead

LEMMA SameLinks ==
  ASSUME NEW c, NEW d, d.links = c.links
  PROVE  KeepsLinks(c, d)
BY DEF KeepsLinks

LEMMA MoreLinks ==
  ASSUME NEW c, NEW d, NEW x, NEW num, x \notin DOMAIN c.links, d.links = Put(c.links, x, num)
  PROVE  KeepsLinks(c, d) /\ d.links[x] = num
BY DEF KeepsLinks, Put

\* The links after a step of the walk.
LEMMA FoldLinks ==
  ASSUME WriterInv
  PROVE  /\ FoldDir => ctx'.links = ctx.links
         /\ FoldEnd => ctx'.links = ctx.links
         /\ FoldSymlink => ctx'.links = ctx.links
         /\ FoldHardlink => ctx'.links = ctx.links
         /\ FoldInline => ctx'.links = Put(ctx.links, Node.ino, ctx.next)
         /\ FoldLarge => ctx'.links = Put(ctx.links, Node.ino, ctx.next)
<1>1. IsContext(ctx) /\ IsSeq(ctx.inodes)
  BY DEF WriterInv, ContextInv
<1>2. ASSUME FoldDir PROVE ctx'.links = ctx.links
  BY <1>1, <1>2 DEF FoldDir, IsContext
<1>3. ASSUME FoldEnd PROVE ctx'.links = ctx.links
  <2>1. PICK c0, e, at, num, content :
          /\ c0 = [ctx EXCEPT !.stack = Front(@)] /\ e = Entered(c0, at, num) /\ ctx' = Pushed(e, num, content)
    BY <1>3 DEF FoldEnd
  <2>2. IsContext(c0) /\ c0.links = ctx.links /\ c0.inodes = ctx.inodes
    BY <1>1, <2>1 DEF IsContext
  <2>3. IsContext(e) /\ e.links = c0.links /\ e.inodes = c0.inodes
    <3>1. IsContext(c0) /\ e = Entered(c0, at, num)
      BY <2>1, <2>2
    <3> QED
      BY ONLY <3>1, EnteredSame
  <2>4. IsSeq(e.inodes)
    BY <1>1, <2>2, <2>3
  <2>5. ctx'.links = e.links
    BY <2>1, <2>3, <2>4, PushedSame
  <2> QED
    BY <2>2, <2>3, <2>5
<1>4. ASSUME FoldSymlink PROVE ctx'.links = ctx.links
  <2>1. PICK e, num, content : e = Allocated(ctx) /\ ctx' = Pushed(e, num, content)
    BY <1>4 DEF FoldSymlink
  <2>2. IsContext(e) /\ e.links = ctx.links /\ e.inodes = ctx.inodes
    BY <1>1, <2>1, AllocatedFacts
  <2>3. IsSeq(e.inodes)
    BY <1>1, <2>2
  <2>4. ctx'.links = e.links
    BY <2>1, <2>2, <2>3, PushedSame
  <2> QED
    BY <2>2, <2>4
<1>5. ASSUME FoldHardlink PROVE ctx'.links = ctx.links
  <2>1. PICK c0, nl, num : c0 = [ctx EXCEPT !.nlink = nl] /\ ctx' = Entered(c0, pos, num)
    BY <1>5 DEF FoldHardlink
  <2>2. IsContext(c0) /\ c0.links = ctx.links
    BY <1>1, <2>1 DEF IsContext
  <2>3. PICK at, e : at = pos /\ e = ctx'
    OBVIOUS
  <2>4. e = Entered(c0, at, num)
    BY <2>1, <2>3
  <2>5. e.links = c0.links
    BY ONLY <2>2, <2>4, EnteredSame
  <2> QED
    BY <2>2, <2>3, <2>5
<1>6. PICK l, a : l = Linked(ctx) /\ a = Allocated(ctx)
  OBVIOUS
<1>7. IsContext(a) /\ a.links = ctx.links /\ a.inodes = ctx.inodes
  BY <1>1, <1>6, AllocatedFacts
<1>8. l = [a EXCEPT !.links = Put(@, Node.ino, ctx.next)]
  BY <1>6 DEF Linked
<1>9. IsContext(l) /\ l.links = Put(ctx.links, Node.ino, ctx.next) /\ l.inodes = ctx.inodes
  BY <1>7, <1>8 DEF IsContext
<1>10. ASSUME FoldInline PROVE ctx'.links = Put(ctx.links, Node.ino, ctx.next)
  <2>1. PICK num, content : ctx' = Pushed(l, num, content)
    BY <1>6, <1>10 DEF FoldInline
  <2>2. IsSeq(l.inodes)
    BY <1>1, <1>9
  <2>3. ctx'.links = l.links
    BY <1>9, <2>1, <2>2, PushedSame
  <2> QED
    BY <1>9, <2>3
<1>11. ASSUME FoldLarge PROVE ctx'.links = Put(ctx.links, Node.ino, ctx.next)
  BY <1>6, <1>9, <1>11 DEF FoldLarge
<1> QED
  BY <1>2, <1>3, <1>4, <1>5, <1>10, <1>11

\* The invariant: what is walked and merged of the tree is in the context.
MergedHere ==
  /\ DropsInv(cfg, Base, ctx.drops)
  /\ \A m \in 0..arrived : Merged(m) => Walked(survey, Len(survey), PendingFiles, m, ctx)

ReadInv ==
  /\ CleanCaches
  /\ phase \in {"pipeline", "merge"} => PoolRead
  /\ phase = "pipeline" => WalkedHere
  /\ phase = "merge" => MergedHere
  /\ EveryFileReadsBack

\* A step of a write that goes on walking.
LEMMA PipelineOK ==
  ASSUME CleanCaches', PoolRead', WalkedHere', phase' = "pipeline"
  PROVE  ReadInv'
BY DEF ReadInv, EveryFileReadsBack

LEMMA AdvancesOK ==
  ASSUME WriterInv, ReadInv, Folding, Advance, WalkedHere', KeepsLinks(ctx, ctx'),
         \/ chan' = chan
         \/ \E f : chan' = Append(chan, f) /\ Numbered(f)'
  PROVE  ReadInv'
<1>1. PoolRead /\ phase' = "pipeline" /\ CleanCaches /\ UNCHANGED <<survey, job, inflight, results, cache>>
  BY DEF ReadInv, Folding, Advance
<1>2. PoolRead'
  BY <1>1, FoldPool
<1>3. CleanCaches'
  BY <1>1 DEF CleanCaches
<1> QED
  BY <1>1, <1>2, <1>3, PipelineOK

LEMMA FoldReads == ASSUME WriterInv, ReadInv, Fold PROVE ReadInv'
<1>0. phase = "pipeline" /\ WalkedHere
  BY DEF ReadInv, Fold, FoldDir, FoldEnd, FoldSymlink, FoldHardlink, FoldInline, FoldLarge, FoldError, FoldDone, Folding
<1>1. CASE FoldDir
  <2>1. Folding /\ Advance /\ chan' = chan
    BY <1>1 DEF FoldDir
  <2>2. KeepsLinks(ctx, ctx')
    BY <1>1, FoldLinks, SameLinks
  <2> QED
    BY <1>0, <1>1, <2>1, <2>2, FoldDirWalks, AdvancesOK
<1>2. CASE FoldEnd
  <2>1. Folding /\ Advance /\ chan' = chan
    BY <1>2 DEF FoldEnd
  <2>2. KeepsLinks(ctx, ctx')
    BY <1>2, FoldLinks, SameLinks
  <2> QED
    BY <1>0, <1>2, <2>1, <2>2, FoldEndWalks, AdvancesOK
<1>3. CASE FoldSymlink
  <2>1. Folding /\ Advance /\ chan' = chan
    BY <1>3 DEF FoldSymlink
  <2>2. KeepsLinks(ctx, ctx')
    BY <1>3, FoldLinks, SameLinks
  <2> QED
    BY <1>0, <1>3, <2>1, <2>2, FoldSymlinkWalks, AdvancesOK
<1>4. CASE FoldHardlink
  <2>1. Folding /\ Advance /\ chan' = chan
    BY <1>4 DEF FoldHardlink
  <2>2. KeepsLinks(ctx, ctx')
    BY <1>4, FoldLinks, SameLinks
  <2> QED
    BY <1>0, <1>4, <2>1, <2>2, FoldHardlinkWalks, AdvancesOK
<1>5. CASE FoldInline
  <2>1. Folding /\ Advance /\ chan' = chan /\ Node.ino \notin DOMAIN ctx.links
    BY <1>5 DEF FoldInline, NewFile
  <2>2. ctx'.links = Put(ctx.links, Node.ino, ctx.next)
    BY <1>5, FoldLinks
  <2>3. KeepsLinks(ctx, ctx')
    BY <2>1, <2>2, MoreLinks
  <2> QED
    BY <1>0, <1>5, <2>1, <2>3, FoldInlineWalks, AdvancesOK
<1>6. CASE FoldLarge
  <2>1. Folding /\ Advance /\ Node.ino \notin DOMAIN ctx.links /\ survey' = survey
    BY <1>6 DEF FoldLarge, NewFile, Advance
  <2>2. ctx'.links = Put(ctx.links, Node.ino, ctx.next)
    BY <1>6, FoldLinks
  <2>3. KeepsLinks(ctx, ctx') /\ ctx'.links[Node.ino] = ctx.next
    BY <2>1, <2>2, MoreLinks
  <2>4. PICK f : f = [num |-> ctx.next, at |-> pos]
    OBVIOUS
  <2>5. chan' = Append(chan, f) /\ f.num = ctx.next /\ f.at = pos
    BY <1>6, <2>4 DEF FoldLarge
  <2>6. Numbered(f)'
    BY <2>1, <2>3, <2>5 DEF Numbered, Node
  <2> QED
    BY <1>0, <1>6, <2>1, <2>3, <2>5, <2>6, FoldLargeWalks, AdvancesOK
<1>7. CASE FoldError \/ FoldDone
  <2>1. UNCHANGED <<phase, job, cfg, survey, pos, ctx, chan, inflight, results, cache>>
    BY <1>7 DEF FoldError, FoldDone
  <2>2. PoolRead /\ CleanCaches
    BY <1>0 DEF ReadInv
  <2>3. KeepsLinks(ctx, ctx')
    BY <2>1, SameLinks
  <2>4. PoolRead'
    BY <2>1, <2>2, <2>3, FoldPool
  <2>5. CleanCaches'
    BY <2>1, <2>2 DEF CleanCaches
  <2>6. WalkedHere'
    BY <1>0, <2>1 DEF WalkedHere, Sent
  <2> QED
    BY <1>0, <2>1, <2>4, <2>5, <2>6, PipelineOK
<1> QED
  BY <1>1, <1>2, <1>3, <1>4, <1>5, <1>6, <1>7 DEF Fold

\* The steps of the pool leave the walk and the numbers alone.
LEMMA PoolOK ==
  ASSUME ReadInv, phase = "pipeline", UNCHANGED <<phase, job, survey, pos, ctx>>, CleanCaches',
         \A k \in 1..Len(chan') : Numbered(chan'[k]),
         \A f \in inflight' : Numbered(f.file) /\ Referenced(f),
         \A r \in results' : Numbered(r.file) /\ Referenced(r)
  PROVE  ReadInv'
<1>1. PoolRead'
  BY DEF PoolRead, Numbered, Referenced, Base
<1>2. WalkedHere'
  BY DEF ReadInv, WalkedHere, Sent
<1> QED
  BY <1>1, <1>2, PipelineOK

LEMMA TakeReads == ASSUME WriterInv, ReadInv, Take PROVE ReadInv'
<1>1. /\ phase = "pipeline" /\ UNCHANGED <<phase, job, survey, pos, ctx, results, cache>>
      /\ chan # <<>> /\ chan' = Tail(chan)
      /\ inflight' = inflight \cup
           {[idx |-> arrived, file |-> Head(chan), todo |-> ToSet(survey[Head(chan).at].chunks), codec |-> <<>>]}
  BY DEF Take
<1>2. PoolRead /\ CleanCaches
  BY <1>1 DEF ReadInv
<1>3. IsSeq(chan)
  BY DEF WriterInv, PoolInv
<1>4. PICK s, q, h : s = chan /\ q = chan' /\ h = Head(chan)
  OBVIOUS
<1>5. s \in Seq(ToSet(s)) /\ s # <<>> /\ q = Tail(s) /\ h = Head(s)
  BY <1>1, <1>3, <1>4 DEF IsSeq
<1>6. /\ Len(q) = Len(s) - 1 /\ Len(s) \in Nat /\ Len(s) # 0
      /\ \A k \in 1..Len(q) : q[k] = s[k + 1]
      /\ h = s[1]
  <2>1. ASSUME NEW S, s \in Seq(S)
        PROVE  /\ Len(q) = Len(s) - 1 /\ Len(s) \in Nat /\ Len(s) # 0
               /\ \A k \in 1..Len(q) : q[k] = s[k + 1]
               /\ h = s[1]
    <3>1. s \in Seq(S) /\ s # <<>> /\ q = Tail(s) /\ h = Head(s)
      BY <1>5, <2>1
    <3> QED
      BY ONLY <3>1
  <2> QED
    BY <1>5, <2>1
<1>7. \A k \in 1..Len(q) : k + 1 \in 1..Len(s)
  BY <1>6
<1>8. \A k \in 1..Len(s) : Numbered(s[k])
  BY <1>2, <1>4 DEF PoolRead
<1>9. \A k \in 1..Len(chan') : Numbered(chan'[k])
  BY <1>4, <1>6, <1>7, <1>8
<1>10. Numbered(h)
  <2>1. 1 \in 1..Len(s)
    BY <1>6
  <2> QED
    BY <1>6, <1>8, <2>1
<1>11. PICK new : new = [idx |-> arrived, file |-> h, todo |-> ToSet(survey[h.at].chunks), codec |-> <<>>]
  OBVIOUS
<1>12. new.file = h /\ new.codec = <<>> /\ inflight' = inflight \cup {new}
  BY <1>1, <1>4, <1>11
<1>13. Referenced(new)
  BY <1>12 DEF Referenced
<1>14. \A f \in inflight' : Numbered(f.file) /\ Referenced(f)
  BY <1>2, <1>10, <1>12, <1>13 DEF PoolRead
<1>15. \A r \in results' : Numbered(r.file) /\ Referenced(r)
  BY <1>1, <1>2 DEF PoolRead
<1>16. CleanCaches'
  BY <1>1, <1>2 DEF CleanCaches
<1> QED
  BY <1>1, <1>9, <1>14, <1>15, <1>16, PoolOK

LEMMA FinishedReads ==
  ASSUME WriterInv, ReadInv, NEW f \in inflight, NEW ok, Finished(f, ok)
  PROVE  ReadInv'
<1>0. phase = "pipeline"
  BY DEF WriterInv, PhaseInv
<1>1. /\ UNCHANGED <<phase, job, survey, pos, ctx, chan, cache>>
      /\ inflight' = inflight \ {f}
      /\ results' = results \cup {[idx |-> f.idx, file |-> f.file, ok |-> ok, codec |-> f.codec]}
  BY DEF Finished
<1>2. PoolRead /\ CleanCaches
  BY <1>0 DEF ReadInv
<1>3. PICK r : r = [idx |-> f.idx, file |-> f.file, ok |-> ok, codec |-> f.codec]
  OBVIOUS
<1>4. r.file = f.file /\ r.codec = f.codec
  BY <1>3
<1>5. Numbered(r.file) /\ Referenced(r)
  BY <1>2, <1>4 DEF PoolRead, Referenced
<1>6. \A q \in results' : Numbered(q.file) /\ Referenced(q)
  BY <1>1, <1>2, <1>3, <1>5 DEF PoolRead
<1>7. \A k \in 1..Len(chan') : Numbered(chan'[k])
  BY <1>1, <1>2 DEF PoolRead
<1>8. \A g \in inflight' : Numbered(g.file) /\ Referenced(g)
  BY <1>1, <1>2 DEF PoolRead
<1>9. CleanCaches'
  BY <1>1, <1>2 DEF CleanCaches
<1> QED
  BY <1>0, <1>1, <1>6, <1>7, <1>8, <1>9, PoolOK

LEMMA CompressReads ==
  ASSUME WriterInv, ReadInv, NEW w \in Workers, NEW f \in inflight, NEW c, c \in f.todo, CompressChunk(w, f, c)
  PROVE  ReadInv'
<1>1. PICK chunked, cached, codec, store :
        /\ chunked = (survey[f.file.at].kind = "chunked")
        /\ cached  = (chunked /\ c \notin Base /\ c \in DOMAIN cache[w])
        /\ codec   = IF chunked /\ c \in Base THEN "referenced"
                     ELSE IF cached THEN cache[w][c] ELSE cfg.codec[c]
        /\ store   = (/\ chunked /\ c \notin Base /\ ~ cached
                      /\ Cardinality(DOMAIN cache[w]) < CacheMax)
        /\ inflight' = (inflight \ {f}) \cup
             {[f EXCEPT !.todo = @ \ {c}, !.codec = Put(@, c, codec)]}
        /\ cache' = IF store THEN [cache EXCEPT ![w] = Put(@, c, codec)] ELSE cache
  BY Zenon DEF CompressChunk
<1>2. phase = "pipeline" /\ UNCHANGED <<phase, job, survey, pos, ctx, chan, results>>
  BY DEF CompressChunk
<1>3. PoolRead /\ CleanCaches
  BY <1>2 DEF ReadInv
<1>4. FileOK(f) /\ cfg \in Configs /\ survey \in Trees /\ CacheInv
  BY DEF WriterInv, PoolInv, WalkInv
<1>5. c \in Chunks
  <2>1. c \in ToSet(survey[f.file.at].chunks)
    BY <1>4 DEF FileOK, ChunksAt
  <2>2. f.file.at \in 1..(pos - 1) /\ pos - 1 \in 0..Len(survey) /\ Len(survey) \in Nat
    <3>1. WasWalked(f.file.at)
      BY PoolAts
    <3>2. pos \in 1..(Len(survey) + 1) /\ Len(survey) \in Nat
      BY <1>4, TreeFacts DEF WriterInv, WalkInv
    <3> QED
      BY <3>1, <3>2 DEF WasWalked
  <2>3. survey[f.file.at].chunks \in Seq(Chunks)
    BY <1>4, <2>2, TreeFacts
  <2>4. ASSUME NEW s \in Seq(Chunks), c \in ToSet(s) PROVE c \in Chunks
    BY ONLY <2>4 DEF ToSet
  <2> QED
    BY <2>1, <2>3, <2>4
<1>6. cfg.codec[c] # "referenced"
  BY <1>4, <1>5, WriterAssumption
<1>7. codec = "referenced" => c \in Base
  BY <1>1, <1>3, <1>6, Zenon DEF CleanCaches
<1>8. store => codec # "referenced"
  BY <1>1, <1>6, Zenon
<1>9. PICK g : g = [f EXCEPT !.todo = @ \ {c}, !.codec = Put(@, c, codec)]
  OBVIOUS
<1>10. inflight' = (inflight \ {f}) \cup {g}
  BY <1>1, <1>9
<1>11. g.file = f.file /\ g.codec = Put(f.codec, c, codec)
  BY <1>4, <1>9 DEF FileOK
<1>12. Numbered(g.file) /\ Referenced(g)
  <2>1. Numbered(f.file) /\ Referenced(f)
    BY <1>3 DEF PoolRead
  <2> QED
    BY <1>7, <1>11, <2>1 DEF Referenced, Put
<1>13. \A h \in inflight' : Numbered(h.file) /\ Referenced(h)
  BY <1>3, <1>10, <1>12 DEF PoolRead
<1>14. \A r \in results' : Numbered(r.file) /\ Referenced(r)
  BY <1>2, <1>3 DEF PoolRead
<1>15. \A k \in 1..Len(chan') : Numbered(chan'[k])
  BY <1>2, <1>3 DEF PoolRead
<1>16. CleanCaches'
  <2>1. CASE store
    <3>1. cache' = [cache EXCEPT ![w] = Put(cache[w], c, codec)]
      BY <1>1, <2>1
    <3>2. \A v \in Workers : cache'[v] = IF v = w THEN Put(cache[w], c, codec) ELSE cache[v]
      BY <1>4, <3>1 DEF CacheInv
    <3> QED
      BY <1>3, <1>8, <2>1, <3>2 DEF CleanCaches, Put
  <2>2. CASE ~store
    BY <1>1, <1>3, <2>2, Zenon DEF CleanCaches
  <2> QED
    BY <2>1, <2>2
<1> QED
  BY <1>2, <1>13, <1>14, <1>15, <1>16, PoolOK

LEMMA PoolReads == ASSUME WriterInv, ReadInv, Pool PROVE ReadInv'
BY TakeReads, FinishedReads, CompressReads DEF Pool, ReadFails, FinishFile

----------------------------------------------------------------------------
(* What a merged file adds.                                                *)

NewStep(u, c, ids) == IF c \in ToSet(u) \cup ids THEN u ELSE Append(u, c)

NewSteps(it, chunks, ids) ==
  /\ it[{}] = <<>>
  /\ \A s \in SUBSET (1..Len(chunks)) :
       s # {} => it[s] = NewStep(it[s \ {Max(s)}], chunks[Max(s)], ids)

\* NewChunks, as the recursion it is.
LEMMA NewChunksFold ==
  ASSUME NEW C, NEW chunks \in Seq(C), NEW drops
  PROVE  \E it : NewChunks(chunks, drops) = it[1..Len(chunks)] /\ NewSteps(it, chunks, Ids(drops))
<1> DEFINE n == Len(chunks)
           D == DOMAIN chunks
           ids == {drops[i].id : i \in DOMAIN drops}
           S == Seq(ToSet(chunks))
           Op(u, c) == IF c \in ToSet(u) \cup ids THEN u ELSE Append(u, c)
           g == [p \in S \X (1..n) |-> Op(p[1], chunks[p[2]])]
           Fix(f) == f = [s \in SUBSET D |-> IF s = {} THEN <<>> ELSE Op(f[s \ {Max(s)}], chunks[Max(s)])]
           it == CHOOSE f : Fix(f)
           nil == <<>>
<1>1. n \in Nat /\ D = 1..n
  OBVIOUS
<1>2. NewChunks(chunks, drops) = it[D]
  BY DEF NewChunks, FoldLeft, MapThenFoldSet
<1>3. nil \in S /\ \A u \in S, k \in 1..n : Op(u, chunks[k]) \in S
  <2>1. \A k \in 1..n : chunks[k] \in ToSet(chunks)
    BY <1>1 DEF ToSet
  <2>2. \A u \in S, k \in 1..n : Append(u, chunks[k]) \in S
    BY <2>1
  <2> QED
    BY <2>2
<1>o. \A u, c : Op(u, c) = NewStep(u, c, Ids(drops))
  BY DEF NewStep, Ids
<1> HIDE DEF n, D, ids, S, Op
<1>4. g \in [S \X (1..n) -> S] /\ \A u \in S, k \in 1..n : g[<<u, k>>] = Op(u, chunks[k])
  BY <1>3
<1>5. \E f : Fix(f)
  <2>0. g \in [S \X (1..n) -> S] /\ nil \in S
    BY <1>3, <1>4
  <2> HIDE DEF g, nil
  <2>1. PICK f \in [SUBSET (1..n) -> S] : FoldsTo(f, n, nil, g)
    BY <1>1, <2>0, FoldExists
  <2>2. ASSUME NEW s \in SUBSET (1..n), s # {}
        PROVE  g[<<f[s \ {Max(s)}], Max(s)>>] = Op(f[s \ {Max(s)}], chunks[Max(s)])
    <3>1. Max(s) \in 1..n /\ s \ {Max(s)} \in SUBSET (1..n)
      BY <1>1, <2>2, MaxIndex
    <3>2. f[s \ {Max(s)}] \in S
      BY <2>1, <3>1
    <3> QED
      BY <1>4, <3>1, <3>2
  <2>3. Fix(f)
    <3>1. f = [s \in SUBSET D |-> IF s = {} THEN nil ELSE Op(f[s \ {Max(s)}], chunks[Max(s)])]
      BY <1>1, <2>1, <2>2 DEF FoldsTo
    <3> QED
      BY <3>1 DEF nil
  <2> QED
    BY <2>3
<1>6. Fix(it)
  BY <1>5
<1> HIDE DEF it
<1>7. it[{}] = nil
  BY <1>6
<1>8. ASSUME NEW s \in SUBSET (1..n), s # {}
      PROVE  it[s] = NewStep(it[s \ {Max(s)}], chunks[Max(s)], Ids(drops))
  <2>1. it[s] = Op(it[s \ {Max(s)}], chunks[Max(s)])
    BY <1>1, <1>6, <1>8
  <2> QED
    BY <1>o, <2>1
<1>9. NewSteps(it, chunks, Ids(drops))
  BY <1>7, <1>8 DEF NewSteps, n, nil
<1> QED
  BY <1>1, <1>2, <1>9 DEF n

\* u has the chunks in `met` that are not in ids, each once.
FirstMet(u, met, ids) ==
  /\ IsSeq(u)
  /\ \A c \in met : c \in ids \/ c \in ToSet(u)
  /\ \A i \in 1..Len(u) : u[i] \in met /\ u[i] \notin ids
  /\ \A i, j \in 1..Len(u) : u[i] = u[j] => i = j

LEMMA FirstMetStep ==
  ASSUME NEW u, NEW met, NEW ids, FirstMet(u, met, ids), NEW c
  PROVE  FirstMet(NewStep(u, c, ids), met \cup {c}, ids)
<1>1. IsSeq(u)
  BY DEF FirstMet
<1>2. CASE c \in ToSet(u) \cup ids
  <2>1. NewStep(u, c, ids) = u
    BY <1>2 DEF NewStep
  <2> QED
    BY <1>2, <2>1 DEF FirstMet
<1>3. CASE c \notin ToSet(u) \cup ids
  <2>1. PICK v : v = Append(u, c)
    OBVIOUS
  <2>2. NewStep(u, c, ids) = v
    BY <1>3, <2>1 DEF NewStep
  <2>3. /\ IsSeq(v) /\ Len(u) \in Nat /\ Len(v) = Len(u) + 1
        /\ \A i \in 1..Len(u) : v[i] = u[i]
        /\ v[Len(u) + 1] = c
    BY <1>1, <2>1, AppendSeq
  <2>4. ToSet(v) = ToSet(u) \cup {c} /\ \A i \in 1..Len(u) : u[i] \in ToSet(u)
    BY <1>1, <2>1, SeqFacts
  <2>5. \A i \in 1..Len(v) : i \in 1..Len(u) \/ i = Len(u) + 1
    BY <2>3
  <2>6. \A i \in 1..Len(v) : v[i] \in met \cup {c} /\ v[i] \notin ids
    BY <1>3, <2>3, <2>5 DEF FirstMet
  <2>7. \A i, j \in 1..Len(v) : v[i] = v[j] => i = j
    BY <1>3, <2>3, <2>4, <2>5 DEF FirstMet
  <2>8. \A x \in met \cup {c} : x \in ids \/ x \in ToSet(v)
    BY <2>4 DEF FirstMet
  <2> QED
    BY <2>2, <2>3, <2>6, <2>7, <2>8 DEF FirstMet
<1> QED
  BY <1>2, <1>3

LEMMA NewChunksAre ==
  ASSUME NEW C, NEW chunks \in Seq(C), NEW drops
  PROVE  FirstMet(NewChunks(chunks, drops), ToSet(chunks), Ids(drops))
<1>1. PICK it : NewChunks(chunks, drops) = it[1..Len(chunks)] /\ NewSteps(it, chunks, Ids(drops))
  BY NewChunksFold
<1>2. PICK n, ids : n = Len(chunks) /\ ids = Ids(drops)
  OBVIOUS
<1>3. n \in Nat /\ DOMAIN chunks = 1..n
  BY <1>2
<1> DEFINE Met(s) == {chunks[k] : k \in s}
           G == {s \in SUBSET (1..n) : FirstMet(it[s], Met(s), ids)}
<1>4. {} \in G
  <2>1. it[{}] = <<>>
    BY <1>1 DEF NewSteps
  <2>2. IsSeq(<<>>) /\ Len(<<>>) = 0
    BY DEF IsSeq
  <2>3. FirstMet(it[{}], Met({}), ids)
    BY <2>1, <2>2 DEF FirstMet
  <2> QED
    BY <2>3
<1>5. ASSUME NEW s \in SUBSET (1..n), s # {}, s \ {Max(s)} \in G PROVE s \in G
  <2>1. PICK m, r : m = Max(s) /\ r = s \ {Max(s)}
    OBVIOUS
  <2>2. m \in s
    <3>1. s \in SUBSET (1..(n + 1))
      BY <1>3
    <3> QED
      BY <1>3, <1>5, <2>1, <3>1, MaxOfIndices
  <2>3. s = r \cup {m}
    BY <2>1, <2>2
  <2>4. it[s] = NewStep(it[r], chunks[m], ids)
    BY <1>1, <1>2, <1>5, <2>1 DEF NewSteps
  <2>5. FirstMet(it[r], Met(r), ids)
    BY <1>5, <2>1
  <2>6. Met(s) = Met(r) \cup {chunks[m]}
    BY <2>3
  <2> HIDE DEF Met
  <2>7. FirstMet(it[s], Met(s), ids)
    BY <2>4, <2>5, <2>6, FirstMetStep
  <2> QED
    BY <2>7
<1>6. \A s \in SUBSET (1..n) : s \in G
  <2> HIDE DEF G
  <2> QED
    BY <1>3, <1>4, <1>5, IndexSetInduction
<1>7. 1..n \in G
  BY <1>6
<1>8. Met(1..n) = ToSet(chunks)
  BY <1>3 DEF ToSet
<1> QED
  BY <1>1, <1>2, <1>7, <1>8

\* r is s followed by q.
JoinOf(s, q, r) ==
  /\ IsSeq(r) /\ Len(s) \in Nat /\ Len(q) \in Nat /\ Len(r) = Len(s) + Len(q)
  /\ \A i \in 1..Len(s) : r[i] = s[i]
  /\ \A i \in 1..Len(q) : r[Len(s) + i] = q[i]
  /\ \A i \in 1..Len(r) : i \in 1..Len(s) \/ (i - Len(s) \in 1..Len(q) /\ r[i] = q[i - Len(s)])

LEMMA ConcatSeq ==
  ASSUME NEW s, IsSeq(s), NEW q, IsSeq(q), NEW r, r = s \o q
  PROVE  JoinOf(s, q, r)
<1>1. PICK S : S = ToSet(s) \cup ToSet(q)
  OBVIOUS
<1>2. s \in Seq(S) /\ q \in Seq(S)
  <2>1. s \in Seq(ToSet(s)) /\ q \in Seq(ToSet(q)) /\ ToSet(s) \subseteq S /\ ToSet(q) \subseteq S
    BY <1>1 DEF IsSeq
  <2>2. ASSUME NEW A, NEW B, A \subseteq B, NEW x \in Seq(A) PROVE x \in Seq(B)
    BY ONLY <2>2
  <2> QED
    BY <2>1, <2>2
<1>3. /\ r \in Seq(S) /\ Len(s) \in Nat /\ Len(q) \in Nat /\ Len(r) = Len(s) + Len(q)
      /\ \A i \in 1..Len(s) : r[i] = s[i]
      /\ \A i \in 1..Len(q) : r[Len(s) + i] = q[i]
  <2>1. s \in Seq(S) /\ q \in Seq(S) /\ r = s \o q
    BY <1>2
  <2> QED
    BY ONLY <2>1
<1>4. IsSeq(r)
  <2>1. Len(r) \in Nat /\ r = [i \in 1..Len(r) |-> r[i]]
    BY ONLY <1>3
  <2> QED
    BY <2>1, IsSeqFrom
<1>5. ASSUME NEW i \in 1..Len(r) PROVE i \in 1..Len(s) \/ (i - Len(s) \in 1..Len(q) /\ r[i] = q[i - Len(s)])
  <2>1. CASE i <= Len(s)
    BY <1>3, <2>1
  <2>2. CASE ~(i <= Len(s))
    <3>1. i - Len(s) \in 1..Len(q) /\ Len(s) + (i - Len(s)) = i
      BY <1>3, <2>2
    <3> QED
      BY <1>3, <3>1
  <2> QED
    BY <2>1, <2>2
<1> QED
  BY <1>3, <1>4, <1>5 DEF JoinOf

LEMMA MakeDropOK ==
  ASSUME NEW config, NEW base, NEW c \in Chunks, NEW codec, codec = "referenced" => c \in base, NEW kind,
         NEW d, d = MakeDrop(config, c, codec, kind)
  PROVE  DropOK(config, base, d) /\ d.id = c
BY DEF MakeDrop, DropOK, MayBeContainer, Threshold

LEMMA JoinDrops ==
  ASSUME NEW config, NEW base, NEW drops, DropsInv(config, base, drops),
         NEW met, NEW new, FirstMet(new, met, Ids(drops)),
         NEW add, IsSeq(add), Len(add) = Len(new),
         \A i \in 1..Len(new) : DropOK(config, base, add[i]) /\ add[i].id = new[i],
         NEW all, JoinOf(drops, add, all)
  PROVE  DropsInv(config, base, all) /\ met \subseteq Ids(all) /\ Ids(drops) \subseteq Ids(all)
<1>2. /\ IsSeq(new) /\ \A c \in met : c \in Ids(drops) \/ c \in ToSet(new)
      /\ \A i \in 1..Len(new) : new[i] \in met /\ new[i] \notin Ids(drops)
      /\ \A i, j \in 1..Len(new) : new[i] = new[j] => i = j
  BY DEF FirstMet
<1>4. Len(new) \in Nat /\ \A x : x \in ToSet(new) <=> \E i \in 1..Len(new) : new[i] = x
  BY <1>2, SeqFacts
<1>8. IsSeq(drops) /\ (\A i \in 1..Len(drops) : DropOK(config, base, drops[i]))
      /\ \A i, j \in 1..Len(drops) : drops[i].id = drops[j].id => i = j
  BY DEF DropsInv
<1>9. DOMAIN drops = 1..Len(drops)
  BY <1>8, SeqFacts
<1>10. /\ IsSeq(all) /\ Len(drops) \in Nat /\ Len(all) = Len(drops) + Len(new)
       /\ \A i \in 1..Len(drops) : all[i] = drops[i]
       /\ \A i \in 1..Len(new) : all[Len(drops) + i] = add[i]
       /\ \A i \in 1..Len(all) : i \in 1..Len(drops) \/ (i - Len(drops) \in 1..Len(new) /\ all[i] = add[i - Len(drops)])
  BY DEF JoinOf
<1>11. DOMAIN all = 1..Len(all)
  BY <1>10, SeqFacts
<1>12. \A i \in 1..Len(all) : DropOK(config, base, all[i])
  BY <1>8, <1>10
<1>13. \A i \in 1..Len(drops) : all[i].id = drops[i].id /\ all[i].id \in Ids(drops)
  BY <1>9, <1>10 DEF Ids
<1>14. \A i \in 1..Len(all) : i \notin 1..Len(drops) =>
         /\ i - Len(drops) \in 1..Len(new) /\ all[i].id = new[i - Len(drops)]
         /\ new[i - Len(drops)] \notin Ids(drops)
  BY <1>2, <1>10
<1>15. ASSUME NEW i \in 1..Len(all), NEW j \in 1..Len(all), all[i].id = all[j].id PROVE i = j
  <2>1. CASE i \in 1..Len(drops) /\ j \in 1..Len(drops)
    BY <1>8, <1>13, <1>15, <2>1
  <2>2. CASE i \in 1..Len(drops) /\ j \notin 1..Len(drops)
    BY <1>13, <1>14, <1>15, <2>2
  <2>3. CASE i \notin 1..Len(drops) /\ j \in 1..Len(drops)
    BY <1>13, <1>14, <1>15, <2>3
  <2>4. CASE i \notin 1..Len(drops) /\ j \notin 1..Len(drops)
    <3>1. i - Len(drops) \in 1..Len(new) /\ j - Len(drops) \in 1..Len(new)
          /\ new[i - Len(drops)] = new[j - Len(drops)]
      BY <1>14, <1>15, <2>4
    <3>2. i - Len(drops) = j - Len(drops)
      BY <1>2, <3>1
    <3> QED
      BY <1>10, <3>2
  <2> QED
    BY <2>1, <2>2, <2>3, <2>4
<1>16. \A i \in 1..Len(drops) : i \in DOMAIN all
  BY <1>4, <1>10, <1>11
<1>17. Ids(drops) \subseteq Ids(all)
  BY <1>9, <1>13, <1>16 DEF Ids
<1>18. ASSUME NEW x \in ToSet(new) PROVE x \in Ids(all)
  <2>1. PICK i \in 1..Len(new) : new[i] = x
    BY <1>4
  <2>2. PICK k : k = Len(drops) + i
    OBVIOUS
  <2>3. k \in DOMAIN all /\ all[k] = add[i]
    BY <1>4, <1>10, <1>11, <2>2
  <2>4. all[k].id = x
    BY <2>1, <2>3
  <2> QED
    BY <2>3, <2>4 DEF Ids
<1> QED
  BY <1>2, <1>10, <1>12, <1>15, <1>17, <1>18 DEF DropsInv

AddsOf(config, new, codec, kind, add) ==
  add = [i \in DOMAIN new |-> MakeDrop(config, new[i], codec[new[i]], kind)]

\* The drops after a merge: one for every chunk of the file.
LEMMA MergeDrops ==
  ASSUME NEW config, NEW base, NEW drops, DropsInv(config, base, drops),
         NEW chunks \in Seq(Chunks), NEW codec, NEW kind,
         \A c \in ToSet(chunks) : codec[c] = "referenced" => c \in base,
         NEW new, new = NewChunks(chunks, drops),
         NEW add, AddsOf(config, new, codec, kind, add), NEW all, all = drops \o add
  PROVE  DropsInv(config, base, all) /\ ToSet(chunks) \subseteq Ids(all) /\ Ids(drops) \subseteq Ids(all)
<1>1. FirstMet(new, ToSet(chunks), Ids(drops))
  BY NewChunksAre
<1>2. /\ IsSeq(new) /\ \A i \in 1..Len(new) : new[i] \in ToSet(chunks) /\ new[i] \notin Ids(drops)
  BY <1>1 DEF FirstMet
<1>3. ToSet(chunks) \subseteq Chunks
  <2>1. ASSUME NEW s \in Seq(Chunks) PROVE ToSet(s) \subseteq Chunks
    BY ONLY <2>1 DEF ToSet
  <2> QED
    BY <2>1
<1>4. Len(new) \in Nat /\ DOMAIN new = 1..Len(new)
  BY <1>2, SeqFacts
<1>5. add = [i \in 1..Len(new) |-> add[i]] /\ \A i \in 1..Len(new) : add[i] = MakeDrop(config, new[i], codec[new[i]], kind)
  BY <1>4 DEF AddsOf
<1>6. IsSeq(add) /\ Len(add) = Len(new)
  BY <1>4, <1>5, IsSeqFrom
<1>7. \A i \in 1..Len(new) : DropOK(config, base, add[i]) /\ add[i].id = new[i]
  <2> SUFFICES ASSUME NEW i \in 1..Len(new) PROVE DropOK(config, base, add[i]) /\ add[i].id = new[i]
    OBVIOUS
  <2>1. new[i] \in Chunks /\ (codec[new[i]] = "referenced" => new[i] \in base)
    BY <1>2, <1>3
  <2>2. PICK x, c, k : x = add[i] /\ c = new[i] /\ k = codec[new[i]]
    OBVIOUS
  <2>3. c \in Chunks /\ (k = "referenced" => c \in base) /\ x = MakeDrop(config, c, k, kind)
    BY <1>5, <2>1, <2>2
  <2>4. DropOK(config, base, x) /\ x.id = c
    BY ONLY <2>3, MakeDropOK
  <2> QED
    BY <2>2, <2>4
<1>8. JoinOf(drops, add, all)
  <2>1. IsSeq(drops) /\ IsSeq(add) /\ all = drops \o add
    BY <1>6 DEF DropsInv
  <2> QED
    BY ONLY <2>1, ConcatSeq
<1>9. DropsInv(config, base, drops)
  OBVIOUS
<1> QED
  BY ONLY <1>1, <1>6, <1>7, <1>8, <1>9, JoinDrops

\* The context after a merge: the file has its inode and its drops.
LEMMA WalkMerge ==
  ASSUME NEW t, NEW n \in Nat, NEW sent, SentOK(t, n, sent), NEW m \in Nat, m + 1 \in 1..Len(sent),
         NEW c, Walked(t, n, sent, m, c), NEW node, node = t[sent[m + 1]], NEW num, num = c.links[node.ino],
         NEW d, IsContext(d), d.next = c.next, d.links = c.links, d.nlink = c.nlink, d.stack = c.stack,
         NEW content, content = DropsOf(node), PushOf(c.inodes, num, content, d.inodes),
         Ids(c.drops) \subseteq Ids(d.drops), ToSet(node.chunks) \subseteq Ids(d.drops)
  PROVE  Walked(t, n, sent, m + 1, d)
<1>1. /\ IsSeq(c.inodes) /\ DOMAIN c.links = Inos(t, n) /\ NumInv(c) /\ Frames(t, n, c.stack)
      /\ EntryInv(t, n, c) /\ CountInv(t, n, c) /\ SentInv(t, sent, m, c) /\ InlineInv(t, n, sent, c)
  BY DEF Walked
<1>2. content.kind = "drops"
  BY DEF DropsOf
<1>3. Len(sent) \in Nat /\ \A k \in 1..Len(sent) : t[sent[k]].ino \in DOMAIN c.links
  BY <1>1, SentLinked
<1>4. node.ino \in DOMAIN c.links
  BY <1>3
<1>5. NumInv(d)
  <2>1. num \in Nat /\ num < c.next
    BY <1>1, <1>4 DEF NumInv
  <2>2. \A i \in 1..Len(d.inodes) :
          (\E k \in 1..Len(c.inodes) : d.inodes[i].num = c.inodes[k].num) \/ d.inodes[i].num = num
    BY DEF PushOf
  <2>3. NumNext(c, d)
    BY <2>1, <2>2 DEF NumNext
  <2> QED
    BY <1>1, <2>3, NumStep
<1>6. \A e : HasEntry(d, e) <=> HasEntry(c, e)
  BY <1>2 DEF HasEntry, PushOf
<1>7. EntryInv(t, n, d)
  BY <1>1, <1>6 DEF EntryInv
<1>8. CountInv(t, n, d)
  BY <1>1 DEF CountInv
<1>9. \A x \in DOMAIN c.links : c.links[x] = num => x = node.ino
  BY <1>1, <1>4 DEF NumInv
<1>10. \A k \in 1..Len(sent) : k # m + 1 => c.links[t[sent[k]].ino] # num
  BY <1>3, <1>9 DEF SentOK
<1>11. SentInv(t, sent, m + 1, d)
  <2> SUFFICES ASSUME NEW k \in 1..Len(sent)
               PROVE  IF k <= m + 1
                      THEN /\ One(d.inodes, d.links[t[sent[k]].ino], DropsOf(t[sent[k]]))
                           /\ ToSet(t[sent[k]].chunks) \subseteq Ids(d.drops)
                      ELSE None(d.inodes, d.links[t[sent[k]].ino])
    BY DEF SentInv
  <2>1. CASE k <= m
    <3>1. k <= m + 1 /\ k # m + 1
      BY <2>1
    <3>2. One(c.inodes, c.links[t[sent[k]].ino], DropsOf(t[sent[k]])) /\ ToSet(t[sent[k]].chunks) \subseteq Ids(c.drops)
      BY <1>1, <2>1 DEF SentInv
    <3>3. One(d.inodes, c.links[t[sent[k]].ino], DropsOf(t[sent[k]]))
      BY <1>10, <3>1, <3>2 DEF PushOf
    <3> QED
      BY <3>1, <3>2, <3>3
  <2>2. CASE k = m + 1
    <3>1. None(c.inodes, num)
      <4>1. ~(m + 1 <= m)
        OBVIOUS
      <4> QED
        BY <1>1, <2>2, <4>1 DEF SentInv
    <3>2. One(d.inodes, num, DropsOf(node))
      BY <3>1 DEF PushOf
    <3> QED
      BY <2>2, <3>2
  <2>3. CASE ~(k <= m + 1)
    <3>1. ~(k <= m) /\ k # m + 1
      BY <2>3
    <3>2. None(c.inodes, c.links[t[sent[k]].ino])
      BY <1>1, <3>1 DEF SentInv
    <3>3. None(d.inodes, c.links[t[sent[k]].ino])
      BY <1>10, <3>1, <3>2 DEF PushOf
    <3> QED
      BY <2>3, <3>3
  <2>4. k <= m \/ k = m + 1 \/ ~(k <= m + 1)
    OBVIOUS
  <2> QED
    BY <2>1, <2>2, <2>3, <2>4
<1>12. InlineInv(t, n, sent, d)
  <2> SUFFICES ASSUME NEW j \in 1..n, IsFile(t, j)
               PROVE  \/ \E k \in 1..Len(sent) : t[sent[k]].ino = t[j].ino
                      \/ One(d.inodes, d.links[t[j].ino], InlineOf(t[j]))
    BY DEF InlineInv
  <2>1. CASE \E k \in 1..Len(sent) : t[sent[k]].ino = t[j].ino
    BY <2>1
  <2>2. CASE One(c.inodes, c.links[t[j].ino], InlineOf(t[j]))
    <3>1. t[j].ino \in DOMAIN c.links
      BY <1>1 DEF Inos, IsFile
    <3>2. CASE c.links[t[j].ino] = num
      BY <1>9, <3>1, <3>2
    <3>3. CASE c.links[t[j].ino] # num
      BY <2>2, <3>3 DEF PushOf
    <3> QED
      BY <3>2, <3>3
  <2> QED
    BY <1>1, <2>1, <2>2 DEF InlineInv
<1>13. IsSeq(d.inodes)
  BY DEF PushOf
<1> QED
  BY <1>1, <1>5, <1>7, <1>8, <1>11, <1>12, <1>13 DEF Walked

\* How many files are merged is read off the results that are left.
LEMMA MergedOnce ==
  ASSUME PoolInv, NEW m \in 0..arrived, Merged(m), NEW q \in 0..arrived, Merged(q)
  PROVE  m = q
<1>1. arrived \in Nat
  BY DEF PoolInv
<1>2. ASSUME NEW i \in 0..arrived, NEW j \in 0..arrived, Merged(i), Merged(j), i < j PROVE FALSE
  <2>1. i \in i..(arrived - 1)
    BY <1>1, <1>2
  <2>2. PICK r \in results : r.idx = i
    BY <1>2, <2>1 DEF Merged
  <2>3. j <= r.idx
    BY <1>2 DEF Merged
  <2> QED
    BY <1>2, <2>2, <2>3
<1>3. m < q \/ q < m \/ m = q
  BY <1>1
<1> QED
  BY <1>2, <1>3

LEMMA EndReads ==
  ASSUME ReadInv, phase' = "done", out'.kind # "image", UNCHANGED cache
  PROVE  ReadInv'
BY DEF ReadInv, CleanCaches, EveryFileReadsBack

LEMMA FailReads == ASSUME ReadInv, NEW why, Fail(why) PROVE ReadInv'
<1>1. phase' = "done" /\ out' = [kind |-> "error", at |-> why] /\ UNCHANGED cache
  BY DEF Fail
<1>2. out'.kind # "image"
  BY <1>1
<1> QED
  BY <1>1, <1>2, EndReads

LEMMA NoDrops == ASSUME NEW config, NEW base PROVE DropsInv(config, base, <<>>)
BY DEF DropsInv, IsSeq

LEMMA JoinReads == ASSUME WriterInv, ReadInv, Join PROVE ReadInv'
<1>1. CASE Fail("walk")
  BY <1>1, FailReads
<1>2. CASE walk = "ok" /\ phase' = "merge"
           /\ UNCHANGED <<job, cfg, survey, broken, pos, ctx, pipeVars, cache, out, writes>>
  <2>1. phase = "pipeline" /\ inflight = {}
    BY DEF Join
  <2>2. UNCHANGED <<job, cfg, survey, broken, pos, ctx, cache, chan, walk, arrived, inflight, results>>
    BY <1>2 DEF pipeVars
  <2>3. CleanCaches /\ PoolRead /\ WalkedHere /\ ctx.drops = <<>> /\ PoolInv /\ WalkInv
    BY <2>1 DEF ReadInv, WriterInv, PhaseInv
  <2>4. CleanCaches' /\ PoolRead'
    BY <2>2, <2>3 DEF CleanCaches, PoolRead, Numbered, Referenced, Base
  <2>5. DropsInv(cfg', Base', ctx'.drops)
    <3>1. ctx'.drops = <<>>
      BY <2>2, <2>3
    <3> QED
      BY <3>1, NoDrops
  <2>6. survey \in Trees /\ Len(survey) \in Nat /\ pos - 1 = Len(survey) /\ Sent = PendingFiles
    BY <1>2, <2>3, PendingFilesFacts, TreeFacts DEF WalkInv
  <2>7. Walked(survey, Len(survey), PendingFiles, 0, ctx)
    BY <2>3, <2>6 DEF WalkedHere
  <2>8. ASSUME NEW m \in 0..arrived, Merged(m)' PROVE m = 0
    <3>1. arrived \in Nat
      BY <2>3 DEF PoolInv
    <3>2. CASE arrived = 0
      BY <3>1, <3>2
    <3>3. CASE arrived # 0
      <4>1. 0 \in 0..(arrived - 1)
        BY <3>1, <3>3
      <4>2. \A k \in 0..(arrived - 1) : \E f \in inflight \cup results : f.idx = k
        BY <2>1 DEF WriterInv, PhaseInv
      <4>3. PICK r \in results : r.idx = 0
        BY <2>1, <4>1, <4>2
      <4>4. \A x \in results' : m <= x.idx
        BY <2>8 DEF Merged
      <4> QED
        BY <2>2, <3>1, <4>3, <4>4
    <3> QED
      BY <3>2, <3>3
  <2>9. MergedHere'
    <3>1. survey' = survey /\ PendingFiles' = PendingFiles /\ ctx' = ctx /\ arrived' = arrived
      BY <2>2 DEF PendingFiles
    <3>2. ASSUME NEW m \in 0..arrived', Merged(m)' PROVE Walked(survey', Len(survey'), PendingFiles', m, ctx')
      BY <2>7, <2>8, <3>1, <3>2
    <3> QED
      BY <2>5, <3>2 DEF MergedHere
  <2> QED
    BY <1>2, <2>4, <2>9 DEF ReadInv, EveryFileReadsBack
<1> QED
  BY <1>1, <1>2 DEF Join

\* The context Merge makes, in parts.
MergesTo(c, num, content, all, d) == d = [Pushed(c, num, content) EXCEPT !.drops = all]

LEMMA MergeContext ==
  ASSUME NEW c, IsContext(c), IsSeq(c.inodes), NEW num, NEW content, NEW all,
         NEW d, MergesTo(c, num, content, all, d)
  PROVE  /\ IsContext(d) /\ d.next = c.next /\ d.links = c.links /\ d.nlink = c.nlink /\ d.stack = c.stack
         /\ PushOf(c.inodes, num, content, d.inodes) /\ d.drops = all
<1>1. PICK p : p = Pushed(c, num, content)
  OBVIOUS
<1>2. /\ IsContext(p) /\ p.links = c.links /\ p.nlink = c.nlink /\ p.next = c.next
      /\ p.stack = c.stack /\ PushOf(c.inodes, num, content, p.inodes)
  <2>1. IsContext(c) /\ IsSeq(c.inodes) /\ p = Pushed(c, num, content)
    BY <1>1
  <2> QED
    BY ONLY <2>1, PushedSame
<1>3. d = [p EXCEPT !.drops = all]
  BY <1>1 DEF MergesTo
<1>4. /\ IsContext(d) /\ d.next = p.next /\ d.links = p.links /\ d.nlink = p.nlink /\ d.stack = p.stack
      /\ d.inodes = p.inodes /\ d.drops = all
  BY ONLY <1>2, <1>3 DEF IsContext
<1> QED
  BY <1>2, <1>4

LEMMA MergeFileReads == ASSUME WriterInv, ReadInv, NEW r \in results, MergeFile(r) PROVE ReadInv'
<1>0. phase = "merge" /\ \A q \in results : r.idx <= q.idx
  BY DEF MergeFile
<1>1. CASE ~r.ok
  <2>1. Fail(r.file.at)
    BY <1>1 DEF MergeFile
  <2> QED
    BY <2>1, FailReads
<1>2. CASE r.ok
  <2>0. Merge(r)
    BY <1>2 DEF MergeFile
  <2>1. /\ PoolInv /\ WalkInv /\ ContextInv /\ CleanCaches /\ PoolRead /\ MergedHere
    BY <1>0 DEF ReadInv, WriterInv
  <2>2. /\ walk = "ok" /\ inflight = {} /\ chan = <<>> /\ r.idx \in 0..(arrived - 1) /\ Merged(r.idx) /\ arrived \in Nat
    BY <1>0, <2>1, NextResult DEF PoolInv
  <2>3. PICK m, t, n, sent, c, d, node, num, content :
          /\ m = r.idx /\ t = survey /\ n = Len(survey) /\ sent = PendingFiles /\ c = ctx /\ d = ctx'
          /\ node = survey[r.file.at] /\ num = r.file.num /\ content = DropsOf(node)
    OBVIOUS
  <2>4. PICK drops, new, add, all :
          /\ drops = c.drops /\ new = NewChunks(node.chunks, drops)
          /\ add = [i \in DOMAIN new |-> MakeDrop(cfg, new[i], r.codec[new[i]], node.kind)]
          /\ all = drops \o add
    OBVIOUS
  <2>5. MergesTo(c, num, content, all, d)
    <3>1. d = [Pushed(c, num, content) EXCEPT !.drops = @ \o add]
      BY <2>0, <2>3, <2>4 DEF Merge, DropsOf
    <3>2. Pushed(c, num, content).drops = drops
      <4>1. IsContext(c) /\ IsSeq(c.inodes)
        BY <2>1, <2>3 DEF ContextInv
      <4> QED
        BY <2>4, <4>1, PushedFacts
    <3> QED
      BY <2>4, <3>1, <3>2 DEF MergesTo
  <2>6. t \in Trees /\ n \in Nat /\ SentOK(t, n, sent) /\ Sent = sent /\ pos - 1 = n /\ Len(sent) = arrived
    <3>1. survey \in Trees /\ Len(survey) \in Nat /\ pos - 1 = Len(survey) /\ Sent = PendingFiles
      BY <2>1, <2>2, PendingFilesFacts, TreeFacts DEF WalkInv
    <3>2. SentOK(survey, Len(survey), PendingFiles)
      BY <3>1, SentIsOK DEF PendingFiles
    <3>3. Len(PendingFiles) = arrived
      <4>1. arrived + Len(chan) = Len(PendingFiles) /\ Len(chan) = 0
        BY <2>1, <2>2, <3>1 DEF PoolInv
      <4> QED
        BY <2>2, <4>1
    <3> QED
      BY <2>3, <3>1, <3>2, <3>3
  <2>7. m \in Nat /\ m + 1 \in 1..Len(sent) /\ m \in 0..arrived
    BY <2>2, <2>3, <2>6
  <2>8. r.file.at = sent[m + 1] /\ node = t[sent[m + 1]] /\ ResultOK(r)
    BY <2>1, <2>3, <2>6 DEF PoolInv, Placed
  <2>9. Walked(t, n, sent, m, c)
    BY <2>1, <2>2, <2>3, <2>7 DEF MergedHere
  <2>10. num = c.links[node.ino] /\ Referenced(r)
    BY <2>1, <2>3 DEF PoolRead, Numbered
  <2>11. IsContext(c) /\ IsSeq(c.inodes)
    BY <2>1, <2>3 DEF ContextInv
  <2>12. /\ IsContext(d) /\ d.next = c.next /\ d.links = c.links /\ d.nlink = c.nlink /\ d.stack = c.stack
         /\ PushOf(c.inodes, num, content, d.inodes) /\ d.drops = all
    BY ONLY <2>5, <2>11, MergeContext
  <2>13. node.chunks \in Seq(Chunks)
    <3>1. r.file.at \in 1..Len(survey)
      <4>1. WasWalked(r.file.at)
        BY PoolAts
      <4> QED
        BY <2>3, <2>6, <4>1 DEF WasWalked
    <3> QED
      BY <2>3, <2>6, <3>1, TreeFacts
  <2>14. \A x \in ToSet(node.chunks) : r.codec[x] = "referenced" => x \in Base
    BY <1>2, <2>3, <2>8, <2>10 DEF ResultOK, ChunksAt, Referenced
  <2>15. DropsInv(cfg, Base, all) /\ ToSet(node.chunks) \subseteq Ids(all) /\ Ids(drops) \subseteq Ids(all)
    <3>1. PICK config, base, codec, chunks, kind :
            config = cfg /\ base = Base /\ codec = r.codec /\ chunks = node.chunks /\ kind = node.kind
      OBVIOUS
    <3>2. /\ DropsInv(config, base, drops) /\ chunks \in Seq(Chunks)
          /\ \A x \in ToSet(chunks) : codec[x] = "referenced" => x \in base
          /\ new = NewChunks(chunks, drops)
          /\ AddsOf(config, new, codec, kind, add) /\ all = drops \o add
      BY <2>1, <2>3, <2>4, <2>13, <2>14, <3>1 DEF MergedHere, AddsOf
    <3>3. DropsInv(config, base, all) /\ ToSet(chunks) \subseteq Ids(all) /\ Ids(drops) \subseteq Ids(all)
      BY ONLY <3>2, MergeDrops
    <3> QED
      BY <3>1, <3>3
  <2>16. Walked(t, n, sent, m + 1, d)
    <3>1. content = DropsOf(node) /\ Ids(c.drops) \subseteq Ids(d.drops) /\ ToSet(node.chunks) \subseteq Ids(d.drops)
          /\ node = t[sent[m + 1]]
      BY <2>3, <2>4, <2>8, <2>12, <2>15
    <3> QED
      BY ONLY <2>6, <2>7, <2>9, <2>10, <2>12, <3>1, WalkMerge
  <2>17. /\ UNCHANGED <<phase, job, cfg, survey, pos, chan, arrived, inflight, cache>> /\ results' = results \ {r}
    BY <2>0 DEF Merge
  <2>18. ASSUME NEW q \in 0..arrived, Merged(q)' PROVE q = m + 1
    <3>1. \A x \in results' : q <= x.idx
      BY <2>18 DEF Merged
    <3>2. \A k \in q..(arrived - 1) : \E x \in results' : x.idx = k
      BY <2>17, <2>18 DEF Merged
    <3>3. \A x \in results' : x \in results /\ x.idx # m
      BY <2>1, <2>3, <2>17 DEF PoolInv
    <3>4. ~(q <= m)
      <4>1. q <= m => m \in q..(arrived - 1)
        BY <2>2, <2>3, <2>7
      <4> QED
        BY <3>2, <3>3, <4>1
    <3>5. ~(m + 1 < q)
      <4> SUFFICES ASSUME m + 1 < q PROVE FALSE
        OBVIOUS
      <4>1. m + 1 \in m..(arrived - 1)
        BY <2>2, <2>7
      <4>2. PICK x \in results : x.idx = m + 1
        BY <2>2, <2>3, <4>1 DEF Merged
      <4>3. x \in results'
        BY <2>3, <2>7, <2>17, <4>2
      <4> QED
        BY <2>7, <3>1, <4>2, <4>3
    <3> QED
      BY <2>2, <2>7, <3>4, <3>5
  <2>19. MergedHere'
    <3>1. survey' = t /\ PendingFiles' = sent /\ ctx' = d /\ arrived' = arrived /\ cfg' = cfg /\ Base' = Base /\ Len(survey') = n
      BY <2>3, <2>17 DEF PendingFiles, Base
    <3>2. ASSUME NEW q \in 0..arrived', Merged(q)' PROVE Walked(survey', Len(survey'), PendingFiles', q, ctx')
      <4>1. q = m + 1
        BY <2>18, <3>1, <3>2
      <4> QED
        BY <2>16, <3>1, <4>1
    <3>3. DropsInv(cfg', Base', ctx'.drops)
      BY <2>12, <2>15, <3>1
    <3> QED
      BY <3>2, <3>3 DEF MergedHere
  <2>20. PoolRead'
    <3>1. ctx'.links = ctx.links
      BY <2>3, <2>12
    <3> QED
      BY <2>1, <2>17, <3>1 DEF PoolRead, Numbered, Referenced, Base
  <2>21. CleanCaches'
    BY <2>1, <2>17 DEF CleanCaches
  <2> QED
    BY <1>0, <2>17, <2>19, <2>20, <2>21 DEF ReadInv, EveryFileReadsBack
<1> QED
  <2>1. r.ok \in BOOLEAN
    BY DEF WriterInv, PoolInv, ResultOK
  <2> QED
    BY <1>1, <1>2

----------------------------------------------------------------------------
(* The slabs.                                                              *)

Groupings(R) == [groups : Seq(Seq(R)), open : Seq(R), size : Nat]
InGroups(gs, x) == \E i \in 1..Len(gs) : x \in ToSet(gs[i])
Holds(st, x) == InGroups(st.groups, x) \/ x \in ToSet(st.open)

LEMMA PushGroup ==
  ASSUME NEW R, NEW gs \in Seq(Seq(R)), NEW g \in Seq(R), NEW p, p = Append(gs, g)
  PROVE  /\ p \in Seq(Seq(R)) /\ Len(p) \in Nat /\ DOMAIN p = 1..Len(p)
         /\ \A x : InGroups(p, x) <=> InGroups(gs, x) \/ x \in ToSet(g)
<1>1. ASSUME NEW S, gs \in Seq(S), g \in S
      PROVE  /\ p \in Seq(S) /\ Len(gs) \in Nat /\ Len(p) = Len(gs) + 1 /\ DOMAIN p = 1..Len(p)
             /\ \A i \in 1..Len(gs) : p[i] = gs[i]
             /\ p[Len(gs) + 1] = g
  <2>1. gs \in Seq(S) /\ g \in S /\ p = Append(gs, g)
    BY <1>1
  <2> QED
    BY ONLY <2>1
<1>2. /\ p \in Seq(Seq(R)) /\ Len(gs) \in Nat /\ Len(p) = Len(gs) + 1 /\ DOMAIN p = 1..Len(p)
      /\ \A i \in 1..Len(gs) : p[i] = gs[i]
      /\ p[Len(gs) + 1] = g
  BY <1>1
<1>3. /\ \A i \in 1..Len(p) : i \in 1..Len(gs) \/ i = Len(gs) + 1
      /\ \A i \in 1..Len(gs) : i \in 1..Len(p)
      /\ Len(gs) + 1 \in 1..Len(p) /\ Len(p) \in Nat
  BY <1>2
<1>4. ASSUME NEW x PROVE InGroups(p, x) <=> InGroups(gs, x) \/ x \in ToSet(g)
  BY ONLY <1>2, <1>3 DEF InGroups
<1> QED
  BY <1>2, <1>3, <1>4

LEMMA OneOpen ==
  ASSUME NEW R, NEW d \in R
  PROVE  <<d>> \in Seq(R) /\ \A x : x \in ToSet(<<d>>) <=> x = d
BY DEF ToSet

\* A step of the scan adds the drop it is at, unless that is a reference.
LEMMA GroupedStep ==
  ASSUME NEW R, NEW st \in Groupings(R), NEW d \in R, Footprint[d.id] \in Nat, NEW g, g = Grouped(st, d)
  PROVE  /\ g \in Groupings(R)
         /\ \A x : Holds(g, x) <=> Holds(st, x) \/ (d.codec # "referenced" /\ x = d)
<1>1. PICK gs, op, size, f : gs = st.groups /\ op = st.open /\ size = st.size /\ f = Footprint[d.id]
  OBVIOUS
<1>2. gs \in Seq(Seq(R)) /\ op \in Seq(R) /\ size \in Nat /\ f \in Nat
  BY <1>1 DEF Groupings
<1>3. CASE d.codec = "referenced"
  BY <1>3 DEF Grouped
<1>4. CASE d.codec # "referenced" /\ op # <<>> /\ size + f > MaxContent
  <2>1. PICK p, q : p = Append(gs, op) /\ q = <<d>>
    OBVIOUS
  <2>2. g = [groups |-> p, open |-> q, size |-> f]
    BY <1>1, <1>4, <2>1 DEF Grouped
  <2>3. p \in Seq(Seq(R)) /\ \A x : InGroups(p, x) <=> InGroups(gs, x) \/ x \in ToSet(op)
    BY <1>2, <2>1, PushGroup
  <2>4. q \in Seq(R) /\ \A x : x \in ToSet(q) <=> x = d
    BY <2>1, OneOpen
  <2>5. g.groups = p /\ g.open = q /\ g \in Groupings(R)
    BY ONLY <1>2, <2>2, <2>3, <2>4 DEF Groupings
  <2> QED
    BY <1>1, <1>4, <2>3, <2>4, <2>5 DEF Holds
<1>5. CASE d.codec # "referenced" /\ ~(op # <<>> /\ size + f > MaxContent)
  <2>1. PICK q : q = Append(op, d)
    OBVIOUS
  <2>2. g = [st EXCEPT !.open = q, !.size = size + f]
    BY <1>1, <1>5, <2>1 DEF Grouped
  <2>3. q \in Seq(R) /\ \A x : x \in ToSet(q) <=> x \in ToSet(op) \/ x = d
    <3>1. op \in Seq(R) /\ d \in R /\ q = Append(op, d)
      BY <1>2, <2>1
    <3>2. q \in Seq(R) /\ Len(op) \in Nat /\ op = [i \in 1..Len(op) |-> op[i]]
      BY ONLY <3>1
    <3>3. IsSeq(op)
      BY <3>2, IsSeqFrom
    <3>4. ToSet(q) = ToSet(op) \cup {d}
      BY <3>1, <3>3, SeqFacts
    <3> QED
      BY <3>2, <3>4
  <2>4. g = [groups |-> gs, open |-> q, size |-> size + f]
    BY <1>1, <2>2 DEF Groupings
  <2>5. g.groups = gs /\ g.open = q /\ g \in Groupings(R)
    BY ONLY <1>2, <2>3, <2>4 DEF Groupings
  <2> QED
    BY <1>1, <1>5, <2>3, <2>5 DEF Holds
<1> QED
  BY <1>3, <1>4, <1>5

PackSteps(it, drops) ==
  /\ it[{}] = Ungrouped
  /\ \A s \in SUBSET (1..Len(drops)) : s # {} => it[s] = Grouped(it[s \ {Max(s)}], drops[Max(s)])

\* The scan of pack_slabs, as the recursion it is.
LEMMA PackFold ==
  ASSUME NEW R, NEW drops \in Seq(R), \A d \in R : Footprint[d.id] \in Nat
  PROVE  \E it : FoldLeft(Grouped, Ungrouped, drops) = it[1..Len(drops)] /\ PackSteps(it, drops)
<1> DEFINE n == Len(drops)
           D == DOMAIN drops
           S == Groupings(R)
           Op(u, d) == Grouped(u, d)
           g == [p \in S \X (1..n) |-> Op(p[1], drops[p[2]])]
           Fix(f) == f = [s \in SUBSET D |-> IF s = {} THEN Ungrouped ELSE Op(f[s \ {Max(s)}], drops[Max(s)])]
           it == CHOOSE f : Fix(f)
           nil == Ungrouped
<1>1. n \in Nat /\ D = 1..n
  OBVIOUS
<1>2. FoldLeft(Grouped, Ungrouped, drops) = it[D]
  BY DEF FoldLeft, MapThenFoldSet
<1>3. nil \in S /\ \A u \in S, k \in 1..n : Op(u, drops[k]) \in S
  <2>1. nil \in S
    BY DEF Ungrouped, Groupings
  <2>2. \A k \in 1..n : drops[k] \in R
    OBVIOUS
  <2> HIDE DEF nil
  <2> QED
    BY <2>1, <2>2, GroupedStep
<1> HIDE DEF n, D, S, Op
<1>4. g \in [S \X (1..n) -> S] /\ \A u \in S, k \in 1..n : g[<<u, k>>] = Op(u, drops[k])
  BY <1>3
<1>5. \E f : Fix(f)
  <2>0. g \in [S \X (1..n) -> S] /\ nil \in S
    BY <1>3, <1>4
  <2> HIDE DEF g, nil
  <2>1. PICK f \in [SUBSET (1..n) -> S] : FoldsTo(f, n, nil, g)
    BY <1>1, <2>0, FoldExists
  <2>2. ASSUME NEW s \in SUBSET (1..n), s # {}
        PROVE  g[<<f[s \ {Max(s)}], Max(s)>>] = Op(f[s \ {Max(s)}], drops[Max(s)])
    <3>1. Max(s) \in 1..n /\ s \ {Max(s)} \in SUBSET (1..n)
      BY <1>1, <2>2, MaxIndex
    <3>2. f[s \ {Max(s)}] \in S
      BY <2>1, <3>1
    <3> QED
      BY <1>4, <3>1, <3>2
  <2>3. Fix(f)
    <3>1. f = [s \in SUBSET D |-> IF s = {} THEN nil ELSE Op(f[s \ {Max(s)}], drops[Max(s)])]
      BY <1>1, <2>1, <2>2 DEF FoldsTo
    <3> QED
      BY <3>1 DEF nil
  <2> QED
    BY <2>3
<1>6. Fix(it)
  BY <1>5
<1> HIDE DEF it
<1>7. it[{}] = Ungrouped
  BY <1>6
<1>8. ASSUME NEW s \in SUBSET (1..n), s # {}
      PROVE  it[s] = Grouped(it[s \ {Max(s)}], drops[Max(s)])
  <2>1. it[s] = Op(it[s \ {Max(s)}], drops[Max(s)])
    BY <1>1, <1>6, <1>8
  <2> QED
    BY <2>1 DEF Op
<1>9. PackSteps(it, drops)
  BY <1>7, <1>8 DEF PackSteps, n
<1> QED
  BY <1>1, <1>2, <1>9 DEF n

\* The slabs hold the drops that are not references, and no others.
SlabsHold(slabs, drops) ==
  /\ DOMAIN slabs = 1..Len(slabs)
  /\ \A x : InGroups(slabs, x) <=> \E k \in 1..Len(drops) : x = drops[k] /\ x.codec # "referenced"

LEMMA PackSlabsAre ==
  ASSUME NEW R, NEW drops \in Seq(R), \A d \in R : Footprint[d.id] \in Nat
  PROVE  SlabsHold(PackSlabs(drops), drops)
<1>1. PICK it : FoldLeft(Grouped, Ungrouped, drops) = it[1..Len(drops)] /\ PackSteps(it, drops)
  BY PackFold
<1>2. PICK n : n = Len(drops)
  OBVIOUS
<1>3. n \in Nat /\ \A k \in 1..n : drops[k] \in R
  BY <1>2
<1> DEFINE Has(s, x) == \E k \in s : x = drops[k] /\ x.codec # "referenced"
           G == {s \in SUBSET (1..n) : it[s] \in Groupings(R) /\ \A x : Holds(it[s], x) <=> Has(s, x)}
<1>4. {} \in G
  <2>1. it[{}] = Ungrouped
    BY <1>1 DEF PackSteps
  <2>2. Ungrouped \in Groupings(R) /\ \A x : ~Holds(Ungrouped, x)
    BY DEF Ungrouped, Groupings, Holds, InGroups, ToSet
  <2>3. \A x : Holds(it[{}], x) <=> Has({}, x)
    BY <2>1, <2>2
  <2> QED
    BY <2>1, <2>2, <2>3
<1>5. ASSUME NEW s \in SUBSET (1..n), s # {}, s \ {Max(s)} \in G PROVE s \in G
  <2>1. PICK m, r, st, d : m = Max(s) /\ r = s \ {Max(s)} /\ st = it[r] /\ d = drops[m]
    OBVIOUS
  <2>2. m \in s
    <3>1. s \in SUBSET (1..(n + 1))
      BY <1>3
    <3> QED
      BY <1>3, <1>5, <2>1, <3>1, MaxOfIndices
  <2>3. s = r \cup {m}
    BY <2>1, <2>2
  <2>4. it[s] = Grouped(st, d)
    BY <1>1, <1>2, <1>5, <2>1 DEF PackSteps
  <2>5. st \in Groupings(R) /\ \A x : Holds(st, x) <=> Has(r, x)
    BY <1>5, <2>1
  <2>6. d \in R /\ Footprint[d.id] \in Nat
    BY <1>3, <2>1, <2>2
  <2>7. PICK g : g = Grouped(st, d)
    OBVIOUS
  <2>8. g \in Groupings(R) /\ \A x : Holds(g, x) <=> Holds(st, x) \/ (d.codec # "referenced" /\ x = d)
    BY ONLY <2>5, <2>6, <2>7, GroupedStep
  <2>9. \A x : Has(s, x) <=> Has(r, x) \/ (d.codec # "referenced" /\ x = d)
    BY <2>1, <2>3
  <2> HIDE DEF Has
  <2>10. it[s] \in Groupings(R) /\ \A x : Holds(it[s], x) <=> Has(s, x)
    BY <2>4, <2>5, <2>7, <2>8, <2>9
  <2> QED
    BY <2>10
<1>6. \A s \in SUBSET (1..n) : s \in G
  <2> HIDE DEF G
  <2> QED
    BY <1>3, <1>4, <1>5, IndexSetInduction
<1>7. PICK last : last = it[1..n]
  OBVIOUS
<1>8. last \in Groupings(R) /\ \A x : Holds(last, x) <=> Has(1..n, x)
  <2>1. 1..n \in G
    BY <1>6
  <2> QED
    BY <1>7, <2>1
<1>9. last.groups \in Seq(Seq(R)) /\ last.open \in Seq(R)
  BY <1>8 DEF Groupings
<1>10. PICK gs, op, slabs : gs = last.groups /\ op = last.open /\ slabs = PackSlabs(drops)
  OBVIOUS
<1>11. slabs = IF op = <<>> THEN gs ELSE Append(gs, op)
  BY <1>1, <1>2, <1>7, <1>10 DEF PackSlabs
<1>12. gs \in Seq(Seq(R)) /\ op \in Seq(R) /\ \A x : Has(1..n, x) <=> InGroups(gs, x) \/ x \in ToSet(op)
  BY <1>8, <1>9, <1>10 DEF Holds
<1> HIDE DEF Has
<1>13. DOMAIN slabs = 1..Len(slabs) /\ \A x : InGroups(slabs, x) <=> Has(1..n, x)
  <2>1. CASE op = <<>>
    <3>1. \A x : x \notin ToSet(op)
      BY <2>1 DEF ToSet
    <3>2. slabs = gs
      BY <1>11, <2>1
    <3>3. ASSUME NEW S, gs \in Seq(S) PROVE DOMAIN gs = 1..Len(gs)
      BY ONLY <3>3
    <3> QED
      BY <1>12, <3>1, <3>2, <3>3
  <2>2. CASE op # <<>>
    <3>1. slabs = Append(gs, op)
      BY <1>11, <2>2
    <3>2. DOMAIN slabs = 1..Len(slabs) /\ \A x : InGroups(slabs, x) <=> InGroups(gs, x) \/ x \in ToSet(op)
      BY ONLY <1>12, <3>1, PushGroup
    <3> QED
      BY <1>12, <3>2
  <2> QED
    BY <2>1, <2>2
<1> QED
  BY <1>2, <1>10, <1>13 DEF SlabsHold, Has

----------------------------------------------------------------------------
(* The image.                                                              *)

\* A container that was swapped for a dictionary stream, which the reader
\* refuses.
Swapped(config, d) == MaySwap(config, d.id) /\ d.seekable /\ d.dict # "none"

\* What the dictionary pass makes of the drops.
Applied(config, drops, a, dicts) ==
  /\ IsSeq(a) /\ Len(a) = Len(drops) /\ Len(drops) \in Nat
  /\ \A i \in 1..Len(drops) :
       /\ a[i].id = drops[i].id /\ a[i].codec = drops[i].codec
       /\ DecodeDrop(a[i], dicts) \/ Swapped(config, a[i])

\* A drop that is swapped for its dictionary form decodes with one of the
\* dictionaries of the image, unless it was a container.
LEMMA AppliedFacts ==
  ASSUME NEW config \in Configs, NEW base, NEW drops, DropsInv(config, base, drops),
         NEW adopted, adopted \subseteq {"text", "binary"},
         NEW a, a = ApplyDictionaries(config, adopted, drops),
         NEW dicts, dicts = EmittedDictionaries(config, adopted, drops)
  PROVE  Applied(config, drops, a, dicts)
<1>1. IsSeq(drops) /\ \A i \in 1..Len(drops) : DropOK(config, base, drops[i])
  BY DEF DropsInv
<1>2. Len(drops) \in Nat /\ DOMAIN drops = 1..Len(drops)
  BY <1>1, SeqFacts
<1>3. PICK pay, cand, tc :
        /\ pay = DictionariesPay(config, adopted, drops) /\ cand = Candidates(config, adopted, drops)
        /\ tc = TrainedClasses(config, adopted, drops)
  OBVIOUS
<1>4. a = [i \in 1..Len(drops) |->
             IF pay /\ i \in cand
             THEN [drops[i] EXCEPT !.dict = ClassOf[drops[i].id], !.body = "dictStream"]
             ELSE drops[i]]
  BY <1>2, <1>3 DEF ApplyDictionaries
<1>5. \A i \in cand : config.dict /\ ClassOf[drops[i].id] \in tc
  BY <1>3 DEF Candidates, Retained
<1>6. tc \subseteq {"text", "binary"} /\ (pay => dicts = tc)
  <2>1. config.trains \subseteq {"text", "binary"}
    BY WriterAssumption
  <2> QED
    BY <1>3, <2>1 DEF TrainedClasses, EmittedDictionaries
<1>7. a = [i \in 1..Len(drops) |-> a[i]]
  BY <1>4
<1>8. IsSeq(a) /\ Len(a) = Len(drops)
  BY <1>2, <1>7, IsSeqFrom
<1>9. ASSUME NEW i \in 1..Len(drops)
      PROVE  /\ a[i].id = drops[i].id /\ a[i].codec = drops[i].codec
             /\ DecodeDrop(a[i], dicts) \/ Swapped(config, a[i])
  <2>1. PICK d, x, k : d = drops[i] /\ x = a[i] /\ k = ClassOf[drops[i].id]
    OBVIOUS
  <2>2. DropOK(config, base, d)
    BY <1>1, <2>1
  <2>3. CASE pay /\ i \in cand
    <3>1. x = [d EXCEPT !.dict = k, !.body = "dictStream"]
      BY <1>4, <2>1, <2>3
    <3>2. x.id = d.id /\ x.codec = d.codec /\ x.seekable = d.seekable /\ x.dict = k /\ x.body = "dictStream"
      BY ONLY <2>2, <3>1 DEF DropOK
    <3>3. config.dict /\ k \in tc /\ dicts = tc
      BY <1>5, <1>6, <2>1, <2>3
    <3>4. d.seekable => MaySwap(config, d.id)
      BY <2>2, <3>3 DEF DropOK, MayBeContainer, MaySwap
    <3>5. k # "none" /\ k \in dicts
      BY <1>6, <3>3
    <3> QED
      BY <2>1, <3>2, <3>4, <3>5 DEF DecodeDrop, Swapped
  <2>4. CASE ~(pay /\ i \in cand)
    <3>1. x = d
      BY <1>4, <2>1, <2>4
    <3>2. d.dict = "none" /\ (d.seekable => d.body = "container") /\ (~d.seekable => d.body = "stream")
      BY <2>2 DEF DropOK
    <3> QED
      BY <2>1, <3>1, <3>2 DEF DecodeDrop
  <2> QED
    BY <2>3, <2>4
<1> QED
  BY <1>2, <1>8, <1>9 DEF Applied

\* A chunk of a merged file reads back from the slabs, or from the base, or
\* is in a swapped container.
ChunkReads(config, drops, dicts, base, c) ==
  \/ \E d \in drops : d.id = c /\ DecodeDrop(d, dicts)
  \/ c \in base /\ \A d \in drops : d.id # c
  \/ MaySwap(config, c) /\ \E d \in drops : d.id = c /\ d.seekable /\ d.dict # "none"

LEMMA ChunksRead ==
  ASSUME NEW config \in Configs, NEW base, NEW drops, DropsInv(config, base, drops),
         NEW adopted, adopted \subseteq {"text", "binary"},
         NEW a, a = ApplyDictionaries(config, adopted, drops),
         NEW dicts, dicts = EmittedDictionaries(config, adopted, drops),
         NEW o, o.slabs = PackSlabs(a), NEW c \in Ids(drops)
  PROVE  ChunkReads(config, DropsIn(o), dicts, base, c)
<1>0. PICK slabs : slabs = PackSlabs(a) /\ o.slabs = slabs
  OBVIOUS
<1>1. /\ IsSeq(a) /\ Len(a) = Len(drops) /\ Len(drops) \in Nat
      /\ \A i \in 1..Len(drops) :
           /\ a[i].id = drops[i].id /\ a[i].codec = drops[i].codec
           /\ DecodeDrop(a[i], dicts) \/ Swapped(config, a[i])
  <2>1. /\ config \in Configs /\ DropsInv(config, base, drops) /\ adopted \subseteq {"text", "binary"}
        /\ a = ApplyDictionaries(config, adopted, drops) /\ dicts = EmittedDictionaries(config, adopted, drops)
    OBVIOUS
  <2>2. Applied(config, drops, a, dicts)
    BY ONLY <2>1, AppliedFacts
  <2> QED
    BY <2>2 DEF Applied
<1>2. /\ IsSeq(drops) /\ \A i \in 1..Len(drops) : DropOK(config, base, drops[i])
      /\ \A i, j \in 1..Len(drops) : drops[i].id = drops[j].id => i = j
  BY DEF DropsInv
<1>3. \A d \in ToSet(a) : Footprint[d.id] \in Nat
  <2>1. \A d \in ToSet(a) : \E i \in 1..Len(drops) : a[i] = d
    BY <1>1, SeqFacts
  <2>2. \A i \in 1..Len(drops) : a[i].id \in Chunks
    BY <1>1, <1>2 DEF DropOK
  <2> QED
    BY <2>1, <2>2, WriterAssumption
<1>4. SlabsHold(slabs, a)
  <2>1. a \in Seq(ToSet(a))
    BY <1>1 DEF IsSeq
  <2> QED
    BY <1>0, <1>3, <2>1, PackSlabsAre
<1>5. PICK D : D = UNION {ToSet(slabs[i]) : i \in DOMAIN slabs} /\ D = DropsIn(o)
  BY <1>0 DEF DropsIn
<1>6. \A x : x \in D <=> \E k \in 1..Len(drops) : x = a[k] /\ a[k].codec # "referenced"
  <2>1. \A x : x \in D <=> InGroups(slabs, x)
    BY <1>4, <1>5 DEF SlabsHold, InGroups
  <2> QED
    BY <1>1, <1>4, <2>1 DEF SlabsHold
<1>7. PICK i \in 1..Len(drops) : drops[i].id = c
  <2>1. DOMAIN drops = 1..Len(drops)
    BY <1>2, SeqFacts
  <2> QED
    BY <2>1 DEF Ids
<1>8. CASE a[i].codec # "referenced"
  <2>1. a[i] \in D /\ a[i].id = c /\ (DecodeDrop(a[i], dicts) \/ Swapped(config, a[i]))
    BY <1>1, <1>6, <1>7, <1>8
  <2> QED
    BY <1>5, <2>1 DEF ChunkReads, Swapped
<1>9. CASE a[i].codec = "referenced"
  <2>1. c \in base
    BY <1>1, <1>2, <1>7, <1>9 DEF DropOK
  <2>2. ASSUME NEW x \in D PROVE x.id # c
    <3>1. PICK k \in 1..Len(drops) : x = a[k] /\ a[k].codec # "referenced"
      BY <1>6
    <3>2. k # i
      BY <1>9, <3>1
    <3>3. drops[k].id # drops[i].id
      BY <1>2, <3>2
    <3> QED
      BY <1>1, <1>7, <3>1, <3>3
  <2> QED
    BY <1>5, <2>1, <2>2 DEF ChunkReads
<1> QED
  BY <1>8, <1>9

LEMMA EncodeFacts ==
  ASSUME NEW n, NEW table, NEW nlink, NEW x, x = EncodeInode(n, table, nlink)
  PROVE  /\ x.num = n.num /\ x.nlink = LinksOf(nlink, n.num)
         /\ x.content = n.content \/
              (n.content.kind = "inline" /\ x.content.kind = "shared"
               /\ x.content.index \in DOMAIN table /\ table[x.content.index] = n.content.chunks)
<1>1. x.num = n.num /\ x.nlink = LinksOf(nlink, n.num)
  BY DEF EncodeInode, LinksOf
<1>2. CASE n.content.kind = "inline" /\ n.content.chunks \in ToSet(table)
  <2>1. PICK k : k = CHOOSE i \in DOMAIN table : table[i] = n.content.chunks
    OBVIOUS
  <2>2. \E i \in DOMAIN table : table[i] = n.content.chunks
    BY <1>2 DEF ToSet
  <2>3. k \in DOMAIN table /\ table[k] = n.content.chunks
    BY <2>1, <2>2
  <2>4. x.content = [kind |-> "shared", index |-> k]
    BY <1>2, <2>1 DEF EncodeInode
  <2>5. x.content.kind = "shared" /\ x.content.index = k
    BY <2>4
  <2> QED
    BY <1>1, <1>2, <2>3, <2>5
<1>3. CASE ~(n.content.kind = "inline" /\ n.content.chunks \in ToSet(table))
  <2>1. x.content = n.content
    BY <1>3 DEF EncodeInode
  <2> QED
    BY <1>1, <2>1
<1> QED
  BY <1>2, <1>3

\* The inodes of an image, given those of the context.
EncodedFrom(inodes, c, table) ==
  /\ DOMAIN inodes = 1..Len(c.inodes)
  /\ \A i \in 1..Len(c.inodes) :
       /\ inodes[i].num = c.inodes[i].num /\ inodes[i].nlink = LinksOf(c.nlink, c.inodes[i].num)
       /\ inodes[i].content = c.inodes[i].content \/
            (c.inodes[i].content.kind = "inline" /\ inodes[i].content.kind = "shared"
             /\ inodes[i].content.index \in DOMAIN table
             /\ table[inodes[i].content.index] = c.inodes[i].content.chunks)

LEMMA EncodedAll ==
  ASSUME NEW c, IsSeq(c.inodes), NEW table, NEW inodes,
         inodes = [i \in DOMAIN c.inodes |-> EncodeInode(c.inodes[i], table, c.nlink)]
  PROVE  EncodedFrom(inodes, c, table)
<1>1. DOMAIN c.inodes = 1..Len(c.inodes)
  BY SeqFacts
<1>2. DOMAIN inodes = 1..Len(c.inodes) /\ \A i \in 1..Len(c.inodes) : inodes[i] = EncodeInode(c.inodes[i], table, c.nlink)
  BY <1>1
<1>3. ASSUME NEW i \in 1..Len(c.inodes)
      PROVE  /\ inodes[i].num = c.inodes[i].num /\ inodes[i].nlink = LinksOf(c.nlink, c.inodes[i].num)
             /\ inodes[i].content = c.inodes[i].content \/
                  (c.inodes[i].content.kind = "inline" /\ inodes[i].content.kind = "shared"
                   /\ inodes[i].content.index \in DOMAIN table
                   /\ table[inodes[i].content.index] = c.inodes[i].content.chunks)
  <2>1. PICK x, n, nl : x = inodes[i] /\ n = c.inodes[i] /\ nl = c.nlink
    OBVIOUS
  <2>2. x = EncodeInode(n, table, nl)
    BY <1>2, <2>1
  <2>3. /\ x.num = n.num /\ x.nlink = LinksOf(nl, n.num)
        /\ x.content = n.content \/
             (n.content.kind = "inline" /\ x.content.kind = "shared"
              /\ x.content.index \in DOMAIN table /\ table[x.content.index] = n.content.chunks)
    BY ONLY <2>2, EncodeFacts
  <2> QED
    BY <2>1, <2>3
<1> QED
  BY <1>2, <1>3 DEF EncodedFrom

\* The entry of a file leads to its number.
EntriesLead(t, n, c, o) ==
  \A at \in 1..n : IsFile(t, at) => EntryOf(o, at).num = c.links[t[at].ino]

LEMMA EntryReads ==
  ASSUME NEW t, NEW n, NEW c, EntryInv(t, n, c), Len(c.stack) = 0, NEW table,
         NEW o, EncodedFrom(o.inodes, c, table)
  PROVE  EntriesLead(t, n, c, o)
<1> SUFFICES ASSUME NEW at \in 1..n, IsFile(t, at) PROVE EntryOf(o, at).num = c.links[t[at].ino]
  BY DEF EntriesLead
<1>1. PICK E : E = UNION {ToSet(x.content.entries) :
                            x \in {y \in ToSet(o.inodes) : y.content.kind = "directory"}}
  OBVIOUS
<1>2. EntryOf(o, at) = CHOOSE e \in E : e.name = at
  BY <1>1 DEF EntryOf
<1>3. \A e : HasEntry(c, e) <=> InDirs(c.inodes, e)
  BY DEF HasEntry, InStack
<1>4. \A i \in 1..Len(c.inodes) :
        /\ o.inodes[i].content.kind = "directory" <=> c.inodes[i].content.kind = "directory"
        /\ c.inodes[i].content.kind = "directory" => o.inodes[i].content = c.inodes[i].content
  BY DEF EncodedFrom
<1>5. \A y : y \in ToSet(o.inodes) <=> \E i \in 1..Len(c.inodes) : y = o.inodes[i]
  BY DEF EncodedFrom, ToSet
<1>6. ASSUME NEW e PROVE e \in E <=> InDirs(c.inodes, e)
  <2>1. e \in E <=> \E y \in ToSet(o.inodes) : y.content.kind = "directory" /\ e \in ToSet(y.content.entries)
    BY <1>1
  <2>2. e \in E <=> \E i \in 1..Len(c.inodes) :
                      o.inodes[i].content.kind = "directory" /\ e \in ToSet(o.inodes[i].content.entries)
    BY ONLY <1>5, <2>1
  <2> QED
    BY <1>4, <2>2 DEF InDirs
<1>7. PICK f : f = [name |-> at, num |-> c.links[t[at].ino]]
  OBVIOUS
<1>8. f \in E /\ f.name = at
  <2>1. HasEntry(c, f)
    BY <1>7 DEF EntryInv
  <2> QED
    BY <1>3, <1>6, <1>7, <2>1
<1>9. EntryOf(o, at) \in E /\ EntryOf(o, at).name = at
  BY <1>2, <1>8
<1>10. HasEntry(c, EntryOf(o, at))
  BY <1>3, <1>6, <1>9
<1> QED
  BY <1>9, <1>10 DEF EntryInv

\* EveryFileReadsBack of one file, given its inode among the ones found.
ReadsAs(t, config, base, o, at, found, node) ==
  /\ Cardinality(found) = 1
  /\ node.nlink = Cardinality({j \in DOMAIN t : t[j].kind \in FileKinds /\ t[j].ino = t[at].ino})
  /\ CASE node.content.kind = "inline" -> node.content.chunks = t[at].chunks
       [] node.content.kind = "shared" -> o.shared[node.content.index] = t[at].chunks
       [] node.content.kind = "drops" ->
            /\ node.content.chunks = t[at].chunks
            /\ \A c \in ToSet(t[at].chunks) : ChunkReads(config, DropsIn(o), o.dicts, base, c)

ReadsBack(t, config, base, o, at) ==
  LET found == {i \in DOMAIN o.inodes : o.inodes[i].num = EntryOf(o, at).num}
  IN ReadsAs(t, config, base, o, at, found, o.inodes[CHOOSE i \in found : TRUE])

FoundBy(inodes, num, found, node) ==
  found = {i \in DOMAIN inodes : inodes[i].num = num} /\ node = inodes[CHOOSE i \in found : TRUE]

\* An inode of the context that is the only one of its number.
LEMMA OneReads ==
  ASSUME NEW c, NEW table, NEW inodes, EncodedFrom(inodes, c, table), NEW num, NEW content, One(c.inodes, num, content),
         NEW found, NEW node, FoundBy(inodes, num, found, node)
  PROVE  /\ Cardinality(found) = 1 /\ node.nlink = LinksOf(c.nlink, num)
         /\ node.content = content \/
              (content.kind = "inline" /\ node.content.kind = "shared"
               /\ table[node.content.index] = content.chunks)
<1>1. PICK i \in 1..Len(c.inodes) : /\ c.inodes[i] = [num |-> num, content |-> content]
                                    /\ \A k \in 1..Len(c.inodes) : c.inodes[k].num = num => k = i
  BY DEF One
<1>2. c.inodes[i].num = num /\ c.inodes[i].content = content
  BY <1>1
<1>3. DOMAIN inodes = 1..Len(c.inodes) /\ \A k \in 1..Len(c.inodes) : inodes[k].num = c.inodes[k].num
  BY DEF EncodedFrom
<1>4. found = {i}
  BY <1>1, <1>2, <1>3 DEF FoundBy
<1>5. Cardinality(found) = 1
  BY <1>4, FS_Singleton
<1>6. node = inodes[i]
  BY <1>4 DEF FoundBy
<1> QED
  BY <1>2, <1>5, <1>6 DEF EncodedFrom

LEMMA FileReads ==
  ASSUME NEW t \in Trees, NEW n, n = Len(t), NEW sent, SentOK(t, n, sent), NEW c, Walked(t, n, sent, Len(sent), c),
         NEW table, NEW config, NEW base, NEW o, EncodedFrom(o.inodes, c, table), o.shared = table,
         \A x \in Ids(c.drops) : ChunkReads(config, DropsIn(o), o.dicts, base, x),
         NEW at \in 1..n, IsFile(t, at)
  PROVE  ReadsBack(t, config, base, o, at)
<1>1. /\ DOMAIN c.links = Inos(t, n) /\ Frames(t, n, c.stack)
      /\ EntryInv(t, n, c) /\ CountInv(t, n, c) /\ SentInv(t, sent, Len(sent), c) /\ InlineInv(t, n, sent, c)
  BY DEF Walked
<1>2. n \in Nat /\ DOMAIN t = 1..n /\ Depth(t, n) = 0
  BY TreeFacts, WriterAssumption
<1>3. PICK num, found, node, x :
        /\ num = c.links[t[at].ino] /\ found = {i \in DOMAIN o.inodes : o.inodes[i].num = num}
        /\ node = o.inodes[CHOOSE i \in found : TRUE] /\ x = t[at].ino
  OBVIOUS
<1>4. EntryOf(o, at).num = num
  <2>1. Len(c.stack) = 0
    BY <1>1, <1>2 DEF Frames
  <2>2. EntriesLead(t, n, c, o)
    BY <1>1, <2>1, EntryReads
  <2> QED
    BY <1>3, <2>2 DEF EntriesLead
<1>5. x \in DOMAIN c.links
  BY <1>1, <1>3 DEF Inos, IsFile
<1>6. LinksOf(c.nlink, num) = Cardinality({j \in DOMAIN t : t[j].kind \in FileKinds /\ t[j].ino = t[at].ino})
  <2>1. LinksOf(c.nlink, num) = Cardinality(NodesOf(t, n, x))
    BY <1>1, <1>3, <1>5 DEF CountInv
  <2>2. NodesOf(t, n, x) = {j \in DOMAIN t : t[j].kind \in FileKinds /\ t[j].ino = t[at].ino}
    BY <1>2, <1>3 DEF NodesOf, IsFile
  <2> QED
    BY <2>1, <2>2
<1>7. ASSUME NEW content, One(c.inodes, num, content)
      PROVE  /\ Cardinality(found) = 1 /\ node.nlink = LinksOf(c.nlink, num)
             /\ node.content = content \/
                  (content.kind = "inline" /\ node.content.kind = "shared"
                   /\ o.shared[node.content.index] = content.chunks)
  <2>1. PICK inodes : inodes = o.inodes
    OBVIOUS
  <2>2. /\ EncodedFrom(inodes, c, table) /\ One(c.inodes, num, content)
        /\ FoundBy(inodes, num, found, node)
    BY <1>3, <1>7, <2>1 DEF FoundBy
  <2>3. /\ Cardinality(found) = 1 /\ node.nlink = LinksOf(c.nlink, num)
        /\ node.content = content \/
             (content.kind = "inline" /\ node.content.kind = "shared"
              /\ table[node.content.index] = content.chunks)
    BY ONLY <2>2, OneReads
  <2> QED
    BY <2>3
<1>8. CASE \E k \in 1..Len(sent) : t[sent[k]].ino = t[at].ino
  <2>1. PICK k \in 1..Len(sent) : t[sent[k]].ino = t[at].ino
    BY <1>8
  <2>2. Len(sent) \in Nat /\ sent[k] \in 1..n /\ t[sent[k]].kind \in FileKinds
    <3>1. sent \in Seq(1..n) /\ t[sent[k]].kind \in Large
      BY DEF SentOK
    <3>2. ASSUME NEW S, sent \in Seq(S) PROVE Len(sent) \in Nat /\ sent[k] \in S
      BY <3>2
    <3> QED
      BY <3>1, <3>2 DEF FileKinds
  <2>3. t[sent[k]].chunks = t[at].chunks
    <3>1. PICK j : j = sent[k]
      OBVIOUS
    <3>2. /\ t \in Trees /\ j \in DOMAIN t /\ at \in DOMAIN t /\ {t[j].kind, t[at].kind} \subseteq FileKinds
          /\ t[j].ino = t[at].ino
      BY <1>2, <2>1, <2>2, <3>1 DEF IsFile
    <3>3. t[j].chunks = t[at].chunks
      BY ONLY <3>2, WriterAssumption
    <3> QED
      BY <3>1, <3>3
  <2>4. k <= Len(sent)
    BY <2>2
  <2>5. One(c.inodes, num, DropsOf(t[sent[k]])) /\ ToSet(t[at].chunks) \subseteq Ids(c.drops)
    BY <1>1, <1>3, <2>1, <2>3, <2>4 DEF SentInv
  <2>6. DropsOf(t[sent[k]]).kind = "drops" /\ DropsOf(t[sent[k]]).chunks = t[at].chunks
    BY <2>3 DEF DropsOf
  <2>7. /\ Cardinality(found) = 1 /\ node.nlink = LinksOf(c.nlink, num)
        /\ node.content.kind = "drops" /\ node.content.chunks = t[at].chunks
    BY <1>7, <2>5, <2>6
  <2>8. \A y \in ToSet(t[at].chunks) : ChunkReads(config, DropsIn(o), o.dicts, base, y)
    BY <2>5
  <2>9. ReadsAs(t, config, base, o, at, found, node)
    BY ONLY <1>6, <2>7, <2>8 DEF ReadsAs
  <2> QED
    BY <1>3, <1>4, <2>9 DEF ReadsBack
<1>9. CASE One(c.inodes, num, InlineOf(t[at]))
  <2>1. InlineOf(t[at]).kind = "inline" /\ InlineOf(t[at]).chunks = t[at].chunks
    BY DEF InlineOf
  <2>2. /\ Cardinality(found) = 1 /\ node.nlink = LinksOf(c.nlink, num)
        /\ \/ node.content.kind = "inline" /\ node.content.chunks = t[at].chunks
           \/ node.content.kind = "shared" /\ o.shared[node.content.index] = t[at].chunks
    BY <1>7, <1>9, <2>1
  <2>3. ReadsAs(t, config, base, o, at, found, node)
    BY ONLY <1>6, <2>2 DEF ReadsAs
  <2> QED
    BY <1>3, <1>4, <2>3 DEF ReadsBack
<1> QED
  BY <1>1, <1>3, <1>8, <1>9 DEF InlineInv

----------------------------------------------------------------------------
(* The inline contents.                                                    *)

\* The inline contents of the context are those of inline files.
InlinesAre ==
  \A i \in 1..Len(ctx.inodes) : ctx.inodes[i].content.kind = "inline" =>
    \E j \in DOMAIN survey : survey[j].kind = "inline" /\ ctx.inodes[i].content.chunks = survey[j].chunks

LEMMA SameInlines ==
  ASSUME InlinesAre, ctx'.inodes = ctx.inodes, survey' = survey
  PROVE  InlinesAre'
BY DEF InlinesAre

\* A step that pushes an inode onto a context with these inodes.
LEMMA PushInlines ==
  ASSUME InlinesAre, survey' = survey, NEW c, IsContext(c), IsSeq(c.inodes), c.inodes = ctx.inodes,
         NEW num, NEW content, ctx'.inodes = Pushed(c, num, content).inodes,
         content.kind = "inline" =>
           \E j \in DOMAIN survey : survey[j].kind = "inline" /\ content.chunks = survey[j].chunks
  PROVE  InlinesAre'
<1>1. PICK p : p = Pushed(c, num, content)
  OBVIOUS
<1>2. /\ Len(p.inodes) = Len(c.inodes) + 1 /\ Len(c.inodes) \in Nat
      /\ \A i \in 1..Len(c.inodes) : p.inodes[i] = c.inodes[i]
      /\ p.inodes[Len(c.inodes) + 1].content = content
  BY <1>1, PushedFacts, SeqFacts
<1>3. ASSUME NEW i \in 1..Len(p.inodes), p.inodes[i].content.kind = "inline"
      PROVE  \E j \in DOMAIN survey : survey[j].kind = "inline" /\ p.inodes[i].content.chunks = survey[j].chunks
  <2>1. i \in 1..Len(c.inodes) \/ i = Len(c.inodes) + 1
    BY <1>2
  <2> QED
    BY <1>2, <1>3, <2>1 DEF InlinesAre
<1>4. ctx'.inodes = p.inodes
  BY <1>1
<1> QED
  BY <1>3, <1>4 DEF InlinesAre

LEMMA FoldInlines == ASSUME WriterInv, InlinesAre, Fold PROVE InlinesAre'
<1>1. WalkInv /\ ContextInv /\ IsContext(ctx) /\ IsSeq(ctx.inodes)
  BY DEF WriterInv, ContextInv
<1>2. CASE FoldDir
  <2>1. PICK st : ctx' = [ctx EXCEPT !.next = @ + 1, !.stack = st] /\ survey' = survey
    BY <1>2 DEF FoldDir, Advance
  <2> QED
    BY <1>1, <2>1, SameInlines DEF IsContext
<1>3. CASE FoldEnd
  <2>1. PICK d, fr : d = Last(ctx.stack) /\ fr = Front(ctx.stack)
    OBVIOUS
  <2>2. PICK c0, content : c0 = [ctx EXCEPT !.stack = fr] /\ content = [kind |-> "directory", entries |-> d.entries]
    OBVIOUS
  <2>3. IsContext(c0) /\ c0.inodes = ctx.inodes /\ content.kind # "inline"
    BY <1>1, <2>2 DEF IsContext
  <2>4. PICK c : c = Entered(c0, d.at, d.num)
    OBVIOUS
  <2>5. IsContext(c) /\ c.inodes = ctx.inodes
    BY <2>3, <2>4, EnteredFacts
  <2>6. ctx' = Pushed(c, d.num, content) /\ survey' = survey
    BY <1>3, <2>1, <2>2, <2>4 DEF FoldEnd, Advance
  <2> QED
    BY <1>1, <2>3, <2>5, <2>6, PushInlines
<1>4. CASE FoldSymlink
  <2>1. PICK c, content : c = Allocated(ctx) /\ content = [kind |-> "symlink"]
    OBVIOUS
  <2>2. IsContext(c) /\ c.inodes = ctx.inodes /\ content.kind # "inline"
    BY <1>1, <2>1, AllocatedFacts
  <2>3. ctx' = Pushed(c, ctx.next, content) /\ survey' = survey
    BY <1>4, <2>1 DEF FoldSymlink, Advance
  <2> QED
    BY <1>1, <2>2, <2>3, PushInlines
<1>5. CASE FoldHardlink
  <2>1. PICK num, nl : ctx' = Entered([ctx EXCEPT !.nlink = nl], pos, num) /\ survey' = survey
    BY <1>5 DEF FoldHardlink, Advance
  <2>2. PICK c : c = [ctx EXCEPT !.nlink = nl]
    OBVIOUS
  <2>3. IsContext(c) /\ c.inodes = ctx.inodes
    BY <1>1, <2>2 DEF IsContext
  <2>4. ctx'.inodes = ctx.inodes
    <3>1. PICK e : e = Entered(c, pos, num) /\ ctx' = e
      BY <2>1, <2>2
    <3>2. e.inodes = c.inodes
      BY <2>3, <3>1, EnteredFacts
    <3> QED
      BY <2>3, <3>1, <3>2
  <2> QED
    BY <2>1, <2>4, SameInlines
<1>6. CASE FoldInline
  <2>1. PICK c, content : c = Linked(ctx) /\ content = [kind |-> "inline", chunks |-> Node.chunks]
    OBVIOUS
  <2>2. Folding /\ NewFile /\ Node.kind = "inline"
        /\ ctx' = Pushed(c, ctx.next, content) /\ survey' = survey
    BY <1>6, <2>1 DEF FoldInline, Advance
  <2>3. IsContext(c) /\ c.inodes = ctx.inodes
    BY <1>1, <2>1, <2>2, LinkedFacts
  <2>4. pos \in DOMAIN survey
    BY <1>1, <2>2, TreeFacts DEF WalkInv, Folding
  <2>5. survey[pos].kind = "inline" /\ content.chunks = survey[pos].chunks
    BY <2>1, <2>2 DEF Node
  <2> QED
    BY <1>1, <2>2, <2>3, <2>4, <2>5, PushInlines
<1>7. CASE FoldLarge
  <2>1. Folding /\ NewFile /\ ctx' = Linked(ctx) /\ survey' = survey
    BY <1>7 DEF FoldLarge, Advance
  <2> QED
    BY <1>1, <2>1, LinkedFacts, SameInlines
<1>8. CASE FoldError \/ FoldDone
  BY <1>8, SameInlines DEF FoldError, FoldDone
<1> QED
  BY <1>2, <1>3, <1>4, <1>5, <1>6, <1>7, <1>8 DEF Fold

LEMMA MergeInlines == ASSUME WriterInv, InlinesAre, NEW r \in results, Merge(r) PROVE InlinesAre'
<1>1. IsContext(ctx) /\ IsSeq(ctx.inodes)
  BY DEF WriterInv, ContextInv
<1>2. PICK content, add : /\ content = [kind |-> "drops", chunks |-> survey[r.file.at].chunks]
                          /\ ctx' = [Pushed(ctx, r.file.num, content) EXCEPT !.drops = @ \o add]
                          /\ survey' = survey
  BY DEF Merge
<1>3. PICK p : p = Pushed(ctx, r.file.num, content)
  OBVIOUS
<1>4. IsContext(p)
  BY <1>1, <1>3, PushedFacts
<1>5. ctx'.inodes = p.inodes /\ content.kind # "inline"
  BY <1>2, <1>3, <1>4 DEF IsContext
<1> QED
  BY <1>1, <1>2, <1>3, <1>5, PushInlines

LEMMA InitInlines == ASSUME Init PROVE InlinesAre
BY DEF Init, EmptyContext, InlinesAre

LEMMA NextInlines == WriterInv /\ InlinesAre /\ [Next]_vars => InlinesAre'
<1> SUFFICES ASSUME WriterInv, InlinesAre, [Next]_vars PROVE InlinesAre'
  OBVIOUS
<1>1. CASE Begin
  BY <1>1 DEF Begin, EmptyContext, InlinesAre
<1>2. CASE Fold
  BY <1>2, FoldInlines
<1>3. CASE Pool
  <2>1. CASE Take
    BY <2>1, SameInlines DEF Take
  <2>2. ASSUME NEW f, NEW ok, Finished(f, ok) PROVE InlinesAre'
    BY <2>2, SameInlines DEF Finished
  <2>3. ASSUME NEW w, NEW f, NEW c, CompressChunk(w, f, c) PROVE InlinesAre'
    <3>1. ctx' = ctx /\ survey' = survey
      BY <2>3 DEF CompressChunk
    <3> QED
      BY <3>1, SameInlines
  <2> QED
    BY <1>3, <2>1, <2>2, <2>3 DEF Pool, ReadFails, FinishFile
<1>4. CASE Join
  BY <1>4, SameInlines DEF Join, Fail
<1>5. ASSUME NEW r \in results, CollectError(r) PROVE InlinesAre'
  BY <1>5, SameInlines DEF CollectError, Fail
<1>6. ASSUME NEW r \in results, MergeFile(r) PROVE InlinesAre'
  <2>1. Merge(r) \/ Fail(r.file.at)
    BY <1>6 DEF MergeFile
  <2>2. CASE Merge(r)
    BY <2>2, MergeInlines
  <2>3. CASE Fail(r.file.at)
    BY <2>3, SameInlines DEF Fail
  <2> QED
    BY <2>1, <2>2, <2>3
<1>7. CASE Assemble
  BY <1>7, SameInlines DEF Assemble
<1>8. CASE UNCHANGED vars
  BY <1>8, SameInlines DEF vars
<1> QED
  BY <1>1, <1>2, <1>3, <1>4, <1>5, <1>6, <1>7, <1>8 DEF Next, Caller

\* The contents of the inline inodes.
InlineContents(inodes) ==
  {inodes[i].content.chunks : i \in {k \in DOMAIN inodes : inodes[k].content.kind = "inline"}}

\* The shared table holds inline contents only.
LEMMA TableHolds ==
  ASSUME NEW inodes, IsSeq(inodes)
  PROVE  SharedInline(inodes) \in Seq(InlineContents(inodes))
<1> DEFINE n == Len(inodes)
           D == DOMAIN inodes
           S == Seq(InlineContents(inodes))
           times(c) == Cardinality({i \in DOMAIN inodes : inodes[i].content.kind = "inline"
                                                          /\ inodes[i].content.chunks = c})
           Op(u, x) == IF /\ x.content.kind = "inline"
                          /\ times(x.content.chunks) > 1
                          /\ x.content.chunks \notin ToSet(u)
                       THEN Append(u, x.content.chunks) ELSE u
           g == [p \in S \X (1..n) |-> Op(p[1], inodes[p[2]])]
           Fix(f) == f = [s \in SUBSET D |-> IF s = {} THEN <<>> ELSE Op(f[s \ {Max(s)}], inodes[Max(s)])]
           it == CHOOSE f : Fix(f)
           nil == <<>>
<1>1. n \in Nat /\ D = 1..n
  BY SeqFacts
<1>2. SharedInline(inodes) = it[D]
  BY DEF SharedInline, FoldLeft, MapThenFoldSet
<1>3. nil \in S /\ \A u \in S, k \in 1..n : Op(u, inodes[k]) \in S
  <2>1. ASSUME NEW k \in 1..n, inodes[k].content.kind = "inline"
        PROVE  inodes[k].content.chunks \in InlineContents(inodes)
    BY <1>1, <2>1 DEF InlineContents
  <2>2. ASSUME NEW C, NEW u \in Seq(C), NEW x \in C PROVE Append(u, x) \in Seq(C)
    OBVIOUS
  <2> QED
    BY <2>1, <2>2
<1> HIDE DEF n, D, S, Op
<1>4. g \in [S \X (1..n) -> S] /\ \A u \in S, k \in 1..n : g[<<u, k>>] = Op(u, inodes[k])
  BY <1>3
<1>5. PICK f \in [SUBSET (1..n) -> S] : Fix(f)
  <2>0. g \in [S \X (1..n) -> S] /\ nil \in S
    BY <1>3, <1>4
  <2> HIDE DEF g, nil
  <2>1. PICK f \in [SUBSET (1..n) -> S] : FoldsTo(f, n, nil, g)
    BY <1>1, <2>0, FoldExists
  <2>2. ASSUME NEW s \in SUBSET (1..n), s # {}
        PROVE  g[<<f[s \ {Max(s)}], Max(s)>>] = Op(f[s \ {Max(s)}], inodes[Max(s)])
    <3>1. Max(s) \in 1..n /\ s \ {Max(s)} \in SUBSET (1..n)
      BY <1>1, <2>2, MaxIndex
    <3>2. f[s \ {Max(s)}] \in S
      BY <2>1, <3>1
    <3> QED
      BY <1>4, <3>1, <3>2
  <2>3. Fix(f)
    <3>1. f = [s \in SUBSET D |-> IF s = {} THEN nil ELSE Op(f[s \ {Max(s)}], inodes[Max(s)])]
      BY <1>1, <2>1, <2>2 DEF FoldsTo
    <3> QED
      BY <3>1 DEF nil
  <2> QED
    BY <2>3
<1>6. Fix(it)
  BY <1>5
<1> HIDE DEF it
<1>7. it[{}] = nil /\ \A s \in SUBSET (1..n) : s # {} => it[s] = Op(it[s \ {Max(s)}], inodes[Max(s)])
  BY <1>1, <1>6
<1> DEFINE G == {s \in SUBSET (1..n) : it[s] \in S}
<1>8. {} \in G
  BY <1>3, <1>7
<1>9. ASSUME NEW s \in SUBSET (1..n), s # {}, s \ {Max(s)} \in G PROVE s \in G
  <2>1. Max(s) \in 1..n
    BY <1>1, <1>9, MaxIndex
  <2> QED
    BY <1>3, <1>7, <1>9, <2>1
<1>10. \A s \in SUBSET (1..n) : s \in G
  <2> HIDE DEF G
  <2> QED
    BY <1>1, <1>8, <1>9, IndexSetInduction
<1>11. it[D] \in S
  BY <1>1, <1>10
<1> QED
  BY <1>2, <1>11 DEF S

\* The image is refused exactly for an inline file over the ceiling.
LEMMA InlinesFit ==
  ASSUME NEW t \in Trees, NEW n, n = Len(t), NEW sent, SentOK(t, n, sent), NEW c, Walked(t, n, sent, Len(sent), c),
         NEW table, table = <<>> \/ table = SharedInline(c.inodes), IsSeq(c.inodes),
         NEW o, EncodedFrom(o.inodes, c, table), o.shared = table,
         \A i \in 1..Len(c.inodes) : c.inodes[i].content.kind = "inline" =>
           \E j \in DOMAIN t : t[j].kind = "inline" /\ c.inodes[i].content.chunks = t[j].chunks
  PROVE  ParsesInlines(o) <=> \A i \in DOMAIN t : t[i].kind = "inline" => Length(t[i].chunks) <= InlineMax
<1>1. n \in Nat /\ DOMAIN t = 1..n /\ Len(c.inodes) \in Nat /\ DOMAIN c.inodes = 1..Len(c.inodes)
  BY TreeFacts, SeqFacts
<1>2. PICK inodes, K : inodes = o.inodes /\ K = Len(c.inodes)
  OBVIOUS
<1>3. DOMAIN inodes = 1..K /\ ToSet(inodes) = {inodes[i] : i \in 1..K}
  BY <1>2 DEF EncodedFrom, ToSet
<1>4. \A x \in ToSet(table) : \E i \in 1..K : c.inodes[i].content.kind = "inline" /\ x = c.inodes[i].content.chunks
  <2>1. table \in Seq(InlineContents(c.inodes))
    <3>1. CASE table = <<>>
      BY <3>1
    <3>2. CASE table = SharedInline(c.inodes)
      BY <3>2, TableHolds
    <3> QED
      BY <3>1, <3>2
  <2>2. ASSUME NEW S, table \in Seq(S) PROVE ToSet(table) \subseteq S
    BY <2>2 DEF ToSet
  <2>3. ToSet(table) \subseteq InlineContents(c.inodes)
    BY <2>1, <2>2
  <2> QED
    BY <1>1, <1>2, <2>3 DEF InlineContents
<1>5. ASSUME \A i \in DOMAIN t : t[i].kind = "inline" => Length(t[i].chunks) <= InlineMax
      PROVE  ParsesInlines(o)
  <2>1. \A i \in 1..K : c.inodes[i].content.kind = "inline" => Length(c.inodes[i].content.chunks) <= InlineMax
    BY <1>2, <1>5
  <2>2. \A x \in ToSet(table) : Length(x) <= InlineMax
    BY <1>4, <2>1
  <2>3. ASSUME NEW i \in 1..K, inodes[i].content.kind = "inline" PROVE Length(inodes[i].content.chunks) <= InlineMax
    <3>1. inodes[i].content = c.inodes[i].content
      BY <1>2, <2>3 DEF EncodedFrom
    <3> QED
      BY <2>1, <2>3, <3>1
  <2> QED
    BY <1>2, <1>3, <2>2, <2>3 DEF ParsesInlines
<1>6. ASSUME ParsesInlines(o), NEW j \in DOMAIN t, t[j].kind = "inline" PROVE Length(t[j].chunks) <= InlineMax
  <2>1. InlineInv(t, n, sent, c) /\ j \in 1..n /\ IsFile(t, j)
    BY <1>1, <1>6 DEF Walked, IsFile, FileKinds
  <2>2. ~ \E k \in 1..Len(sent) : t[sent[k]].ino = t[j].ino
    <3> SUFFICES ASSUME NEW k \in 1..Len(sent), t[sent[k]].ino = t[j].ino PROVE FALSE
      OBVIOUS
    <3>1. sent \in Seq(1..n) /\ t[sent[k]].kind \in Large
      BY DEF SentOK
    <3>2. ASSUME NEW S, sent \in Seq(S) PROVE sent[k] \in S
      BY <3>2
    <3>3. PICK i \in DOMAIN t : i = sent[k]
      BY <1>1, <3>1, <3>2
    <3>4. t[i].kind \in FileKinds /\ t[i].kind # "inline" /\ t[j].kind \in FileKinds /\ t[i].ino = t[j].ino
      BY <1>6, <3>1, <3>3 DEF FileKinds, Large
    <3>5. t[i].chunks = t[j].chunks
      <4>1. t \in Trees /\ i \in DOMAIN t /\ j \in DOMAIN t /\ {t[i].kind, t[j].kind} \subseteq FileKinds
            /\ t[i].ino = t[j].ino
        BY <3>4
      <4> QED
        BY ONLY <4>1, WriterAssumption
    <3>6. /\ t[i].kind = "inline" <=> Length(t[i].chunks) <= InlineThreshold
          /\ t[j].kind = "inline" <=> Length(t[j].chunks) <= InlineThreshold
      BY <3>4, WriterAssumption
    <3> QED
      BY <1>6, <3>4, <3>5, <3>6
  <2>3. One(c.inodes, c.links[t[j].ino], InlineOf(t[j]))
    BY <2>1, <2>2 DEF InlineInv
  <2>4. PICK i \in 1..K : c.inodes[i].content = InlineOf(t[j])
    <3>1. PICK i \in 1..K : c.inodes[i] = [num |-> c.links[t[j].ino], content |-> InlineOf(t[j])]
      BY <1>2, <2>3 DEF One
    <3> QED
      BY <3>1
  <2>5. c.inodes[i].content.kind = "inline" /\ c.inodes[i].content.chunks = t[j].chunks
    BY <2>4 DEF InlineOf
  <2>6. CASE inodes[i].content = c.inodes[i].content
    BY <1>2, <1>3, <1>6, <2>5, <2>6 DEF ParsesInlines
  <2>7. CASE inodes[i].content.kind = "shared" /\ table[inodes[i].content.index] = c.inodes[i].content.chunks
            /\ inodes[i].content.index \in DOMAIN table
    <3>1. t[j].chunks \in ToSet(table)
      BY <2>5, <2>7 DEF ToSet
    <3> QED
      BY <1>6, <3>1 DEF ParsesInlines
  <2> QED
    BY <1>2, <2>6, <2>7 DEF EncodedFrom
<1> QED
  BY <1>5, <1>6

----------------------------------------------------------------------------
(* The theorem.                                                            *)

LEMMA AssembleReads == ASSUME WriterInv, ReadInv, InlinesAre, Assemble PROVE ReadInv'
<1>1. phase = "merge" /\ results = {} /\ phase' = "done" /\ UNCHANGED <<job, cfg, survey, ctx, cache>>
  BY DEF Assemble
<1>2. PoolInv /\ WalkInv /\ ContextInv /\ CleanCaches /\ MergedHere
  BY <1>1 DEF ReadInv, WriterInv
<1>3. walk = "ok" /\ chan = <<>> /\ arrived \in Nat /\ \E m \in 0..arrived : Merged(m)
  BY <1>1, <1>2 DEF WriterInv, PhaseInv, PoolInv
<1>4. PICK m \in 0..arrived : Merged(m)
  BY <1>3
<1>5. m = arrived
  <2>1. m < arrived => m \in m..(arrived - 1)
    BY <1>3
  <2>2. ~(m < arrived)
    BY <1>1, <1>4, <2>1 DEF Merged
  <2> QED
    BY <1>3, <2>2
<1>6. survey \in Trees /\ Len(survey) \in Nat /\ Sent = PendingFiles /\ pos - 1 = Len(survey) /\ cfg \in Configs
  BY <1>2, <1>3, PendingFilesFacts, TreeFacts DEF WalkInv
<1>7. Len(PendingFiles) = arrived
  <2>1. arrived + Len(chan) = Len(PendingFiles) /\ Len(chan) = 0
    BY <1>2, <1>3, <1>6 DEF PoolInv
  <2> QED
    BY <1>3, <2>1
<1>8. SentOK(survey, Len(survey), PendingFiles)
  BY <1>6, SentIsOK DEF PendingFiles
<1>9. PICK t, n, sent, c, base, o, config :
        /\ t = survey /\ n = Len(survey) /\ sent = PendingFiles /\ c = ctx /\ base = Base /\ o = out' /\ config = cfg
  OBVIOUS
<1>10. t \in Trees /\ n = Len(t) /\ SentOK(t, n, sent) /\ Walked(t, n, sent, Len(sent), c)
       /\ DropsInv(config, base, c.drops) /\ IsSeq(c.inodes) /\ config \in Configs
  BY <1>2, <1>4, <1>5, <1>6, <1>7, <1>8, <1>9 DEF MergedHere, ContextInv
<1>11. PICK drops, adopted, a, slabs, dicts, table, inodes :
         /\ drops = c.drops /\ adopted = Adopted
         /\ a = ApplyDictionaries(config, adopted, drops) /\ slabs = PackSlabs(a)
         /\ dicts = EmittedDictionaries(config, adopted, drops)
         /\ table = IF config.shared THEN SharedInline(c.inodes) ELSE <<>>
         /\ inodes = [i \in DOMAIN c.inodes |-> EncodeInode(c.inodes[i], table, c.nlink)]
  OBVIOUS
<1>12. o = [kind |-> "image", inodes |-> inodes, shared |-> table, slabs |-> slabs, dicts |-> dicts]
  BY <1>9, <1>11 DEF Assemble
<1>13. o.inodes = inodes /\ o.shared = table /\ o.slabs = slabs /\ o.dicts = dicts
  BY <1>12
<1>14. EncodedFrom(o.inodes, c, table)
  BY <1>10, <1>11, <1>13, EncodedAll
<1>15. \A x \in Ids(c.drops) : ChunkReads(config, DropsIn(o), o.dicts, base, x)
  <2>0. adopted \subseteq {"text", "binary"}
    BY <1>11, WriterAssumption DEF Adopted
  <2>1. /\ DropsInv(config, base, drops) /\ config \in Configs
        /\ a = ApplyDictionaries(config, adopted, drops)
        /\ dicts = EmittedDictionaries(config, adopted, drops) /\ o.slabs = PackSlabs(a)
    BY <1>10, <1>11, <1>13
  <2>2. \A x \in Ids(drops) : ChunkReads(config, DropsIn(o), dicts, base, x)
    BY ONLY <2>0, <2>1, ChunksRead
  <2> QED
    BY <1>11, <1>13, <2>2
<1>16. \A at \in 1..n : IsFile(t, at) => ReadsBack(t, config, base, o, at)
  BY ONLY <1>10, <1>13, <1>14, <1>15, FileReads
<1>17. EveryFileReadsBack'
  <2>1. survey' = t /\ cfg' = config /\ Base' = base /\ out' = o /\ DOMAIN t = 1..n
    BY <1>1, <1>9, <1>10, TreeFacts DEF Base
  <2>2. \A at \in {i \in DOMAIN survey' : survey'[i].kind \in FileKinds} :
          ReadsBack(survey', cfg', Base', out', at)
    BY <1>16, <2>1 DEF IsFile
  <2>3. \A i \in 1..Len(c.inodes) : c.inodes[i].content.kind = "inline" =>
          \E j \in DOMAIN t : t[j].kind = "inline" /\ c.inodes[i].content.chunks = t[j].chunks
    BY <1>9 DEF InlinesAre
  <2>4. table = <<>> \/ table = SharedInline(c.inodes)
    BY <1>11
  <2>5. ParsesInlines(o) <=> \A i \in DOMAIN t : t[i].kind = "inline" => Length(t[i].chunks) <= InlineMax
    BY ONLY <1>10, <1>13, <1>14, <2>3, <2>4, InlinesFit
  <2> QED
    BY <2>1, <2>2, <2>5 DEF EveryFileReadsBack, ReadsBack, ReadsAs, ChunkReads
<1>18. CleanCaches'
  BY <1>1, <1>2 DEF CleanCaches
<1> QED
  BY <1>1, <1>17, <1>18 DEF ReadInv

\* A walk that has not begun.
LEMMA NothingWalked ==
  ASSUME NEW t, NEW c, c = EmptyContext
  PROVE  Walked(t, 0, <<>>, 0, c)
<1>1. /\ c.next = 1 /\ c.stack = <<>> /\ c.links = <<>> /\ c.nlink = <<>> /\ c.inodes = <<>> /\ c.drops = <<>>
      /\ IsContext(c)
  BY DEF EmptyContext, IsContext
<1>2. IsSeq(<<>>) /\ Len(<<>>) = 0 /\ DOMAIN <<>> = {}
  BY DEF IsSeq
<1>3. Inos(t, 0) = {}
  BY DEF Inos
<1>4. NumInv(c)
  BY <1>1, <1>2 DEF NumInv
<1>5. Frames(t, 0, c.stack)
  BY <1>1, <1>2, DepthStep DEF Frames
<1>6. EntryInv(t, 0, c)
  BY <1>1, <1>2 DEF EntryInv, HasEntry, InStack, InDirs
<1>7. CountInv(t, 0, c) /\ SentInv(t, <<>>, 0, c) /\ InlineInv(t, 0, <<>>, c)
  BY <1>1, <1>2 DEF CountInv, SentInv, InlineInv
<1> QED
  BY <1>1, <1>2, <1>3, <1>4, <1>5, <1>6, <1>7 DEF Walked

LEMMA BeginReads == ASSUME WriterInv, ReadInv, Begin PROVE ReadInv'
<1>1. /\ phase' = "pipeline" /\ survey' \in Trees /\ pos' = 1 /\ ctx' = EmptyContext /\ chan' = <<>>
      /\ inflight' = {} /\ results' = {} /\ UNCHANGED cache
  BY DEF Begin
<1>2. CleanCaches'
  BY <1>1 DEF ReadInv, CleanCaches
<1>3. PoolRead'
  BY <1>1 DEF PoolRead
<1>4. WalkedHere'
  <2>1. PICK t, c : t = survey' /\ c = ctx'
    OBVIOUS
  <2>2. Sent' = PendingUpTo(survey')[pos' - 1] /\ pos' - 1 = 0
    BY <1>1 DEF Sent
  <2>3. Sent' = <<>>
    BY <1>1, <2>2, PendingFacts
  <2>4. Walked(t, 0, <<>>, 0, c)
    BY <1>1, <2>1, NothingWalked
  <2> QED
    BY <2>1, <2>2, <2>3, <2>4 DEF WalkedHere
<1> QED
  BY <1>1, <1>2, <1>3, <1>4, PipelineOK

LEMMA InitReads == ASSUME Init PROVE ReadInv
BY DEF Init, ReadInv, CleanCaches, EveryFileReadsBack

LEMMA StutterReads == ASSUME ReadInv, UNCHANGED vars PROVE ReadInv'
<1>1. UNCHANGED <<phase, job, cfg, survey, broken, pos, ctx, chan, arrived, inflight, results, cache, out>>
  BY DEF vars, pipeVars
<1>2. CleanCaches' = CleanCaches
  BY <1>1 DEF CleanCaches
<1>3. PoolRead' = PoolRead
  BY <1>1 DEF PoolRead, Numbered, Referenced, Base
<1>4. WalkedHere' = WalkedHere
  BY <1>1 DEF WalkedHere, Sent
<1>5. MergedHere' = MergedHere
  BY <1>1 DEF MergedHere, Merged, Base, PendingFiles
<1>6. EveryFileReadsBack' = EveryFileReadsBack
  BY <1>1 DEF EveryFileReadsBack, Base
<1> QED
  BY <1>1, <1>2, <1>3, <1>4, <1>5, <1>6 DEF ReadInv

LEMMA NextReads == WriterInv /\ ReadInv /\ InlinesAre /\ [Next]_vars => ReadInv'
<1> SUFFICES ASSUME WriterInv, ReadInv, InlinesAre, [Next]_vars PROVE ReadInv'
  OBVIOUS
<1>1. CASE Begin
  BY <1>1, BeginReads
<1>2. CASE Fold
  BY <1>2, FoldReads
<1>3. CASE Pool
  BY <1>3, PoolReads
<1>4. CASE Join
  BY <1>4, JoinReads
<1>5. ASSUME NEW r \in results, CollectError(r) PROVE ReadInv'
  <2>1. Fail(r.file.at)
    BY <1>5 DEF CollectError
  <2> QED
    BY <2>1, FailReads
<1>6. ASSUME NEW r \in results, MergeFile(r) PROVE ReadInv'
  BY <1>6, MergeFileReads
<1>7. CASE Assemble
  BY <1>7, AssembleReads
<1>8. CASE UNCHANGED vars
  BY <1>8, StutterReads
<1> QED
  BY <1>1, <1>2, <1>3, <1>4, <1>5, <1>6, <1>7, <1>8 DEF Next, Caller

\* The image a write ends with reads back, whatever the pool's threads did
\* and whatever the caches held before: it is refused exactly when an inline
\* file is over the reader's ceiling, and the entry of every file leads to one
\* inode, with as many links as it has entries, whose content decodes to the
\* file's, but for the chunks in containers that the dictionary pass swapped.
THEOREM FilesReadBack == Spec => []EveryFileReadsBack
<1>1. Init => ReadInv /\ InlinesAre
  BY InitReads, InitInlines
<1>2. WriterInv /\ ReadInv /\ InlinesAre /\ [Next]_vars => ReadInv' /\ InlinesAre'
  BY NextReads, NextInlines
<1>3. ReadInv => EveryFileReadsBack
  BY DEF ReadInv
<1>4. Spec => []WriterInv
  BY WriterInvHolds
<1> QED
  BY <1>1, <1>2, <1>3, <1>4, PTL DEF Spec
============================================================================
