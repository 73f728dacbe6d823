-------------------------- MODULE LifecycleProofs --------------------------
(***************************************************************************)
(* Theorems about Lifecycle, for every set of images, processes, source     *)
(* trees and profiles, every slab capacity and every number of commands,    *)
(* however they interleave, die half way and however drops rot at rest.     *)
(*                                                                          *)
(* The invariant follows a file from the command that plans to write it to  *)
(* the directory: what a name promises (a slab's and a sidecar's name       *)
(* follow from the contents, a manifest's slabs were compressed against the *)
(* dictionaries it lists) holds of every file still to be written, and of   *)
(* every file on disk that is not torn. For the trees to read back, KeepInv *)
(* adds that a manifest comes before the files it needs, that those are on  *)
(* disk or still to be written, and that it refers to nothing but the drops *)
(* of its own slabs and of the base it was built on.                        *)
(***************************************************************************)
EXTENDS Lifecycle, SumLemmas

TreeOK(tree) ==
  /\ tree = [p \in DOMAIN tree |-> tree[p]] /\ DOMAIN tree \subseteq ToSet(NameOrder)
  /\ \A p \in DOMAIN tree : IsSequence(tree[p]) /\ Error \notin ToSet(tree[p])

BlobOK(blob) ==
  /\ DOMAIN blob \subseteq ToSet(NameOrder)
  /\ \A p \in DOMAIN blob :
    /\ blob[p][1] \in {"Inline", "SliceMap"}
    /\ IsSequence(blob[p][2]) /\ Error \notin ToSet(blob[p][2])

SlabOK(slab, dict) ==
  /\ slab = [ordinal |-> slab.ordinal, records |-> slab.records]
  /\ Error \notin DOMAIN slab.records
  /\ \A d \in DOMAIN slab.records : slab.records[d] = Record(dict)

ManifestOK(m) ==
  /\ m = [meta |-> m.meta, ext |-> m.ext, slabs |-> m.slabs,
          dicts |-> m.dicts, base |-> m.base, history |-> m.history]
  /\ BlobOK(m.meta)
  /\ IsSequence(m.slabs)
  /\ \A k \in DOMAIN m.slabs : m.slabs[k] = SlabName(m.slabs[k][2])
  /\ \E dict : /\ m.dicts \in {None, dict}
               /\ \A k \in DOMAIN m.slabs : SlabOK(m.slabs[k][2], dict)

\* A manifest that was not cut lists the dictionaries its slabs were written with.
Uncut(m) == \A k \in DOMAIN m.slabs : SlabOK(m.slabs[k][2], m.dicts)

\* What the name of a file says of its contents.
EntryOK(name, x) ==
  /\ name[1] = "image" => ManifestOK(x)
  /\ name[1] = "meta" => x = name[2] /\ BlobOK(x)
  /\ name[1] = "slab" => /\ x = [ordinal |-> x.ordinal, records |-> x.records]
                          /\ Error \notin DOMAIN x.records

\* The same of a slab that has not rotted.
Pristine(name, x) == name[1] = "slab" => x = name[2]

\* A signature that is to be written is of the root of the metadata it records.
SigningOK(name, x) == name[1] = "sig" /\ x # None => x[2] = x[1][2].meta

PlanOK(files) ==
  /\ IsSequence(files)
  /\ \A k \in DOMAIN files :
       /\ EntryOK(files[k][1], files[k][2]) /\ Pristine(files[k][1], files[k][2])
       /\ SigningOK(files[k][1], files[k][2])

\* A plan that signs nothing.
FilesOK(files) ==
  PlanOK(files) /\ \A k \in DOMAIN files : files[k][1][1] # "sig"

DiskInv ==
  \A f \in DOMAIN disk :
    disk[f] # Torn =>
      disk[f] = Whole(disk[f][2]) /\ EntryOK(f, disk[f][2]) /\ (rot = 0 => Pristine(f, disk[f][2]))

ProcInv ==
  \A p \in Procs :
    /\ proc[p] = [image |-> proc[p].image, todo |-> proc[p].todo,
                  promise |-> proc[p].promise]
    /\ PlanOK(proc[p].todo)
    /\ proc[p].todo # <<>> => proc[p].image \in Images

SignInv ==
  \A i \in Images :
    Readable(limsig_path(i)) =>
      signed[i] = <<"tree", Bytes(limsig_path(i))[2].meta>>

LifecycleInv ==
  /\ DiskInv /\ ProcInv /\ SignInv
  /\ DOMAIN proc = Procs /\ DOMAIN signed = Images /\ rot \in Nat

\* The drops of slabs by their names, and the files a manifest needs besides itself.
Stored(slabs) == UNION {DOMAIN slabs[k][2].records : k \in DOMAIN slabs}

Needs(m) ==
  {m.slabs[k] : k \in DOMAIN m.slabs} \cup (IF m.ext THEN {SidecarName(m.meta)} ELSE {})

\* Manifest m keeps a promise: it is whole, and has the metadata of the tree, and what that
\* refers to is in its slabs or in those of the base it was built on.
Keeps(promise, m) ==
  Uncut(m) /\ (promise.known =>
    /\ TreeOK(promise.tree) /\ m.meta = Metadata(promise.tree)
    /\ promise.base # None => promise.base \in Images
    /\ Referenced(m.meta) \subseteq
         Stored(m.slabs) \cup (IF promise.base = None THEN {} ELSE Stored(promise.root[2].slabs)))

\* The manifest comes before the files it needs, the signature last.
PlanKeeps(files, i, promise) ==
  \A k \in DOMAIN files :
    /\ files[k][1][1] = "sig" => k = Len(files)
    /\ files[k][1][1] = "image" =>
         /\ files[k][1] = ImageFileOf(i) /\ Keeps(promise, files[k][2])
         /\ \A name \in Needs(files[k][2]) : \E j \in DOMAIN files : j > k /\ files[j][1] = name

Pending(name) ==
  \E p \in Procs : \E k \in DOMAIN proc[p].todo : proc[p].todo[k][1] = name

\* Every image in the directory will have what it needs, and keeps its promise.
KeepInv ==
  /\ \A f \in DOMAIN disk : disk[f] # Torn
  /\ \A i \in DOMAIN want : Exists(ImageFileOf(i)) /\ Keeps(want[i], Manifest(i))
  /\ \A f \in DOMAIN disk : f[1] = "image" =>
       Uncut(disk[f][2]) /\ \A name \in Needs(disk[f][2]) : Exists(name) \/ Pending(name)
  /\ \A p \in Procs : PlanKeeps(proc[p].todo, proc[p].image, proc[p].promise)

\* While no command was cut short and no drop has rotted.
FaultlessInv ==
  LifecycleInv /\ stops \in Nat /\ (stops = 0 /\ rot = 0 => KeepInv)

----------------------------------------------------------------------------
(* Sequences of files.                                                     *)

LEMMA SequenceIn ==
  ASSUME NEW s, IsSequence(s), NEW S, ToSet(s) \subseteq S
  PROVE  s \in Seq(S)
<1>1. s \in Seq(ToSet(s)) /\ Len(s) \in Nat /\ DOMAIN s = 1..Len(s)
  BY DEF IsSequence
<1>2. \A k \in DOMAIN s : s[k] \in S
  BY DEF ToSet
<1>3. s \in [1..Len(s) -> S]
  BY <1>1, <1>2
<1> QED
  BY <1>1, <1>3

LEMMA SequenceOf ==
  ASSUME NEW S, NEW s \in Seq(S)
  PROVE  IsSequence(s) /\ ToSet(s) \subseteq S
<1>1. Len(s) \in Nat /\ DOMAIN s = 1..Len(s) /\ \A k \in 1..Len(s) : s[k] \in S
  OBVIOUS
<1>2. s \in [1..Len(s) -> ToSet(s)]
  BY <1>1 DEF ToSet
<1>3. s \in Seq(ToSet(s))
  BY <1>1, <1>2
<1> QED
  BY <1>1, <1>3 DEF IsSequence, ToSet

LEMMA TabulatedSequence ==
  ASSUME NEW n \in Int, NEW s, DOMAIN s = 1..n, s = [k \in 1..n |-> s[k]]
  PROVE  IsSequence(s)
<1>1. CASE n \in Nat
  <2>1. s \in [1..n -> ToSet(s)]
    BY DEF ToSet
  <2> QED
    BY <1>1, <2>1 DEF IsSequence
<1>2. CASE n \notin Nat
  <2>1. 1..n = 1..0
    BY <1>2
  <2>2. s \in [1..0 -> ToSet(s)]
    BY <2>1 DEF ToSet
  <2> QED
    BY <2>2 DEF IsSequence
<1> QED
  BY <1>1, <1>2

\* Every element of u is one of s or of t.
FromBoth(u, s, t) ==
  \A k \in DOMAIN u : \/ \E j \in DOMAIN s : u[k] = s[j]
                      \/ \E j \in DOMAIN t : u[k] = t[j]

LEMMA ConcatSequences ==
  ASSUME NEW s, IsSequence(s), NEW t, IsSequence(t)
  PROVE  IsSequence(s \o t) /\ FromBoth(s \o t, s, t)
<1> DEFINE S == ToSet(s) \cup ToSet(t)
<1>1. s \in Seq(S) /\ t \in Seq(S)
  BY SequenceIn
<1> HIDE DEF S
<1>2. s \o t \in Seq(S)
  BY <1>1
<1>3. ASSUME NEW k \in DOMAIN (s \o t)
      PROVE  \/ \E j \in DOMAIN s : (s \o t)[k] = s[j]
             \/ \E j \in DOMAIN t : (s \o t)[k] = t[j]
  <2>1. /\ k \in 1..(Len(s) + Len(t)) /\ Len(s) \in Nat /\ Len(t) \in Nat
        /\ DOMAIN s = 1..Len(s) /\ DOMAIN t = 1..Len(t)
    BY <1>1
  <2>2. CASE k <= Len(s)
    BY <1>1, <2>1, <2>2
  <2>3. CASE k > Len(s)
    <3>1. k - Len(s) \in 1..Len(t) /\ (s \o t)[k] = t[k - Len(s)]
      BY <1>1, <2>1, <2>3
    <3> QED
      BY <2>1, <3>1
  <2> QED
    BY <2>1, <2>2, <2>3
<1>4. IsSequence(s \o t)
  BY <1>2, SequenceOf
<1> QED
  BY <1>3, <1>4 DEF FromBoth

LEMMA ConcatPlans ==
  ASSUME NEW s, PlanOK(s), NEW t, PlanOK(t)
  PROVE  PlanOK(s \o t)
<1>1. IsSequence(s) /\ IsSequence(t)
  BY DEF PlanOK
<1>2. IsSequence(s \o t) /\ FromBoth(s \o t, s, t)
  BY <1>1, ConcatSequences
<1>3. ASSUME NEW u, IsSequence(u), FromBoth(u, s, t) PROVE PlanOK(u)
  BY <1>3 DEF PlanOK, FromBoth
<1> QED
  BY <1>2, <1>3

LEMMA ConcatFiles ==
  ASSUME NEW s, FilesOK(s), NEW t, FilesOK(t)
  PROVE  FilesOK(s \o t)
<1>1. PlanOK(s) /\ PlanOK(t)
  BY DEF FilesOK
<1>2. IsSequence(s) /\ IsSequence(t)
  BY <1>1 DEF PlanOK
<1>3. PlanOK(s \o t)
  BY <1>1, ConcatPlans
<1>4. IsSequence(s \o t) /\ FromBoth(s \o t, s, t)
  BY <1>2, ConcatSequences
<1>5. ASSUME NEW u, PlanOK(u), FromBoth(u, s, t) PROVE FilesOK(u)
  BY <1>5 DEF FilesOK, FromBoth
<1> QED
  BY <1>3, <1>4, <1>5

LEMMA OneFile ==
  ASSUME NEW name, NEW x, EntryOK(name, x), Pristine(name, x), SigningOK(name, x)
  PROVE  /\ PlanOK(<<<<name, x>>>>)
         /\ name[1] # "sig" => FilesOK(<<<<name, x>>>>)
<1>1. <<<<name, x>>>> \in Seq({<<name, x>>})
  OBVIOUS
<1>2. IsSequence(<<<<name, x>>>>)
  BY <1>1, SequenceOf
<1> QED
  BY <1>2 DEF FilesOK, PlanOK

LEMMA NoFile == FilesOK(<<>>) /\ PlanOK(<<>>)
<1>1. IsSequence(<<>>)
  BY DEF IsSequence
<1> QED
  BY <1>1 DEF FilesOK, PlanOK

LEMMA RestOfPlan ==
  ASSUME NEW s, PlanOK(s), s # <<>>
  PROVE  /\ PlanOK(Tail(s))
         /\ EntryOK(Head(s)[1], Head(s)[2]) /\ Pristine(Head(s)[1], Head(s)[2])
         /\ SigningOK(Head(s)[1], Head(s)[2])
<1> DEFINE S == ToSet(s)
<1>1. s \in Seq(S)
  BY DEF PlanOK, IsSequence
<1> HIDE DEF S
<1>2. 1 \in DOMAIN s /\ Head(s) = s[1]
  BY <1>1
<1>3. /\ Tail(s) \in Seq(S)
      /\ \A k \in DOMAIN Tail(s) : k + 1 \in DOMAIN s /\ Tail(s)[k] = s[k + 1]
  BY <1>1
<1>4. IsSequence(Tail(s))
  BY <1>3, SequenceOf
<1> QED
  BY <1>2, <1>3, <1>4 DEF PlanOK

----------------------------------------------------------------------------
(* The drops of a tree.                                                    *)

LEMMA AppendedSet ==
  ASSUME NEW S, NEW s \in Seq(S), NEW d \in S
  PROVE  Append(s, d) \in Seq(S) /\ ToSet(Append(s, d)) = ToSet(s) \cup {d}
<1>1. /\ Append(s, d) \in Seq(S) /\ Len(s) \in Nat /\ DOMAIN s = 1..Len(s)
      /\ DOMAIN Append(s, d) = 1..(Len(s) + 1) /\ Append(s, d)[Len(s) + 1] = d
      /\ \A k \in 1..Len(s) : Append(s, d)[k] = s[k]
  OBVIOUS
<1> DEFINE a == Append(s, d)
<1>2. ASSUME NEW x \in ToSet(a) PROVE x \in ToSet(s) \cup {d}
  <2>1. PICK k \in 1..(Len(s) + 1) : x = a[k]
    BY <1>1 DEF ToSet
  <2>2. k \in 1..Len(s) \/ k = Len(s) + 1
    BY <1>1
  <2> QED
    BY <1>1, <2>1, <2>2 DEF ToSet
<1>3. ASSUME NEW x \in ToSet(s) \cup {d} PROVE x \in ToSet(a)
  <2>1. CASE x = d
    BY <1>1, <2>1 DEF ToSet
  <2>2. CASE x \in ToSet(s)
    <3>1. PICK k \in 1..Len(s) : x = s[k]
      BY <1>1, <2>2 DEF ToSet
    <3>2. k \in 1..(Len(s) + 1)
      BY <1>1
    <3> QED
      BY <1>1, <3>1, <3>2 DEF ToSet
  <2> QED
    BY <2>1, <2>2
<1> QED
  BY <1>1, <1>2, <1>3

\* The drops met before stay, and every chunk the base lacks is among them.
LEMMA NewDropsFacts ==
  ASSUME NEW U, NEW chunks \in Seq(U), NEW met \in Seq(U), NEW has
  PROVE  /\ NewDrops(chunks, met, has) \in Seq(U)
         /\ ToSet(met) \subseteq ToSet(NewDrops(chunks, met, has))
         /\ ToSet(chunks) \subseteq has \cup ToSet(NewDrops(chunks, met, has))
<1> DEFINE D == DOMAIN chunks
           n == Len(chunks)
           Add(ds, d) == IF d \in has \/ d \in ToSet(ds) THEN ds ELSE Append(ds, d)
           Fix(f) == f = [s \in SUBSET D |->
                            IF s = {} THEN met ELSE Add(f[s \ {Max(s)}], chunks[Max(s)])]
           g == [x \in Seq(U) \X (1..n) |-> Add(x[1], chunks[x[2]])]
           it == CHOOSE f : Fix(f)
<1>1. n \in Nat /\ D = 1..n /\ \A k \in 1..n : chunks[k] \in U
  OBVIOUS
<1>2. ASSUME NEW ds \in Seq(U), NEW k \in 1..n
      PROVE  /\ Add(ds, chunks[k]) \in Seq(U)
             /\ ToSet(ds) \subseteq ToSet(Add(ds, chunks[k]))
             /\ chunks[k] \in has \cup ToSet(Add(ds, chunks[k]))
  BY <1>1, AppendedSet
<1>3. \E f : Fix(f)
  <2>1. g \in [Seq(U) \X (1..n) -> Seq(U)]
    BY <1>2
  <2>2. PICK f \in [SUBSET (1..n) -> Seq(U)] : FoldsTo(f, n, met, g)
    <3> DEFINE S == Seq(U)
    <3>1. met \in S /\ g \in [S \X (1..n) -> S]
      BY <2>1
    <3> HIDE DEF g, n, S
    <3>2. \E f \in [SUBSET (1..n) -> S] : FoldsTo(f, n, met, g)
      BY <1>1, <3>1, FoldExists
    <3> QED
      BY <3>2 DEF S
  <2>3. ASSUME NEW s \in SUBSET (1..n), s # {}
        PROVE  g[<<f[s \ {Max(s)}], Max(s)>>] = Add(f[s \ {Max(s)}], chunks[Max(s)])
    <3>1. Max(s) \in 1..n /\ s \ {Max(s)} \in SUBSET (1..n)
      BY <1>1, <2>3, MaxIndex
    <3>2. f[s \ {Max(s)}] \in Seq(U)
      BY <2>2, <3>1
    <3> HIDE DEF Add
    <3> QED
      BY <3>1, <3>2
  <2> HIDE DEF g, Add, n
  <2>4. Fix(f)
    BY <1>1, <2>2, <2>3 DEF FoldsTo
  <2> QED
    BY <2>4
<1>4. Fix(it)
  BY <1>3
<1>5. NewDrops(chunks, met, has) = it[D]
  BY DEF NewDrops, FoldLeft, MapThenFoldSet
<1> HIDE DEF it, Add, n
<1> DEFINE G == {s \in SUBSET (1..n) :
                   /\ it[s] \in Seq(U) /\ ToSet(met) \subseteq ToSet(it[s])
                   /\ \A k \in s : chunks[k] \in has \cup ToSet(it[s])}
<1>6. {} \in G
  <2>1. it[{}] = met
    BY <1>4
  <2> QED
    BY <2>1
<1>7. ASSUME NEW s \in SUBSET (1..n), s # {}, s \ {Max(s)} \in G
      PROVE  s \in G
  <2> DEFINE k == Max(s)
             ds == it[s \ {k}]
  <2>1. it[s] = Add(ds, chunks[k])
    BY <1>1, <1>4, <1>7
  <2>2. k \in 1..n
    BY <1>1, <1>7, MaxIndex
  <2> HIDE DEF k, ds
  <2>3. ds \in Seq(U) /\ ToSet(met) \subseteq ToSet(ds)
        /\ \A j \in s \ {k} : chunks[j] \in has \cup ToSet(ds)
    BY <1>7 DEF k, ds
  <2>4. it[s] \in Seq(U) /\ ToSet(ds) \subseteq ToSet(it[s])
        /\ chunks[k] \in has \cup ToSet(it[s])
    BY <1>2, <2>1, <2>2, <2>3
  <2> QED
    BY <2>3, <2>4
<1>8. 1..n \in G
  <2> HIDE DEF G
  <2>1. \A s \in SUBSET (1..n) : s \in G
    BY <1>1, <1>6, <1>7, IndexSetInduction
  <2> QED
    BY <2>1
<1>9. NewDrops(chunks, met, has) = it[1..n]
  BY <1>1, <1>5
<1> HIDE DEF Fix
<1> QED
  BY <1>1, <1>8, <1>9 DEF ToSet

\* Every chunk a file refers to is a drop of the base or one of the new ones.
LEMMA DropsOfFacts ==
  ASSUME NEW blob, BlobOK(blob), NEW has
  PROVE  /\ IsSequence(DropsOf(blob, has))
         /\ Error \notin ToSet(DropsOf(blob, has))
         /\ Referenced(blob) \subseteq has \cup ToSet(DropsOf(blob, has))
<1> DEFINE U == UNION {ToSet(blob[p][2]) : p \in DOMAIN blob}
           D == DOMAIN NameOrder
           n == Len(NameOrder)
           Add(ds, p) == IF p \in DOMAIN blob /\ blob[p][1] = "SliceMap"
                         THEN NewDrops(blob[p][2], ds, has) ELSE ds
           Fix(f) == f = [s \in SUBSET D |->
                            IF s = {} THEN <<>> ELSE Add(f[s \ {Max(s)}], NameOrder[Max(s)])]
           g == [x \in Seq(U) \X (1..n) |-> Add(x[1], NameOrder[x[2]])]
           it == CHOOSE f : Fix(f)
<1>1. n \in Nat /\ D = 1..n
  <2>1. NameOrder \in Seq(ToSet(NameOrder))
    BY LifecycleAssumption DEF IsSequence
  <2> QED
    BY <2>1
<1> DEFINE Part(p) == IF p \in DOMAIN blob /\ blob[p][1] = "SliceMap" THEN ToSet(blob[p][2]) ELSE {}
<1>2. ASSUME NEW ds \in Seq(U), NEW p
      PROVE  /\ Add(ds, p) \in Seq(U) /\ ToSet(ds) \subseteq ToSet(Add(ds, p))
             /\ Part(p) \subseteq has \cup ToSet(Add(ds, p))
  <2>1. CASE p \in DOMAIN blob /\ blob[p][1] = "SliceMap"
    <3>1. blob[p][2] \in Seq(U)
      BY <2>1, SequenceIn DEF BlobOK
    <3> HIDE DEF U
    <3> QED
      BY <2>1, <3>1, NewDropsFacts
  <2>2. CASE ~(p \in DOMAIN blob /\ blob[p][1] = "SliceMap")
    BY <2>2
  <2> QED
    BY <2>1, <2>2
<1>0. Error \notin U
  BY DEF BlobOK
<1> HIDE DEF Add, n, U
<1>3. \E f : Fix(f)
  <2>1. g \in [Seq(U) \X (1..n) -> Seq(U)]
    BY <1>2
  <2>2. PICK f \in [SUBSET (1..n) -> Seq(U)] : FoldsTo(f, n, <<>>, g)
    <3> DEFINE S == Seq(U)
    <3>1. <<>> \in S /\ g \in [S \X (1..n) -> S]
      BY <2>1
    <3> HIDE DEF g, S
    <3>2. \E f \in [SUBSET (1..n) -> S] : FoldsTo(f, n, <<>>, g)
      BY <1>1, <3>1, FoldExists
    <3> QED
      BY <3>2 DEF S
  <2>3. ASSUME NEW s \in SUBSET (1..n), s # {}
        PROVE  g[<<f[s \ {Max(s)}], Max(s)>>] = Add(f[s \ {Max(s)}], NameOrder[Max(s)])
    <3>1. Max(s) \in 1..n /\ s \ {Max(s)} \in SUBSET (1..n)
      BY <1>1, <2>3, MaxIndex
    <3>2. f[s \ {Max(s)}] \in Seq(U)
      BY <2>2, <3>1
    <3> QED
      BY <3>1, <3>2
  <2> HIDE DEF g
  <2>4. Fix(f)
    BY <1>1, <2>2, <2>3 DEF FoldsTo
  <2> QED
    BY <2>4
<1>4. Fix(it)
  BY <1>3
<1>5. DropsOf(blob, has) = it[D]
  BY DEF DropsOf, FoldLeft, MapThenFoldSet, Add
<1> HIDE DEF it, Part
<1> DEFINE G == {s \in SUBSET (1..n) :
                   it[s] \in Seq(U) /\ \A k \in s : Part(NameOrder[k]) \subseteq has \cup ToSet(it[s])}
<1>6. {} \in G
  <2>1. it[{}] = <<>>
    BY <1>4
  <2>2. <<>> \in Seq(U)
    OBVIOUS
  <2>3. it[{}] \in Seq(U)
    BY <2>1, <2>2
  <2> HIDE DEF Fix
  <2> QED
    BY <2>3
<1>7. ASSUME NEW s \in SUBSET (1..n), s # {}, s \ {Max(s)} \in G
      PROVE  s \in G
  <2> DEFINE k == Max(s)
             ds == it[s \ {k}]
  <2>1. it[s] = Add(ds, NameOrder[k])
    BY <1>1, <1>4, <1>7
  <2> HIDE DEF k, ds
  <2>2. ds \in Seq(U) /\ \A j \in s \ {k} : Part(NameOrder[j]) \subseteq has \cup ToSet(ds)
    BY <1>7 DEF k, ds
  <2>3. it[s] \in Seq(U) /\ ToSet(ds) \subseteq ToSet(it[s])
        /\ Part(NameOrder[k]) \subseteq has \cup ToSet(it[s])
    BY <1>2, <2>1, <2>2
  <2> QED
    BY <2>2, <2>3
<1>8. 1..n \in G
  <2> HIDE DEF G
  <2>1. \A s \in SUBSET (1..n) : s \in G
    BY <1>1, <1>6, <1>7, IndexSetInduction
  <2> QED
    BY <2>1
<1> DEFINE ds == DropsOf(blob, has)
<1>9. ds = it[1..n]
  BY <1>1, <1>5
<1> HIDE DEF Fix, ds
<1>10. ds \in Seq(U) /\ \A k \in 1..n : Part(NameOrder[k]) \subseteq has \cup ToSet(ds)
  BY <1>8, <1>9
<1>11. Referenced(blob) \subseteq has \cup ToSet(ds)
  <2> SUFFICES ASSUME NEW d \in Referenced(blob) PROVE d \in has \cup ToSet(ds)
    OBVIOUS
  <2>1. PICK p \in DOMAIN blob : blob[p][1] = "SliceMap" /\ d \in ToSet(blob[p][2])
    BY DEF Referenced
  <2>2. PICK k \in 1..n : NameOrder[k] = p
    BY <1>1 DEF BlobOK, ToSet
  <2>3. d \in Part(NameOrder[k])
    BY <2>1, <2>2 DEF Part
  <2> QED
    BY <1>10, <2>3
<1>12. IsSequence(ds) /\ Error \notin ToSet(ds)
  BY <1>0, <1>10, SequenceOf
<1> QED
  BY <1>11, <1>12 DEF ds

----------------------------------------------------------------------------
(* What the commands plan to write.                                        *)

LEMMA MetadataOK ==
  ASSUME NEW tree, TreeOK(tree)
  PROVE  BlobOK(Metadata(tree))
<1>1. ASSUME NEW p \in DOMAIN tree
      PROVE  /\ Metadata(tree)[p][1] \in {"Inline", "SliceMap"}
             /\ Metadata(tree)[p][2] = tree[p]
  BY DEF Metadata, ContentHandle
<1>2. DOMAIN Metadata(tree) = DOMAIN tree
  BY DEF Metadata
<1> QED
  BY <1>1, <1>2 DEF BlobOK, TreeOK

LEMMA SlabsOK ==
  ASSUME NEW drops, IsSequence(drops), Error \notin ToSet(drops), NEW dict
  PROVE  /\ IsSequence(Slabs(drops, dict))
         /\ \A k \in DOMAIN Slabs(drops, dict) : SlabOK(Slabs(drops, dict)[k], dict)
<1> DEFINE n == (Len(drops) + SlabCap - 1) \div SlabCap
<1>1. n \in Int
  <2>1. Len(drops) \in Nat
    BY DEF IsSequence
  <2>2. SlabCap \in Nat /\ SlabCap > 0
    BY LifecycleAssumption
  <2> QED
    BY <2>1, <2>2
<1>2. Slabs(drops, dict) = [k \in 1..n |-> Slab(k, drops, dict)]
  BY DEF Slabs
<1> HIDE DEF n
<1>3. IsSequence(Slabs(drops, dict))
  BY <1>1, <1>2, TabulatedSequence
<1>4. ASSUME NEW k \in 1..n PROVE SlabOK(Slab(k, drops, dict), dict)
  BY DEF SlabOK, Slab, ToSet
<1> QED
  BY <1>2, <1>3, <1>4

LEMMA AssembledOK ==
  ASSUME NEW out, NEW tree, TreeOK(tree), NEW profile,
         NEW own, IsSequence(own), Error \notin ToSet(own), NEW dict, NEW root
  PROVE  FilesOK(Assembled(out, tree, profile, own, dict, root))
<1> DEFINE slabs == Slabs(own, dict)
           names == [k \in DOMAIN slabs |-> SlabName(slabs[k])]
           blob == Metadata(tree)
           m == [meta |-> blob, ext |-> profile.ext, slabs |-> names,
                 dicts |-> dict, base |-> root, history |-> "build"]
           first == <<<<ImageFileOf(out), m>>>>
           middle == [k \in DOMAIN slabs |-> <<names[k], slabs[k]>>]
           last == IF profile.ext THEN <<<<SidecarName(blob), blob>>>> ELSE <<>>
<1>1. BlobOK(blob)
  BY MetadataOK
<1>2. /\ IsSequence(slabs)
      /\ \A k \in DOMAIN slabs : SlabOK(slabs[k], dict)
  BY SlabsOK
<1> HIDE DEF slabs, blob
<1>3. DOMAIN slabs = 1..Len(slabs) /\ Len(slabs) \in Nat
  BY <1>2 DEF IsSequence
<1>4. IsSequence(names) /\ IsSequence(middle)
  BY <1>3, TabulatedSequence
<1>5. FilesOK(first)
  <2>1. ManifestOK(m)
    <3>1. /\ m.meta = blob /\ m.slabs = names /\ m.dicts = dict
          /\ m = [meta |-> m.meta, ext |-> m.ext, slabs |-> m.slabs,
                  dicts |-> m.dicts, base |-> m.base, history |-> m.history]
      OBVIOUS
    <3>2. \A k \in DOMAIN names : /\ names[k] = SlabName(names[k][2])
                                  /\ SlabOK(names[k][2], dict)
      BY <1>2 DEF SlabName
    <3> HIDE DEF m, names
    <3>3. m.dicts \in {None, dict} /\ \A k \in DOMAIN m.slabs : SlabOK(m.slabs[k][2], dict)
      BY <3>1, <3>2
    <3> QED
      BY <1>1, <1>4, <3>1, <3>2, <3>3 DEF ManifestOK
  <2> HIDE DEF m
  <2>2. EntryOK(ImageFileOf(out), m) /\ Pristine(ImageFileOf(out), m) /\ SigningOK(ImageFileOf(out), m)
    BY <2>1 DEF EntryOK, Pristine, SigningOK, ImageFileOf
  <2> QED
    BY <2>2, OneFile DEF ImageFileOf
<1>6. FilesOK(middle)
  <2>1. ASSUME NEW k \in DOMAIN middle
        PROVE  /\ EntryOK(middle[k][1], middle[k][2])
               /\ Pristine(middle[k][1], middle[k][2])
    <3>1. /\ middle[k][1] = SlabName(slabs[k]) /\ middle[k][2] = slabs[k]
          /\ k \in DOMAIN slabs
      OBVIOUS
    <3> HIDE DEF middle
    <3> QED
      BY <1>2, <3>1 DEF EntryOK, Pristine, SlabName, SlabOK
  <2>2. \A k \in DOMAIN middle : middle[k][1][1] # "sig"
    BY DEF SlabName
  <2> QED
    BY <1>4, <2>1, <2>2 DEF FilesOK, PlanOK, SigningOK
<1>7. FilesOK(last)
  <2>1. /\ EntryOK(SidecarName(blob), blob) /\ Pristine(SidecarName(blob), blob)
        /\ SigningOK(SidecarName(blob), blob)
    BY <1>1 DEF EntryOK, Pristine, SigningOK, SidecarName
  <2> QED
    BY <2>1, OneFile, NoFile DEF SidecarName
<1>8. Assembled(out, tree, profile, own, dict, root) = (first \o middle) \o last
  BY DEF Assembled, slabs, blob
<1> HIDE DEF first, middle, last
<1> QED
  BY <1>5, <1>6, <1>7, <1>8, ConcatFiles

LEMMA WriteDirectoryOK ==
  ASSUME NEW out, NEW tree, TreeOK(tree), NEW profile
  PROVE  FilesOK(write_directory(out, tree, profile))
<1>1. BlobOK(Metadata(tree))
  BY MetadataOK
<1> DEFINE own == DropsOf(Metadata(tree), {})
<1>2. IsSequence(own) /\ Error \notin ToSet(own)
  BY <1>1, DropsOfFacts
<1> HIDE DEF own
<1>3. \A dict : FilesOK(Assembled(out, tree, profile, own, dict, None))
  BY <1>2, AssembledOK
<1> QED
  BY <1>3 DEF write_directory, own

LEMMA WriteLayerOK ==
  ASSUME NEW out, NEW tree, TreeOK(tree), NEW profile, NEW m, NEW has, NEW fp
  PROVE  FilesOK(write_layer(out, tree, profile, m, has, fp))
<1>1. BlobOK(Metadata(tree))
  BY MetadataOK
<1> DEFINE own == DropsOf(Metadata(tree), has)
           dict == IF profile.dict /\ own # <<>> THEN adopt_from_section(m, tree) ELSE None
           files == Assembled(out, tree, profile, own, dict, Root(m))
           x == IF fp THEN AllDrops ELSE ToSet(own)
<1>2. IsSequence(own) /\ Error \notin ToSet(own)
  BY <1>1, DropsOfFacts
<1>3. FilesOK(files)
  <2> HIDE DEF own, dict
  <2> QED
    BY <1>2, AssembledOK
<1>4. FilesOK(<<<<SparseFileOf(out), x>>>>)
  <2> HIDE DEF x
  <2>1. /\ EntryOK(SparseFileOf(out), x) /\ Pristine(SparseFileOf(out), x)
        /\ SigningOK(SparseFileOf(out), x)
    BY DEF EntryOK, Pristine, SigningOK, SparseFileOf
  <2> QED
    BY <2>1, OneFile DEF SparseFileOf
<1>5. write_layer(out, tree, profile, m, has, fp)
        = files \o <<<<SparseFileOf(out), x>>>>
  BY DEF write_layer, emit_sparse_sidecar
<1> HIDE DEF files, x
<1> QED
  BY <1>3, <1>4, <1>5, ConcatFiles

LEMMA SourceTreeOK == ASSUME NEW t \in Sources PROVE TreeOK(t)
BY LifecycleAssumption DEF TreeOK

----------------------------------------------------------------------------
(* What a command that rewrites an image reads back from it.               *)

LEMMA WrittenOK ==
  ASSUME NEW chunks, IsSequence(chunks)
  PROVE  /\ IsSequence(Written(chunks)) /\ Error \notin ToSet(Written(chunks))
         /\ (\A k \in DOMAIN chunks : chunks[k] = Error) => Written(chunks) = <<>>
<1> DEFINE S == ToSet(chunks)
           n == Len(chunks)
           I == {k \in 1..n : chunks[k] = Error}
<1>1. chunks \in Seq(S) /\ n \in Nat /\ DOMAIN chunks = 1..n
  BY DEF IsSequence
<1>2. CASE Failed(chunks)
  <2>1. I # {} /\ I \subseteq Nat
    BY <1>1, <1>2 DEF Failed, ToSet
  <2> DEFINE k == Min(I)
  <2>2. k \in I /\ \A j \in I : k <= j
    <3> HIDE DEF I
    <3>1. \E j \in I : \A i \in I : j <= i
      BY <2>1, LeastNatural
    <3> QED
      BY <3>1 DEF Min
  <2>3. SelectInSeq(chunks, LAMBDA c : c = Error) = k
    BY <2>1 DEF SelectInSeq
  <2> HIDE DEF k
  <2> DEFINE w == SubSeq(chunks, 1, k - 1)
  <2>4. Written(chunks) = w
    BY <1>2, <2>3 DEF Written
  <2>5. k \in 1..n
    BY <2>2
  <2>6. w \in Seq(S) /\ DOMAIN w = 1..(k - 1) /\ \A j \in 1..(k - 1) : w[j] = chunks[j]
    <3> HIDE DEF S
    <3>1. Len(w) = k - 1 /\ w = [j \in 1..(k - 1) |-> chunks[j]]
      BY <1>1, <2>5
    <3>2. \A j \in 1..(k - 1) : chunks[j] \in S
      BY <1>1, <2>5
    <3>3. k - 1 \in Nat
      BY <1>1, <2>5
    <3> HIDE DEF w
    <3> QED
      BY <3>1, <3>2, <3>3
  <2>7. \A j \in 1..(k - 1) : chunks[j] # Error
    BY <1>1, <2>2, <2>5
  <2> HIDE DEF w, S
  <2>8. (\A j \in DOMAIN chunks : chunks[j] = Error) => w = <<>>
    <3> SUFFICES ASSUME \A j \in DOMAIN chunks : chunks[j] = Error PROVE w = <<>>
      OBVIOUS
    <3>1. k = 1
      BY <1>1, <2>5, <2>7
    <3>2. Len(w) = 0
      BY <2>6, <3>1
    <3> QED
      BY <2>6, <3>2
  <2> QED
    BY <2>4, <2>6, <2>7, <2>8, SequenceOf DEF ToSet
<1>3. CASE ~Failed(chunks)
  <2>1. Written(chunks) = chunks /\ Error \notin ToSet(chunks)
    BY <1>3 DEF Written, Failed
  <2>2. (\A k \in DOMAIN chunks : chunks[k] = Error) => chunks = <<>>
    <3> SUFFICES ASSUME \A k \in DOMAIN chunks : chunks[k] = Error PROVE chunks = <<>>
      OBVIOUS
    <3>1. n = 0
      BY <1>1, <2>1 DEF ToSet
    <3> HIDE DEF S
    <3> QED
      BY <1>1, <3>1
  <2> QED
    BY <2>1, <2>2
<1> QED
  BY <1>2, <1>3

LEMMA LoadedOK ==
  ASSUME DiskInv, NEW i
  PROVE  /\ Readable(ImageFileOf(i)) => ManifestOK(Manifest(i))
         /\ MetadataReadable(i) => /\ load_image(i) = Manifest(i).meta
                                   /\ BlobOK(load_image(i))
<1>1. ASSUME Readable(ImageFileOf(i)) PROVE ManifestOK(Manifest(i))
  BY <1>1 DEF DiskInv, Readable, Exists, Manifest, Bytes, EntryOK, ImageFileOf
<1>2. ASSUME MetadataReadable(i)
      PROVE  load_image(i) = Manifest(i).meta /\ BlobOK(load_image(i))
  <2>1. ManifestOK(Manifest(i))
    BY <1>1, <1>2 DEF MetadataReadable
  <2>2. BlobOK(Manifest(i).meta)
    BY <2>1 DEF ManifestOK
  <2>3. CASE Manifest(i).ext
    <3> DEFINE f == SidecarName(Manifest(i).meta)
    <3>1. Readable(f) /\ load_image(i) = Bytes(f)
      BY <1>2, <2>3 DEF MetadataReadable, load_image
    <3>2. f[1] = "meta" /\ f[2] = Manifest(i).meta
      BY DEF SidecarName
    <3> HIDE DEF f
    <3>3. Bytes(f) = f[2]
      BY <3>1, <3>2 DEF DiskInv, Readable, Exists, Bytes, EntryOK
    <3> QED
      BY <2>2, <3>1, <3>2, <3>3
  <2>4. CASE ~Manifest(i).ext
    BY <2>2, <2>4 DEF load_image
  <2> QED
    BY <2>3, <2>4
<1> QED
  BY <1>1, <1>2

LEMMA ChunksOK ==
  ASSUME NEW handle, IsSequence(handle[2]), NEW chain
  PROVE  IsSequence(Chunks(handle, chain))
<1> DEFINE n == Len(handle[2])
           s == [k \in 1..n |-> Plaintext(chain, handle[2][k])]
<1>1. n \in Nat /\ DOMAIN handle[2] = 1..n
  BY DEF IsSequence
<1>2. IsSequence(s)
  BY <1>1, TabulatedSequence
<1> QED
  BY <1>1, <1>2 DEF Chunks

LEMMA ExtractedOK ==
  ASSUME DiskInv, NEW i, Extracted(i).ok
  PROVE  TreeOK(Extracted(i).tree)
<1> DEFINE chain == load_slab_chain(i, <<>>)
           blob == load_image(i)
           out == [p \in DOMAIN blob |-> Chunks(blob[p], chain)]
           tree == [p \in DOMAIN blob |-> Written(out[p])]
           readable == /\ MetadataReadable(i)
                       /\ \A k \in DOMAIN <<>> : Readable(ImageFileOf(<<>>[k]))
                       /\ \A k \in DOMAIN chain : chain[k].ok
<1>1. readable /\ Extracted(i).tree = tree
  <2>1. Extracted(i) = IF readable
                       THEN [ok    |-> \A p \in FirstFile(blob) : ~Failed(out[p]),
                             exact |-> \A p \in DOMAIN blob : out[p] = blob[p][2],
                             tree  |-> tree]
                       ELSE Unreadable
    BY DEF Extracted, extract
  <2> HIDE DEF readable, tree, out, blob
  <2> QED
    BY <2>1 DEF Unreadable
<1>2. BlobOK(blob)
  BY <1>1, LoadedOK
<1> HIDE DEF blob, chain
<1>3. ASSUME NEW p \in DOMAIN blob
      PROVE  IsSequence(Written(out[p])) /\ Error \notin ToSet(Written(out[p]))
  <2>1. IsSequence(blob[p][2])
    BY <1>2 DEF BlobOK
  <2>2. IsSequence(Chunks(blob[p], chain))
    BY <2>1, ChunksOK
  <2> QED
    BY <2>2, WrittenOK
<1>4. DOMAIN tree \subseteq ToSet(NameOrder)
  BY <1>2 DEF BlobOK
<1>5. DOMAIN tree = DOMAIN blob /\ tree = [p \in DOMAIN tree |-> tree[p]]
      /\ \A p \in DOMAIN blob : tree[p] = Written(out[p])
  OBVIOUS
<1> HIDE DEF out, tree
<1> QED
  BY <1>1, <1>3, <1>4, <1>5 DEF TreeOK

----------------------------------------------------------------------------
(* LifecycleInv is inductive.                                              *)

LEMMA OnDiskOK ==
  ASSUME NEW files, FilesOK(files), disk = OnDisk(files)
  PROVE  DiskInv /\ \A f \in DOMAIN disk : f[1] # "sig"
<1> DEFINE K(f) == {k \in DOMAIN files : files[k][1] = f}
           last(f) == CHOOSE k \in DOMAIN files :
                        files[k][1] = f /\ \A j \in DOMAIN files : files[j][1] = f => j <= k
<1>1. /\ DOMAIN disk = {files[k][1] : k \in DOMAIN files}
      /\ \A f \in DOMAIN disk : disk[f] = Whole(files[last(f)][2])
  BY DEF OnDisk
<1>2. ASSUME NEW f \in DOMAIN disk
      PROVE  last(f) \in DOMAIN files /\ files[last(f)][1] = f
  <2>1. Len(files) \in Nat /\ DOMAIN files = 1..Len(files)
    BY DEF FilesOK, PlanOK, IsSequence
  <2>2. K(f) # {} /\ K(f) \subseteq 0..Len(files)
    BY <1>1, <2>1
  <2>3. \E k \in K(f) : \A j \in K(f) : j <= k
    <3> DEFINE T == K(f)
    <3> HIDE DEF T
    <3>1. T # {} /\ T \subseteq 0..Len(files)
      BY <2>2 DEF T
    <3>2. \E k \in T : \A j \in T : j <= k
      BY <2>1, <3>1, GreatestNatural
    <3> QED
      BY <3>2 DEF T
  <2>4. \E k \in DOMAIN files :
           files[k][1] = f /\ \A j \in DOMAIN files : files[j][1] = f => j <= k
    BY <2>3
  <2> QED
    BY <2>4
<1> HIDE DEF last
<1>3. ASSUME NEW f \in DOMAIN disk
      PROVE  /\ disk[f] = Whole(disk[f][2]) /\ EntryOK(f, disk[f][2])
             /\ Pristine(f, disk[f][2]) /\ f[1] # "sig"
  <2> DEFINE x == files[last(f)][2]
  <2>1. EntryOK(f, x) /\ Pristine(f, x) /\ f[1] # "sig"
    BY <1>2 DEF FilesOK, PlanOK
  <2>2. disk[f] = Whole(x)
    BY <1>1
  <2> HIDE DEF x
  <2> QED
    BY <2>1, <2>2 DEF Whole
<1> QED
  BY <1>3 DEF DiskInv

LEMMA LifecycleInit == Init => LifecycleInv
<1> SUFFICES ASSUME Init PROVE LifecycleInv
  OBVIOUS
<1>1. PICK i \in Images, j \in Images, s \in Starts :
        LET base == write_directory(i, s.base.tree, s.base.profile)
            m    == base[1][2]
        IN  disk = OnDisk(base \o write_layer(j, s.layer.tree, s.layer.profile, m,
                                              ToSet(DropsOf(m.meta, {})), s.fp))
  BY DEF Init
<1> DEFINE base == write_directory(i, s.base.tree, s.base.profile)
           m    == base[1][2]
           layer == write_layer(j, s.layer.tree, s.layer.profile, m,
                                ToSet(DropsOf(m.meta, {})), s.fp)
<1>2. TreeOK(s.base.tree) /\ TreeOK(s.layer.tree)
  BY LifecycleAssumption, SourceTreeOK
<1>3. FilesOK(base) /\ FilesOK(layer)
  BY <1>2, WriteDirectoryOK, WriteLayerOK
<1>4. disk = OnDisk(base \o layer)
  BY <1>1
<1> HIDE DEF base, layer
<1>5. DiskInv /\ \A f \in DOMAIN disk : f[1] # "sig"
  BY <1>3, <1>4, ConcatFiles, OnDiskOK
<1>6. /\ proc = [p \in Procs |-> Idle] /\ signed = [x \in Images |-> None] /\ rot = 0
  BY DEF Init
<1>7. ProcInv
  BY <1>6, NoFile DEF ProcInv, Idle
<1>8. SignInv
  BY <1>5 DEF SignInv, Readable, Exists, limsig_path
<1> QED
  BY <1>5, <1>6, <1>7, <1>8 DEF LifecycleInv

LEMMA PutOnDisk ==
  ASSUME DiskInv, NEW f, NEW v, disk' = Put(disk, f, v), rot' = rot,
         \/ v = Torn
         \/ v = Whole(v[2]) /\ EntryOK(f, v[2]) /\ Pristine(f, v[2])
  PROVE  DiskInv'
<1>1. /\ DOMAIN disk' = DOMAIN disk \cup {f}
      /\ disk'[f] = v
      /\ \A g \in DOMAIN disk : g # f => disk'[g] = disk[g]
  BY DEF Put
<1>2. ASSUME NEW g \in DOMAIN disk', disk'[g] # Torn
      PROVE  /\ disk'[g] = Whole(disk'[g][2]) /\ EntryOK(g, disk'[g][2])
             /\ rot' = 0 => Pristine(g, disk'[g][2])
  <2>1. CASE g = f
    BY <1>1, <1>2, <2>1
  <2>2. CASE g # f
    BY <1>1, <1>2, <2>2 DEF DiskInv
  <2> QED
    BY <2>1, <2>2
<1> QED
  BY <1>2 DEF DiskInv

LEMMA PutKeepsSignatures ==
  ASSUME SignInv, NEW f, NEW v, disk' = Put(disk, f, v), signed' = signed,
         f[1] # "sig" \/ v = Torn
  PROVE  SignInv'
<1>1. /\ DOMAIN disk' = DOMAIN disk \cup {f}
      /\ disk'[f] = v
      /\ \A g \in DOMAIN disk : g # f => disk'[g] = disk[g]
  BY DEF Put
<1>2. ASSUME NEW i \in Images, Readable(limsig_path(i))'
      PROVE  (signed[i] = <<"tree", Bytes(limsig_path(i))[2].meta>>)'
  <2> DEFINE g == limsig_path(i)
  <2>1. g[1] = "sig"
    BY DEF limsig_path
  <2> HIDE DEF g
  <2>2. g # f /\ g \in DOMAIN disk /\ disk[g] # Torn /\ disk'[g] = disk[g]
    BY <1>1, <1>2, <2>1 DEF Readable, Exists, g
  <2>3. Readable(g) /\ Bytes(g)' = Bytes(g)
    BY <2>2 DEF Readable, Exists, Bytes
  <2>4. signed[i] = <<"tree", Bytes(g)[2].meta>>
    BY <2>3 DEF SignInv, g
  <2> QED
    BY <2>3, <2>4 DEF g
<1> QED
  BY <1>2 DEF SignInv

LEMMA KeepsDisk ==
  ASSUME DiskInv, SignInv, UNCHANGED <<disk, rot, signed>>
  PROVE  DiskInv' /\ SignInv'
BY DEF DiskInv, SignInv, Readable, Exists, Bytes

LEMMA KeepsProc ==
  ASSUME ProcInv, DOMAIN proc = Procs, NEW p \in Procs,
         NEW i, NEW todo, NEW promise, PlanOK(todo), todo # <<>> => i \in Images,
         proc' = [proc EXCEPT ![p] = [image |-> i, todo |-> todo, promise |-> promise]]
  PROVE  ProcInv' /\ DOMAIN proc' = Procs
<1> DEFINE r == [image |-> i, todo |-> todo, promise |-> promise]
<1>1. r = [image |-> r.image, todo |-> r.todo, promise |-> r.promise] /\ r.todo = todo /\ r.image = i
  OBVIOUS
<1>2. DOMAIN proc' = Procs /\ proc'[p] = r /\ \A q \in Procs : q # p => proc'[q] = proc[q]
  OBVIOUS
<1> HIDE DEF r
<1> QED
  BY <1>1, <1>2 DEF ProcInv

LEMMA IdleProc ==
  ASSUME ProcInv, DOMAIN proc = Procs, NEW p \in Procs,
         proc' = [proc EXCEPT ![p] = Idle]
  PROVE  ProcInv' /\ DOMAIN proc' = Procs
BY NoFile, KeepsProc DEF Idle

LEMMA StartStep ==
  ASSUME LifecycleInv, NEW p \in Procs, NEW i \in Images, NEW files, PlanOK(files),
         NEW promise, Start(p, i, files, promise)
  PROVE  LifecycleInv'
<1>1. DiskInv' /\ SignInv'
  BY KeepsDisk DEF LifecycleInv, Start
<1>2. ProcInv' /\ DOMAIN proc' = Procs
  BY KeepsProc DEF LifecycleInv, Start
<1> QED
  BY <1>1, <1>2 DEF LifecycleInv, Start

LEMMA FinishedProc ==
  ASSUME ProcInv, DOMAIN proc = Procs, NEW p \in Procs, NEW files, PlanOK(files),
         proc[p].image \in Images, proc' = [proc EXCEPT ![p] = Finished(p, files)]
  PROVE  ProcInv' /\ DOMAIN proc' = Procs
<1>1. CASE files = <<>>
  BY <1>1, IdleProc DEF Finished
<1>2. CASE files # <<>>
  <2> DEFINE r == proc[p]
  <2>1. r = [image |-> r.image, todo |-> r.todo, promise |-> r.promise]
    BY DEF ProcInv
  <2> HIDE DEF r
  <2>2. \A a, b, c, t : [[image |-> a, todo |-> b, promise |-> c] EXCEPT !.todo = t]
                          = [image |-> a, todo |-> t, promise |-> c]
    OBVIOUS
  <2>3. [r EXCEPT !.todo = files] = [image |-> r.image, todo |-> files, promise |-> r.promise]
    <3>1. [[image |-> r.image, todo |-> r.todo, promise |-> r.promise] EXCEPT !.todo = files]
            = [image |-> r.image, todo |-> files, promise |-> r.promise]
      BY ZenonT(30), <2>2
    <3> QED
      BY <2>1, <3>1
  <2>4. Finished(p, files) = [image |-> r.image, todo |-> files, promise |-> r.promise]
    BY <1>2, <2>3 DEF Finished, r
  <2> QED
    BY <2>4, KeepsProc DEF r
<1> QED
  BY <1>1, <1>2

LEMMA WriteFileStep ==
  ASSUME LifecycleInv, NEW p \in Procs, WriteFile(p)
  PROVE  LifecycleInv'
<1> DEFINE todo == proc[p].todo
           f == Head(todo)[1]
           x == Head(todo)[2]
<1>1. /\ todo # <<>> /\ f[1] # "sig" /\ disk' = Put(disk, f, Whole(x))
      /\ proc' = [proc EXCEPT ![p] = Finished(p, Tail(todo))]
      /\ UNCHANGED <<signed, rot>>
  BY DEF WriteFile
<1>2. PlanOK(todo) /\ proc[p].image \in Images
  BY <1>1 DEF LifecycleInv, ProcInv
<1> HIDE DEF todo
<1>3. PlanOK(Tail(todo)) /\ EntryOK(f, x) /\ Pristine(f, x)
  BY <1>1, <1>2, RestOfPlan
<1> HIDE DEF f, x
<1>4. Whole(x) = Whole(Whole(x)[2]) /\ Whole(x)[2] = x
  BY DEF Whole
<1>5. DiskInv'
  BY <1>1, <1>3, <1>4, PutOnDisk DEF LifecycleInv
<1>6. SignInv'
  BY <1>1, PutKeepsSignatures DEF LifecycleInv
<1>7. ProcInv' /\ DOMAIN proc' = Procs
  BY <1>1, <1>2, <1>3, FinishedProc DEF LifecycleInv
<1> QED
  BY <1>1, <1>5, <1>6, <1>7 DEF LifecycleInv

LEMMA SignStep ==
  ASSUME LifecycleInv, NEW p \in Procs, sign_image(p)
  PROVE  LifecycleInv'
<1> DEFINE i == proc[p].image
           f == limsig_path(i)
           x == <<Root(Manifest(i)), Manifest(i).meta>>
           files == IF read_manifest(i) THEN <<<<f, x>>>> ELSE <<>>
<1>1. /\ proc' = [proc EXCEPT ![p] = Finished(p, files)] /\ proc[p].todo # <<>>
      /\ UNCHANGED <<disk, signed, rot>>
  BY DEF sign_image
<1>2. i \in Images
  BY <1>1 DEF LifecycleInv, ProcInv
<1>3. PlanOK(files)
  <2>1. EntryOK(f, x) /\ Pristine(f, x) /\ SigningOK(f, x)
    BY DEF EntryOK, Pristine, SigningOK, Root, limsig_path
  <2> QED
    BY <2>1, OneFile, NoFile
<1> HIDE DEF files
<1> QED
  BY <1>1, <1>2, <1>3, FinishedProc, KeepsDisk DEF LifecycleInv

LEMMA WriteSignatureStep ==
  ASSUME LifecycleInv, NEW p \in Procs, WriteSignature(p)
  PROVE  LifecycleInv'
<1> DEFINE i == proc[p].image
           f == limsig_path(i)
           e == Head(proc[p].todo)
           x == e[2][1]
           v == Whole(x)
<1>0. /\ proc' = [proc EXCEPT ![p] = Idle] /\ rot' = rot /\ proc[p].todo # <<>>
      /\ disk' = Put(disk, f, v) /\ signed' = [signed EXCEPT ![i] = <<"tree", e[2][2]>>]
      /\ e[1][1] = "sig" /\ e[2] # None
  BY DEF WriteSignature
<1>1. /\ proc' = [proc EXCEPT ![p] = Idle] /\ rot' = rot /\ proc[p].todo # <<>>
      /\ disk' = Put(disk, f, v) /\ signed' = [signed EXCEPT ![i] = <<"tree", x[2].meta>>]
  <2>1. SigningOK(e[1], e[2])
    BY <1>0, RestOfPlan DEF LifecycleInv, ProcInv
  <2>2. e[2][2] = x[2].meta
    BY <1>0, <2>1 DEF SigningOK
  <2> QED
    BY <1>0, <2>2
<1>2. ProcInv' /\ DOMAIN proc' = Procs
  BY <1>1, IdleProc DEF LifecycleInv
<1>3. i \in Images
  BY <1>1 DEF LifecycleInv, ProcInv
<1>4. v = Whole(v[2]) /\ v[2] = x
  BY DEF Whole
<1>5. EntryOK(f, v[2]) /\ Pristine(f, v[2])
  BY DEF EntryOK, Pristine, limsig_path
<1> HIDE DEF v, x
<1>6. DiskInv'
  <2> HIDE DEF f
  <2> QED
    BY <1>1, <1>4, <1>5, PutOnDisk DEF LifecycleInv
<1>7. /\ DOMAIN disk' = DOMAIN disk \cup {f} /\ disk'[f] = v
      /\ \A g \in DOMAIN disk : g # f => disk'[g] = disk[g]
  BY <1>1 DEF Put
<1>8. /\ DOMAIN signed' = Images /\ signed'[i] = <<"tree", x[2].meta>>
      /\ \A j \in Images : j # i => signed'[j] = signed[j]
  BY <1>1, <1>3 DEF LifecycleInv
<1>9. ASSUME NEW j \in Images, Readable(limsig_path(j))'
      PROVE  (signed[j] = <<"tree", Bytes(limsig_path(j))[2].meta>>)'
  <2>1. CASE j = i
    BY <1>4, <1>7, <1>8, <2>1 DEF Bytes
  <2>2. CASE j # i
    <3>1. limsig_path(j) # f
      BY <2>2 DEF limsig_path
    <3>2. Readable(limsig_path(j)) /\ Bytes(limsig_path(j))' = Bytes(limsig_path(j))
      BY <1>7, <1>9, <3>1 DEF Readable, Exists, Bytes
    <3>3. signed[j] = <<"tree", Bytes(limsig_path(j))[2].meta>>
      BY <3>2 DEF LifecycleInv, SignInv
    <3> QED
      BY <1>8, <2>2, <3>2, <3>3
  <2> QED
    BY <2>1, <2>2
<1> QED
  BY <1>1, <1>2, <1>6, <1>8, <1>9 DEF LifecycleInv, SignInv

\* A manifest cut after its slab index is one that lost its dictionaries.
LEMMA CutManifestOK ==
  ASSUME NEW m, ManifestOK(m), NEW h
  PROVE  ManifestOK(CutManifest(m, h))
<1> DEFINE c == [meta |-> m.meta, ext |-> m.ext, slabs |-> m.slabs,
                 dicts |-> None, base |-> None, history |-> h]
<1>1. CutManifest(m, h) = c
  BY DEF CutManifest
<1>2. /\ c.meta = m.meta /\ c.slabs = m.slabs /\ c.dicts = None
      /\ c = [meta |-> c.meta, ext |-> c.ext, slabs |-> c.slabs,
              dicts |-> c.dicts, base |-> c.base, history |-> c.history]
  OBVIOUS
<1> HIDE DEF c
<1>3. PICK dict : \A k \in DOMAIN m.slabs : SlabOK(m.slabs[k][2], dict)
  BY DEF ManifestOK
<1>4. c.dicts \in {None, dict} /\ \A k \in DOMAIN c.slabs : SlabOK(c.slabs[k][2], dict)
  BY <1>2, <1>3
<1>5. BlobOK(c.meta) /\ IsSequence(c.slabs) /\ \A k \in DOMAIN c.slabs : c.slabs[k] = SlabName(c.slabs[k][2])
  BY <1>2 DEF ManifestOK
<1> QED
  BY <1>1, <1>2, <1>4, <1>5 DEF ManifestOK

LEMMA LeftOK ==
  ASSUME NEW name, NEW x, EntryOK(name, x), NEW v \in LeftOf(name, x)
  PROVE  \/ v = Torn
         \/ name[1] = "image" /\ v = Whole(v[2]) /\ EntryOK(name, v[2]) /\ Pristine(name, v[2])
<1>1. CASE v = Torn
  BY <1>1
<1>2. CASE v # Torn
  <2>1. PICK h \in {x.history, HistoryCut} : name[1] = "image" /\ v = Whole(CutManifest(x, h))
    BY <1>2 DEF LeftOf
  <2>2. ManifestOK(CutManifest(x, h))
    BY <2>1, CutManifestOK DEF EntryOK
  <2>3. v = Whole(v[2]) /\ v[2] = CutManifest(x, h)
    BY <2>1 DEF Whole
  <2> QED
    BY <2>1, <2>2, <2>3 DEF EntryOK, Pristine
<1> QED
  BY <1>1, <1>2

LEMMA StopStep ==
  ASSUME LifecycleInv, NEW p \in Procs, Stop(p)
  PROVE  LifecycleInv'
<1>1. proc' = [proc EXCEPT ![p] = Idle] /\ rot' = rot /\ signed' = signed
  BY DEF Stop
<1>2. ProcInv' /\ DOMAIN proc' = Procs
  BY <1>1, IdleProc DEF LifecycleInv
<1> DEFINE f == Head(proc[p].todo)[1]
           x == Head(proc[p].todo)[2]
<1>3. disk' = disk \/ \E v \in LeftOf(f, x) : disk' = Put(disk, f, v)
  BY DEF Stop
<1>4. EntryOK(f, x)
  BY RestOfPlan DEF Stop, LifecycleInv, ProcInv
<1> HIDE DEF f, x
<1>5. CASE disk' = disk
  BY <1>1, <1>2, <1>5, KeepsDisk DEF LifecycleInv
<1>6. ASSUME NEW v \in LeftOf(f, x), disk' = Put(disk, f, v) PROVE LifecycleInv'
  <2>1. \/ v = Torn
        \/ f[1] = "image" /\ v = Whole(v[2]) /\ EntryOK(f, v[2]) /\ Pristine(f, v[2])
    BY <1>4, LeftOK
  <2>2. DiskInv'
    BY <1>1, <1>6, <2>1, PutOnDisk DEF LifecycleInv
  <2>3. SignInv'
    BY <1>1, <1>6, <2>1, PutKeepsSignatures DEF LifecycleInv
  <2> QED
    BY <1>1, <1>2, <2>2, <2>3 DEF LifecycleInv
<1> QED
  BY <1>3, <1>5, <1>6

\* A rotten drop is still a record under its id.
LEMMA RotStep ==
  ASSUME LifecycleInv, RotDrop
  PROVE  LifecycleInv'
<1>1. UNCHANGED <<proc, signed>> /\ rot' = rot + 1
  BY DEF RotDrop
<1>2. PICK f \in DOMAIN disk, how \in {Garbage, Error} :
        /\ f[1] = "slab" /\ disk[f] # Torn
        /\ \E d \in DOMAIN Bytes(f).records :
              disk' = [disk EXCEPT ![f][2].records[d].state = how]
  BY DEF RotDrop
<1>3. PICK d \in DOMAIN Bytes(f).records :
        disk' = [disk EXCEPT ![f][2].records[d].state = how]
  BY <1>2
<1> DEFINE x == disk[f][2]
           y == [x EXCEPT !.records[d].state = how]
<1>4. disk[f] = <<"whole", x>> /\ x = [ordinal |-> x.ordinal, records |-> x.records]
      /\ Error \notin DOMAIN x.records
  BY <1>2 DEF LifecycleInv, DiskInv, Whole, EntryOK
<1> HIDE DEF x
<1>5. y = [ordinal |-> y.ordinal, records |-> y.records] /\ DOMAIN y.records = DOMAIN x.records
  BY <1>4
<1> HIDE DEF y
<1>6. disk' = [disk EXCEPT ![f] = <<"whole", y>>]
  <2>1. disk' = [disk EXCEPT ![f] = [disk[f] EXCEPT ![2] = y]]
    BY <1>3 DEF y, x
  <2>2. \A a, b : [<<"whole", a>> EXCEPT ![2] = b] = <<"whole", b>>
    OBVIOUS
  <2>3. [disk[f] EXCEPT ![2] = y] = <<"whole", y>>
    <3>1. [<<"whole", x>> EXCEPT ![2] = y] = <<"whole", y>>
      BY <2>2
    <3> QED
      BY <1>4, <3>1
  <2> QED
    BY <2>1, <2>3
<1>7. /\ DOMAIN disk' = DOMAIN disk /\ disk'[f] = <<"whole", y>>
      /\ \A g \in DOMAIN disk : g # f => disk'[g] = disk[g]
  BY <1>6
<1>8. rot' # 0 /\ rot' \in Nat
  BY <1>1 DEF LifecycleInv
<1>9. DiskInv'
  <2>1. ASSUME NEW g \in DOMAIN disk', disk'[g] # Torn
        PROVE  disk'[g] = Whole(disk'[g][2]) /\ EntryOK(g, disk'[g][2])
    <3>1. CASE g = f
      BY <1>2, <1>4, <1>5, <1>7, <3>1 DEF Whole, EntryOK
    <3>2. CASE g # f
      BY <1>7, <2>1, <3>2 DEF LifecycleInv, DiskInv
    <3> QED
      BY <3>1, <3>2
  <2> QED
    BY <1>8, <2>1 DEF DiskInv
<1>10. SignInv'
  <2>1. ASSUME NEW i \in Images, Readable(limsig_path(i))'
        PROVE  (signed[i] = <<"tree", Bytes(limsig_path(i))[2].meta>>)'
    <3>1. limsig_path(i) # f
      BY <1>2 DEF limsig_path
    <3>2. Readable(limsig_path(i)) /\ Bytes(limsig_path(i))' = Bytes(limsig_path(i))
      BY <1>7, <2>1, <3>1 DEF Readable, Exists, Bytes
    <3> QED
      BY <1>1, <3>2 DEF LifecycleInv, SignInv
  <2> QED
    BY <2>1 DEF SignInv
<1>11. ProcInv'
  BY <1>1 DEF LifecycleInv, ProcInv
<1> QED
  BY <1>1, <1>8, <1>9, <1>10, <1>11 DEF LifecycleInv

----------------------------------------------------------------------------
(* Reading an image back.                                                  *)

LEMMA DecodeFacts ==
  ASSUME NEW r, NEW d
  PROVE  /\ \A dicts : r.state # "sound" => Decode(r, d, dicts) = r.state
         /\ \A dicts : r.state = "sound" /\ r.dict \in {None, dicts} => Decode(r, d, dicts) = d
         /\ r.state = "sound" /\ r.dict # None => Decode(r, d, None) = Error
BY DEF Decode

\* A drop of an image's source is a record of one of its slabs, decoded with
\* the dictionaries of the image.
LEMMA SourceFacts ==
  ASSUME NEW m, IsSequence(m.slabs), Source(m).ok
  PROVE  /\ load_mmap(m).ok
         /\ \A k \in DOMAIN m.slabs : Readable(m.slabs[k])
         /\ DOMAIN Source(m).drops
              = UNION {DOMAIN Bytes(m.slabs[k]).records : k \in DOMAIN m.slabs}
         /\ \A d \in DOMAIN Source(m).drops : \E k \in DOMAIN m.slabs :
              /\ d \in DOMAIN Bytes(m.slabs[k]).records
              /\ Source(m).drops[d] = Decode(Bytes(m.slabs[k]).records[d], d, m.dicts)
<1> DEFINE stored(k) == DOMAIN Bytes(m.slabs[k]).records
           holders(d) == {k \in DOMAIN m.slabs : d \in stored(k)}
           latest(d) == CHOOSE k \in holders(d) : \A j \in holders(d) : j <= k
           drops == [d \in UNION {stored(k) : k \in DOMAIN m.slabs} |->
                       Bytes(m.slabs[latest(d)]).records[d]]
           readable == \A k \in DOMAIN m.slabs : Readable(m.slabs[k])
           store == load_mmap(m)
<1>1. store = IF readable THEN [ok |-> TRUE, drops |-> drops] ELSE [ok |-> FALSE]
  BY DEF load_mmap
<1>2. Source(m) = IF store.ok
                  THEN [ok |-> TRUE,
                        drops |-> [d \in DOMAIN store.drops |-> Decode(store.drops[d], d, m.dicts)]]
                  ELSE store
  BY DEF Source
<1> HIDE DEF readable, store
<1>3. store.ok
  <2> HIDE DEF drops
  <2> QED
    BY <1>1, <1>2
<1>4. readable /\ store.drops = drops
  <2> HIDE DEF drops
  <2> QED
    BY <1>1, <1>3
<1>5. Source(m).drops = [d \in DOMAIN drops |-> Decode(drops[d], d, m.dicts)]
  <2> HIDE DEF drops
  <2> QED
    BY <1>2, <1>3, <1>4
<1>6. ASSUME NEW d \in DOMAIN drops PROVE latest(d) \in holders(d)
  <2>1. Len(m.slabs) \in Nat /\ DOMAIN m.slabs = 1..Len(m.slabs)
    BY DEF IsSequence
  <2> DEFINE T == holders(d)
  <2>2. T # {} /\ T \subseteq 0..Len(m.slabs)
    BY <2>1
  <2> HIDE DEF T
  <2>3. \E k \in T : \A j \in T : j <= k
    BY <2>1, <2>2, GreatestNatural
  <2> QED
    BY <2>3 DEF T
<1> HIDE DEF latest
<1>7. DOMAIN drops = UNION {stored(k) : k \in DOMAIN m.slabs}
  OBVIOUS
<1>8. \A d \in DOMAIN drops : drops[d] = Bytes(m.slabs[latest(d)]).records[d]
  OBVIOUS
<1> HIDE DEF drops
<1>9. DOMAIN Source(m).drops = DOMAIN drops
  BY <1>5
<1>10. \A d \in DOMAIN drops : /\ latest(d) \in DOMAIN m.slabs
                               /\ d \in DOMAIN Bytes(m.slabs[latest(d)]).records
  BY <1>6
<1>11. \A d \in DOMAIN drops :
         Source(m).drops[d] = Decode(Bytes(m.slabs[latest(d)]).records[d], d, m.dicts)
  BY <1>5, <1>8
<1> QED
  BY <1>3, <1>4, <1>7, <1>9, <1>10, <1>11 DEF readable, store

\* The slabs of a manifest that are on disk hold no drop whose id is an error,
\* and while no drop has rotted, only drops compressed with the dictionaries the
\* manifest lists, or listed before it was cut.
LEMMA SlabOnDisk ==
  ASSUME DiskInv, NEW m, ManifestOK(m), NEW k \in DOMAIN m.slabs, Readable(m.slabs[k])
  PROVE  /\ Error \notin DOMAIN Bytes(m.slabs[k]).records
         /\ rot = 0 => \E dict :
              /\ m.dicts \in {None, dict} /\ (Uncut(m) => dict = m.dicts)
              /\ \A d \in DOMAIN Bytes(m.slabs[k]).records : Bytes(m.slabs[k]).records[d] = Record(dict)
<1> DEFINE f == m.slabs[k]
<1>1. PICK dict : /\ f[1] = "slab" /\ SlabOK(f[2], dict)
                  /\ m.dicts \in {None, dict} /\ (Uncut(m) => dict = m.dicts)
  <2>1. f[1] = "slab"
    BY DEF ManifestOK, SlabName
  <2>2. CASE Uncut(m)
    BY <2>1, <2>2 DEF Uncut
  <2>3. CASE ~Uncut(m)
    BY <2>1, <2>3 DEF ManifestOK
  <2> QED
    BY <2>2, <2>3
<1> HIDE DEF f
<1>2. EntryOK(f, Bytes(f)) /\ (rot = 0 => Pristine(f, Bytes(f)))
  BY DEF DiskInv, Readable, Exists, Bytes, f
<1>3. Error \notin DOMAIN Bytes(f).records
  BY <1>1, <1>2 DEF EntryOK
<1>4. ASSUME rot = 0, NEW d \in DOMAIN Bytes(f).records
      PROVE  Bytes(f).records[d] = Record(dict)
  BY <1>1, <1>2, <1>4 DEF Pristine, SlabOK
<1> QED
  BY <1>1, <1>3, <1>4 DEF f

LEMMA FirstHit ==
  ASSUME NEW n \in Nat, NEW chain, DOMAIN chain = 1..n, NEW d,
         NEW good, \A k \in 1..n : d \in DOMAIN chain[k].drops => chain[k].drops[d] \in good
  PROVE  /\ Plaintext(chain, d) \in good \cup {Error}
         /\ (\E k \in 1..n : d \in DOMAIN chain[k].drops) => Plaintext(chain, d) \in good
<1> DEFINE hits == {k \in DOMAIN chain : d \in DOMAIN chain[k].drops}
           first == CHOOSE k \in hits : \A j \in hits : k <= j
<1>1. hits # {} => Plaintext(chain, d) = chain[first].drops[d]
  BY DEF Plaintext
<1>2. hits = {} => Plaintext(chain, d) = Error
  BY DEF Plaintext
<1>3. hits # {} => first \in hits
  <2> DEFINE T == hits
  <2>1. T \subseteq Nat
    OBVIOUS
  <2> HIDE DEF T
  <2>2. T # {} => \E k \in T : \A j \in T : k <= j
    BY <2>1, LeastNatural
  <2> QED
    BY <2>2 DEF T
<1> HIDE DEF first
<1>4. hits # {} => chain[first].drops[d] \in good
  BY <1>3
<1>5. (\E k \in 1..n : d \in DOMAIN chain[k].drops) => hits # {}
  OBVIOUS
<1> HIDE DEF hits
<1> QED
  BY <1>1, <1>2, <1>4, <1>5

\* While no drop has rotted, an image's source has the drops its slabs' names
\* promise, and each decodes to itself or fails: the slabs were written with the
\* dictionaries the manifest lists, or listed before it was cut.
LEMMA SoundSource ==
  ASSUME DiskInv, rot = 0, NEW m, ManifestOK(m), Source(m).ok
  PROVE  /\ DOMAIN Source(m).drops = Stored(m.slabs)
         /\ \A d \in DOMAIN Source(m).drops : Source(m).drops[d] \in {d, Error}
         /\ Uncut(m) => \A d \in DOMAIN Source(m).drops : Source(m).drops[d] = d
<1>1. IsSequence(m.slabs)
  BY DEF ManifestOK
<1>2. ASSUME NEW k \in DOMAIN m.slabs
      PROVE  DOMAIN Bytes(m.slabs[k]).records = DOMAIN m.slabs[k][2].records
  <2> DEFINE f == m.slabs[k]
  <2>1. f[1] = "slab"
    BY DEF ManifestOK, SlabName
  <2>2. Readable(f)
    BY <1>1, SourceFacts
  <2> HIDE DEF f
  <2>3. Bytes(f) = f[2]
    BY <2>1, <2>2 DEF DiskInv, Readable, Exists, Bytes, Pristine
  <2> QED
    BY <2>3 DEF f
<1>3. DOMAIN Source(m).drops = Stored(m.slabs)
  <2>1. DOMAIN Source(m).drops = UNION {DOMAIN Bytes(m.slabs[k]).records : k \in DOMAIN m.slabs}
    BY <1>1, SourceFacts
  <2> QED
    BY <1>2, <2>1 DEF Stored
<1>4. ASSUME NEW d \in DOMAIN Source(m).drops
      PROVE  Source(m).drops[d] \in {d, Error} /\ (Uncut(m) => Source(m).drops[d] = d)
  <2>1. PICK k \in DOMAIN m.slabs :
          /\ d \in DOMAIN Bytes(m.slabs[k]).records
          /\ Source(m).drops[d] = Decode(Bytes(m.slabs[k]).records[d], d, m.dicts)
    BY <1>1, SourceFacts
  <2>2. Readable(m.slabs[k])
    BY <1>1, SourceFacts
  <2>3. PICK dict : /\ m.dicts \in {None, dict} /\ (Uncut(m) => dict = m.dicts)
                    /\ Bytes(m.slabs[k]).records[d] = Record(dict)
    BY <2>1, <2>2, SlabOnDisk
  <2>4. Record(dict).state = "sound" /\ Record(dict).dict = dict
    BY DEF Record
  <2>5. /\ Decode(Record(dict), d, dict) = d
        /\ dict # None => Decode(Record(dict), d, None) = Error
    BY <2>4, DecodeFacts
  <2> QED
    BY <2>1, <2>3, <2>5
<1> QED
  BY <1>3, <1>4

\* The chain of an image and at most one base.
LEMMA ChainFacts ==
  ASSUME NEW i, NEW b
  PROVE  /\ DOMAIN load_slab_chain(i, <<>>) = 1..1
         /\ load_slab_chain(i, <<>>)[1] = Source(Manifest(i))
         /\ DOMAIN load_slab_chain(i, <<b>>) = 1..2
         /\ load_slab_chain(i, <<b>>)[1] = Source(Manifest(i))
         /\ load_slab_chain(i, <<b>>)[2] = Source(Manifest(b))
<1> DEFINE one == <<i>> \o <<>>
           two == <<i>> \o <<b>>
<1>1. DOMAIN one = 1..1 /\ one[1] = i
  <2>1. one = <<i>>
    OBVIOUS
  <2> HIDE DEF one
  <2> QED
    BY <2>1
<1>2. DOMAIN two = 1..2 /\ two[1] = i /\ two[2] = b
  <2>1. <<i>> \in Seq({i, b}) /\ <<b>> \in Seq({i, b}) /\ Len(<<i>>) = 1 /\ Len(<<b>>) = 1
        /\ <<i>>[1] = i /\ <<b>>[1] = b
    OBVIOUS
  <2>2. ASSUME NEW S, NEW s \in Seq(S), NEW t \in Seq(S), Len(s) = 1, Len(t) = 1
        PROVE  DOMAIN (s \o t) = 1..2 /\ (s \o t)[1] = s[1] /\ (s \o t)[2] = t[1]
    <3>1. s \o t \in Seq(S) /\ Len(s \o t) = 2
      BY SMTT(30), <2>2
    <3>2. (s \o t)[1] = s[1]
      BY <2>2
    <3>3. (s \o t)[2] = t[1]
      <4>1. \A k \in 1..(Len(s) + Len(t)) : k > Len(s) => (s \o t)[k] = t[k - Len(s)]
        OBVIOUS
      <4>2. 2 \in 1..(Len(s) + Len(t)) /\ 2 > Len(s) /\ 2 - Len(s) = 1
        BY <2>2
      <4> QED
        BY <4>1, <4>2
    <3> QED
      BY <3>1, <3>2, <3>3
  <2> QED
    BY <2>1, <2>2
<1>3. /\ load_slab_chain(i, <<>>) = [k \in DOMAIN one |-> Source(Manifest(one[k]))]
      /\ load_slab_chain(i, <<b>>) = [k \in DOMAIN two |-> Source(Manifest(two[k]))]
  BY DEF load_slab_chain
<1> HIDE DEF one, two
<1> QED
  BY <1>1, <1>2, <1>3

\* An extraction is exact when every chunk referred to reads back.
LEMMA ExactExtract ==
  ASSUME NEW i, NEW bases, MetadataReadable(i), BlobOK(load_image(i)),
         \A k \in DOMAIN bases : Readable(ImageFileOf(bases[k])),
         \A k \in DOMAIN load_slab_chain(i, bases) : load_slab_chain(i, bases)[k].ok,
         \A d \in Referenced(load_image(i)) : Plaintext(load_slab_chain(i, bases), d) = d
  PROVE  /\ extract(i, bases).ok /\ extract(i, bases).exact
         /\ extract(i, bases).tree = [p \in DOMAIN load_image(i) |-> load_image(i)[p][2]]
<1> DEFINE blob == load_image(i)
           chain == load_slab_chain(i, bases)
           out == [p \in DOMAIN blob |-> Chunks(blob[p], chain)]
           tree == [p \in DOMAIN blob |-> Written(out[p])]
<1>1. extract(i, bases) = [ok    |-> \A p \in FirstFile(blob) : ~Failed(out[p]),
                           exact |-> \A p \in DOMAIN blob : out[p] = blob[p][2],
                           tree  |-> tree]
  BY DEF extract
<1>2. BlobOK(blob) /\ \A d \in Referenced(blob) : Plaintext(chain, d) = d
  OBVIOUS
<1> HIDE DEF blob, chain
<1>3. ASSUME NEW p \in DOMAIN blob
      PROVE  out[p] = blob[p][2] /\ ~Failed(out[p]) /\ Written(out[p]) = blob[p][2]
  <2> DEFINE h == blob[p][2]
  <2>1. IsSequence(h) /\ Error \notin ToSet(h) /\ blob[p][1] \in {"Inline", "SliceMap"}
    BY <1>2 DEF BlobOK
  <2>2. CASE blob[p][1] = "Inline"
    BY <2>1, <2>2 DEF Chunks, Failed, Written
  <2>3. CASE blob[p][1] = "SliceMap"
    <3>1. ToSet(h) \subseteq Referenced(blob)
      BY <2>3 DEF Referenced
    <3>2. \A k \in DOMAIN h : Plaintext(chain, h[k]) = h[k]
      BY <1>2, <3>1 DEF ToSet
    <3>3. Chunks(blob[p], chain) = [k \in DOMAIN h |-> Plaintext(chain, h[k])]
      BY <2>3 DEF Chunks
    <3>4. h = [k \in DOMAIN h |-> h[k]]
      BY <2>1 DEF IsSequence
    <3> HIDE DEF h
    <3>5. Chunks(blob[p], chain) = h
      BY <3>2, <3>3, <3>4
    <3> QED
      BY <2>1, <3>5 DEF Failed, Written, h
  <2> QED
    BY <2>1, <2>2, <2>3
<1>4. FirstFile(blob) \subseteq DOMAIN blob
  BY DEF FirstFile
<1>5. tree = [p \in DOMAIN blob |-> blob[p][2]]
  BY <1>3
<1> HIDE DEF out, tree
<1> QED
  BY <1>1, <1>3, <1>4, <1>5 DEF blob

----------------------------------------------------------------------------
(* The commands keep their promises.                                       *)

LEMMA SlabOfDrop ==
  ASSUME NEW c \in Nat, c > 0, NEW n \in Nat, NEW j \in 1..n
  PROVE  (j - 1) \div c + 1 \in 1..((n + c - 1) \div c)
<1> DEFINE q == (j - 1) \div c
           r == (n + c - 1) \div c
<1>1. q \in Int /\ r \in Int /\ c * q <= j - 1 /\ n + c - 1 < c * r + c /\ q >= 0
  OBVIOUS
<1> HIDE DEF q, r
<1>2. c * q < c * r
  BY <1>1
<1>3. q < r
  BY <1>1, <1>2
<1>4. q + 1 \in 1..r
  BY <1>1, <1>3
<1> QED
  BY <1>4 DEF q, r

\* Every drop is in a slab.
LEMMA SlabsStore ==
  ASSUME NEW drops, IsSequence(drops), NEW dict, NEW d \in ToSet(drops)
  PROVE  \E k \in DOMAIN Slabs(drops, dict) : d \in DOMAIN Slabs(drops, dict)[k].records
<1>1. Len(drops) \in Nat /\ DOMAIN drops = 1..Len(drops)
  BY DEF IsSequence
<1>2. PICK j \in 1..Len(drops) : d = drops[j]
  BY <1>1 DEF ToSet
<1> DEFINE k == (j - 1) \div SlabCap + 1
           n == (Len(drops) + SlabCap - 1) \div SlabCap
<1>3. k \in 1..n
  <2>1. SlabCap \in Nat /\ SlabCap > 0
    BY LifecycleAssumption
  <2> DEFINE l == Len(drops)
  <2>2. l \in Nat /\ j \in 1..l
    BY <1>1
  <2> HIDE DEF l
  <2>3. (j - 1) \div SlabCap + 1 \in 1..((l + SlabCap - 1) \div SlabCap)
    BY <2>1, <2>2, SlabOfDrop
  <2> QED
    BY <2>3 DEF l
<1>4. (j - 1) \div SlabCap = k - 1
  BY LifecycleAssumption
<1> HIDE DEF k
<1>5. Slabs(drops, dict) = [x \in 1..n |-> Slab(x, drops, dict)]
  BY DEF Slabs
<1>6. d \in DOMAIN Slab(k, drops, dict).records
  BY <1>1, <1>2, <1>4 DEF Slab
<1> HIDE DEF n
<1> QED
  BY <1>3, <1>5, <1>6

\* What Assembled returns, and what is left of it when more is appended.
ImagePlan(files, out, tree, own) ==
  /\ IsSequence(files) /\ 1 \in DOMAIN files
  /\ files[1][1] = ImageFileOf(out)
  /\ files[1][2].meta = Metadata(tree)
  /\ Uncut(files[1][2]) /\ ToSet(own) \subseteq Stored(files[1][2].slabs)
  /\ \A k \in DOMAIN files : k # 1 => files[k][1][1] # "image"
  /\ \A k \in DOMAIN files : k # Len(files) => files[k][1][1] # "sig"
  /\ \A name \in Needs(files[1][2]) : \E j \in DOMAIN files : j > 1 /\ files[j][1] = name

\* u is s followed by t.
Joins(u, s, t) ==
  /\ IsSequence(u) /\ DOMAIN u = 1..(Len(s) + Len(t))
  /\ Len(u) = Len(s) + Len(t) /\ Len(s) \in Nat /\ Len(t) \in Nat
  /\ DOMAIN s = 1..Len(s) /\ DOMAIN t = 1..Len(t)
  /\ \A k \in 1..Len(s) : u[k] = s[k]
  /\ \A k \in 1..Len(t) : u[Len(s) + k] = t[k]

LEMMA ConcatFacts ==
  ASSUME NEW s, IsSequence(s), NEW t, IsSequence(t)
  PROVE  Joins(s \o t, s, t)
<1> DEFINE S == ToSet(s) \cup ToSet(t)
<1>1. s \in Seq(S) /\ t \in Seq(S)
  BY SequenceIn
<1> HIDE DEF S
<1>2. s \o t \in Seq(S) /\ Len(s \o t) = Len(s) + Len(t)
  BY <1>1
<1>3. IsSequence(s \o t)
  BY <1>2, SequenceOf
<1>4. DOMAIN (s \o t) = 1..(Len(s) + Len(t))
  BY <1>2
<1>5. Len(s) \in Nat /\ Len(t) \in Nat /\ DOMAIN s = 1..Len(s) /\ DOMAIN t = 1..Len(t)
  BY <1>1
<1>6. \A k \in 1..Len(s) : (s \o t)[k] = s[k]
  BY <1>1
<1>7. ASSUME NEW k \in 1..Len(t) PROVE (s \o t)[Len(s) + k] = t[k]
  <2>1. \A x \in 1..(Len(s) + Len(t)) : x > Len(s) => (s \o t)[x] = t[x - Len(s)]
    BY <1>1
  <2>2. Len(s) + k \in 1..(Len(s) + Len(t)) /\ Len(s) + k > Len(s) /\ (Len(s) + k) - Len(s) = k
    BY <1>5
  <2> QED
    BY <2>1, <2>2
<1> QED
  BY <1>2, <1>3, <1>4, <1>5, <1>6, <1>7 DEF Joins

\* Files that are no manifest may follow; only the last may be a signature.
LEMMA ExtendPlan ==
  ASSUME NEW files, NEW out, NEW tree, NEW own, ImagePlan(files, out, tree, own),
         \A k \in DOMAIN files : files[k][1][1] # "sig",
         NEW rest, IsSequence(rest), \A k \in DOMAIN rest : rest[k][1][1] # "image",
         \A k \in DOMAIN rest : k # Len(rest) => rest[k][1][1] # "sig"
  PROVE  ImagePlan(files \o rest, out, tree, own)
<1>0. IsSequence(files)
  BY DEF ImagePlan
<1> DEFINE u == files \o rest
           n == Len(files)
           l == Len(rest)
<1>1. /\ IsSequence(u) /\ DOMAIN u = 1..(n + l) /\ Len(u) = n + l /\ n \in Nat /\ l \in Nat
      /\ DOMAIN files = 1..n /\ DOMAIN rest = 1..l
      /\ \A k \in 1..n : u[k] = files[k]
      /\ \A k \in 1..l : u[n + k] = rest[k]
  BY <1>0, ConcatFacts DEF Joins
<1> HIDE DEF u, n, l
<1>2. ASSUME NEW k \in DOMAIN u, k \notin 1..n
      PROVE  k - n \in 1..l /\ u[k] = rest[k - n]
  <2>1. k - n \in 1..l /\ n + (k - n) = k
    BY <1>1, <1>2
  <2> QED
    BY <1>1, <2>1
<1>3. 1 \in 1..n /\ 1 \in DOMAIN u /\ u[1] = files[1]
  BY <1>1 DEF ImagePlan
<1>4. \A k \in DOMAIN u : k # 1 => u[k][1][1] # "image"
  BY <1>1, <1>2 DEF ImagePlan
<1>5. ASSUME NEW k \in DOMAIN u, k # Len(u) PROVE u[k][1][1] # "sig"
  <2>1. CASE k \in 1..n
    BY <1>1, <2>1
  <2>2. CASE k \notin 1..n
    <3>1. k - n # l
      BY <1>1, <1>5
    <3> QED
      BY <1>1, <1>2, <2>2, <3>1 DEF l
  <2> QED
    BY <2>1, <2>2
<1>6. ASSUME NEW name \in Needs(u[1][2]) PROVE \E j \in DOMAIN u : j > 1 /\ u[j][1] = name
  <2>1. PICK j \in DOMAIN files : j > 1 /\ files[j][1] = name
    BY <1>3, <1>6 DEF ImagePlan
  <2>2. j \in DOMAIN u /\ u[j] = files[j]
    BY <1>1
  <2> QED
    BY <2>1, <2>2
<1>7. ImagePlan(u, out, tree, own)
  BY <1>1, <1>3, <1>4, <1>5, <1>6 DEF ImagePlan
<1> QED
  BY <1>7 DEF u

LEMMA AssembledPlan ==
  ASSUME NEW out, NEW tree, TreeOK(tree), NEW profile,
         NEW own, IsSequence(own), Error \notin ToSet(own), NEW dict, NEW root
  PROVE  ImagePlan(Assembled(out, tree, profile, own, dict, root), out, tree, own)
<1> DEFINE slabs == Slabs(own, dict)
           names == [k \in DOMAIN slabs |-> SlabName(slabs[k])]
           blob == Metadata(tree)
           m == [meta |-> blob, ext |-> profile.ext, slabs |-> names,
                 dicts |-> dict, base |-> root, history |-> "build"]
           first == <<<<ImageFileOf(out), m>>>>
           middle == [k \in DOMAIN slabs |-> <<names[k], slabs[k]>>]
           last == IF profile.ext THEN <<<<SidecarName(blob), blob>>>> ELSE <<>>
           rest == middle \o last
<1>1. IsSequence(slabs) /\ \A k \in DOMAIN slabs : SlabOK(slabs[k], dict)
  BY SlabsOK
<1>2. ASSUME NEW d \in ToSet(own) PROVE \E k \in DOMAIN slabs : d \in DOMAIN slabs[k].records
  BY SlabsStore
<1> HIDE DEF slabs, blob
<1>3. DOMAIN slabs = 1..Len(slabs) /\ Len(slabs) \in Nat
  BY <1>1 DEF IsSequence
<1>4. /\ IsSequence(first) /\ Len(first) = 1
      /\ IsSequence(middle) /\ DOMAIN middle = DOMAIN slabs /\ Len(middle) = Len(slabs)
      /\ IsSequence(last) /\ (profile.ext => Len(last) = 1)
  <2>1. IsSequence(first) /\ Len(first) = 1
    <3>1. first \in Seq({<<ImageFileOf(out), m>>}) /\ Len(first) = 1
      OBVIOUS
    <3> HIDE DEF first
    <3> QED
      BY <3>1, SequenceOf
  <2>2. DOMAIN middle = 1..Len(slabs) /\ middle = [k \in 1..Len(slabs) |-> middle[k]]
    BY <1>3
  <2>3. IsSequence(middle) /\ Len(middle) = Len(slabs)
    <3> HIDE DEF middle
    <3>1. IsSequence(middle)
      BY <1>3, <2>2, TabulatedSequence
    <3> QED
      BY <1>3, <2>2, <3>1 DEF IsSequence
  <2>4. CASE profile.ext
    <3>1. last \in Seq({<<SidecarName(blob), blob>>}) /\ Len(last) = 1
      BY <2>4
    <3>2. IsSequence(last)
      BY <3>1, SequenceOf
    <3> QED
      BY <1>3, <2>1, <2>2, <2>3, <3>1, <3>2
  <2>5. CASE ~profile.ext
    <3>1. IsSequence(last)
      BY <2>5, NoFile DEF PlanOK
    <3> QED
      BY <1>3, <2>1, <2>2, <2>3, <2>5, <3>1
  <2> QED
    BY <2>4, <2>5
<1>5. /\ first[1][1] = ImageFileOf(out) /\ first[1][2] = m
      /\ m.meta = blob /\ m.slabs = names /\ (m.ext <=> profile.ext)
      /\ m.dicts = dict
  OBVIOUS
<1>6. ASSUME NEW k \in DOMAIN slabs
      PROVE  middle[k][1] = names[k] /\ names[k] = SlabName(slabs[k])
  OBVIOUS
<1>7. profile.ext => last[1][1] = SidecarName(blob)
  OBVIOUS
<1>8. \A k \in DOMAIN last : last[k][1][1] = "meta"
  BY DEF SidecarName
<1>9. \A k \in DOMAIN middle : middle[k][1][1] = "slab"
  BY DEF SlabName
<1>10. DOMAIN names = DOMAIN slabs
  OBVIOUS
<1> HIDE DEF m, first, middle, last, names
<1>11. /\ IsSequence(rest) /\ DOMAIN rest = 1..(Len(middle) + Len(last))
       /\ Len(middle) \in Nat /\ Len(last) \in Nat
       /\ DOMAIN middle = 1..Len(middle) /\ DOMAIN last = 1..Len(last)
       /\ \A k \in 1..Len(middle) : rest[k] = middle[k]
       /\ \A k \in 1..Len(last) : rest[Len(middle) + k] = last[k]
       /\ FromBoth(rest, middle, last)
  <2>1. Joins(rest, middle, last)
    BY <1>4, ConcatFacts
  <2>2. FromBoth(rest, middle, last)
    BY <1>4, ConcatSequences
  <2> HIDE DEF rest
  <2> QED
    BY <2>1, <2>2 DEF Joins
<1>12. \A k \in DOMAIN rest : rest[k][1][1] \in {"slab", "meta"}
  BY <1>8, <1>9, <1>11 DEF FromBoth
<1>13. ASSUME NEW name \in Needs(m) PROVE \E j \in DOMAIN rest : rest[j][1] = name
  <2>1. CASE \E k \in DOMAIN m.slabs : name = m.slabs[k]
    <3>1. PICK k \in DOMAIN slabs : name = names[k]
      BY <1>5, <1>10, <2>1
    <3>2. k \in 1..Len(middle) /\ k \in DOMAIN rest
      BY <1>4, <1>11
    <3> QED
      BY <1>6, <1>11, <3>1, <3>2
  <2>2. CASE m.ext /\ name = SidecarName(m.meta)
    <3>1. 1 \in 1..Len(last) /\ Len(middle) + 1 \in DOMAIN rest
      BY <1>4, <1>5, <1>11, <2>2
    <3> QED
      BY <1>5, <1>7, <1>11, <2>2, <3>1
  <2> QED
    BY <1>13, <2>1, <2>2 DEF Needs
<1>14. ToSet(own) \subseteq Stored(m.slabs)
  <2>1. ASSUME NEW d \in ToSet(own) PROVE d \in Stored(m.slabs)
    <3>1. PICK k \in DOMAIN slabs : d \in DOMAIN slabs[k].records
      BY <1>2
    <3>2. k \in DOMAIN m.slabs /\ m.slabs[k][2] = slabs[k]
      BY <1>5, <1>6, <1>10 DEF SlabName
    <3> QED
      BY <3>1, <3>2 DEF Stored
  <2> QED
    BY <2>1
<1> DEFINE u == first \o rest
<1> HIDE DEF rest
<1>15. /\ IsSequence(u) /\ DOMAIN u = 1..(1 + Len(rest)) /\ Len(rest) \in Nat
       /\ DOMAIN rest = 1..Len(rest)
       /\ u[1] = first[1] /\ \A k \in 1..Len(rest) : u[1 + k] = rest[k]
  <2>1. Joins(u, first, rest)
    BY <1>4, <1>11, ConcatFacts
  <2> HIDE DEF u
  <2> QED
    BY <1>4, <2>1 DEF Joins
<1> HIDE DEF u
<1>16. ASSUME NEW k \in DOMAIN u, k # 1
       PROVE  k - 1 \in DOMAIN rest /\ u[k] = rest[k - 1]
  <2>1. k - 1 \in 1..Len(rest) /\ 1 + (k - 1) = k
    BY <1>15, <1>16
  <2> QED
    BY <1>15, <2>1
<1>17. \A k \in DOMAIN u : k # 1 => u[k][1][1] \in {"slab", "meta"}
  BY <1>12, <1>16
<1>18. u[1][1][1] = "image"
  BY <1>5, <1>15 DEF ImageFileOf
<1>19. ASSUME NEW name \in Needs(m) PROVE \E j \in DOMAIN u : j > 1 /\ u[j][1] = name
  <2>1. PICK j \in DOMAIN rest : rest[j][1] = name
    BY <1>13
  <2>2. j \in 1..Len(rest) /\ 1 + j \in DOMAIN u /\ 1 + j > 1
    BY <1>15
  <2> QED
    BY <1>15, <2>1, <2>2
<1>20. ImagePlan(u, out, tree, own)
  <2>1. 1 \in DOMAIN u
    BY <1>15
  <2>2. u[1][1] = ImageFileOf(out) /\ u[1][2] = m /\ m.meta = Metadata(tree)
    BY <1>5, <1>15 DEF blob
  <2>3. Uncut(m)
    <3>1. \A k \in DOMAIN m.slabs : k \in DOMAIN slabs /\ m.slabs[k][2] = slabs[k]
      BY <1>5, <1>6, <1>10 DEF SlabName
    <3> QED
      BY <1>1, <1>5, <3>1 DEF Uncut
  <2> QED
    BY <1>14, <1>15, <1>17, <1>18, <1>19, <2>1, <2>2, <2>3 DEF ImagePlan
<1>21. Assembled(out, tree, profile, own, dict, root) = (first \o middle) \o last
  BY DEF Assembled, first, middle, last, m, names, slabs, blob
<1>22. (first \o middle) \o last = first \o (middle \o last)
  <2> DEFINE S == ToSet(first) \cup ToSet(middle) \cup ToSet(last)
  <2>1. first \in Seq(S) /\ middle \in Seq(S) /\ last \in Seq(S)
    BY <1>4, SequenceIn
  <2> HIDE DEF S
  <2> QED
    BY <2>1
<1> QED
  BY <1>20, <1>21, <1>22 DEF u, rest

LEMMA DirectoryPlan ==
  ASSUME NEW out, NEW tree, TreeOK(tree), NEW profile
  PROVE  /\ ImagePlan(write_directory(out, tree, profile), out, tree, DropsOf(Metadata(tree), {}))
         /\ Referenced(Metadata(tree)) \subseteq ToSet(DropsOf(Metadata(tree), {}))
<1> DEFINE own == DropsOf(Metadata(tree), {})
           dict == IF profile.dict /\ own # <<>> THEN Trained(tree) ELSE None
<1>1. /\ IsSequence(own) /\ Error \notin ToSet(own)
      /\ Referenced(Metadata(tree)) \subseteq ToSet(own)
  BY MetadataOK, DropsOfFacts
<1>2. write_directory(out, tree, profile) = Assembled(out, tree, profile, own, dict, None)
  BY DEF write_directory
<1> HIDE DEF own, dict
<1>3. ImagePlan(Assembled(out, tree, profile, own, dict, None), out, tree, own)
  BY <1>1, AssembledPlan
<1> QED
  BY <1>1, <1>2, <1>3 DEF own

LEMMA LayerPlan ==
  ASSUME NEW out, NEW tree, TreeOK(tree), NEW profile, NEW m, NEW has, NEW fp
  PROVE  \E own : /\ ImagePlan(write_layer(out, tree, profile, m, has, fp), out, tree, own)
                  /\ Referenced(Metadata(tree)) \subseteq has \cup ToSet(own)
<1> DEFINE own == DropsOf(Metadata(tree), has)
           dict == IF profile.dict /\ own # <<>> THEN adopt_from_section(m, tree) ELSE None
           files == Assembled(out, tree, profile, own, dict, Root(m))
           x == IF fp THEN AllDrops ELSE ToSet(own)
           rest == <<<<SparseFileOf(out), x>>>>
<1>1. /\ IsSequence(own) /\ Error \notin ToSet(own)
      /\ Referenced(Metadata(tree)) \subseteq has \cup ToSet(own)
  BY MetadataOK, DropsOfFacts
<1>2. write_layer(out, tree, profile, m, has, fp) = files \o rest
  BY DEF write_layer, emit_sparse_sidecar
<1> HIDE DEF own, dict
<1>3. ImagePlan(files, out, tree, own) /\ FilesOK(files)
  BY <1>1, AssembledPlan, AssembledOK
<1>4. rest \in Seq({<<SparseFileOf(out), x>>}) /\ \A k \in DOMAIN rest : rest[k][1][1] = "sparse"
  BY DEF SparseFileOf
<1> HIDE DEF files, rest
<1>5. IsSequence(rest)
  BY <1>4, SequenceOf
<1>6. ImagePlan(files \o rest, out, tree, own)
  <2>1. \A k \in DOMAIN files : files[k][1][1] # "sig"
    BY <1>3 DEF FilesOK
  <2> QED
    BY <1>3, <1>4, <1>5, <2>1, ExtendPlan
<1> QED
  BY <1>1, <1>2, <1>6

\* A plan for a tree keeps the promise of that tree.
LEMMA PlanIsKept ==
  ASSUME NEW files, NEW out, NEW tree, TreeOK(tree), NEW own, ImagePlan(files, out, tree, own),
         NEW has, Referenced(Metadata(tree)) \subseteq has \cup ToSet(own), NEW promise,
         promise.known =>
           /\ promise.tree = tree
           /\ promise.base # None => promise.base \in Images
           /\ has \subseteq (IF promise.base = None THEN {} ELSE Stored(promise.root[2].slabs))
  PROVE  PlanKeeps(files, out, promise)
<1> DEFINE m == files[1][2]
<1>1. Keeps(promise, m)
  <2>1. m.meta = Metadata(tree) /\ Uncut(m) /\ ToSet(own) \subseteq Stored(m.slabs)
    BY DEF ImagePlan
  <2> HIDE DEF m
  <2> DEFINE below == IF promise.base = None THEN {} ELSE Stored(promise.root[2].slabs)
  <2>2. promise.known => has \subseteq below
    OBVIOUS
  <2>3. promise.known => Referenced(m.meta) \subseteq Stored(m.slabs) \cup below
    <3> HIDE DEF below
    <3> QED
      BY <2>1, <2>2
  <2> QED
    BY <2>1, <2>3 DEF Keeps
<1> SUFFICES ASSUME NEW k \in DOMAIN files
             PROVE  /\ files[k][1][1] = "sig" => k = Len(files)
                    /\ files[k][1][1] = "image" =>
                         /\ files[k][1] = ImageFileOf(out) /\ Keeps(promise, files[k][2])
                         /\ \A name \in Needs(files[k][2]) :
                              \E j \in DOMAIN files : j > k /\ files[j][1] = name
  BY DEF PlanKeeps
<1>2. files[k][1][1] = "sig" => k = Len(files)
  BY DEF ImagePlan
<1>3. ASSUME files[k][1][1] = "image"
      PROVE  /\ files[k][1] = ImageFileOf(out) /\ Keeps(promise, files[k][2])
             /\ \A name \in Needs(files[k][2]) :
                  \E j \in DOMAIN files : j > k /\ files[j][1] = name
  <2>1. k = 1
    BY <1>3 DEF ImagePlan
  <2> QED
    BY <1>1, <2>1 DEF ImagePlan
<1> QED
  BY <1>2, <1>3

LEMMA DirectoryIsKept ==
  ASSUME NEW out, NEW tree, TreeOK(tree), NEW profile, NEW promise,
         promise.known => promise.tree = tree /\ promise.base = None
  PROVE  PlanKeeps(write_directory(out, tree, profile), out, promise)
<1>1. PICK own : /\ ImagePlan(write_directory(out, tree, profile), out, tree, own)
                 /\ Referenced(Metadata(tree)) \subseteq ToSet(own)
  BY DirectoryPlan
<1> DEFINE files == write_directory(out, tree, profile)
           none == {}
<1>2. /\ ImagePlan(files, out, tree, own) /\ Referenced(Metadata(tree)) \subseteq none \cup ToSet(own)
      /\ \A S : none \subseteq S
  BY <1>1
<1> HIDE DEF files, none
<1>3. promise.known =>
        /\ promise.tree = tree
        /\ promise.base # None => promise.base \in Images
        /\ none \subseteq (IF promise.base = None THEN {} ELSE Stored(promise.root[2].slabs))
  BY DEF none
<1>4. PlanKeeps(files, out, promise)
  BY <1>2, <1>3, PlanIsKept
<1> QED
  BY <1>4 DEF files

LEMMA StartKeeps ==
  ASSUME FaultlessInv, NEW p \in Procs, NEW i \in Images, NEW files, PlanOK(files),
         NEW promise, Ready(p), Start(p, i, files, promise),
         stops = 0 /\ rot = 0 => PlanKeeps(files, i, promise)
  PROVE  FaultlessInv'
<1>1. LifecycleInv'
  BY StartStep DEF FaultlessInv
<1>2. UNCHANGED <<disk, want, stops, rot>> /\ proc[p] = Idle
  BY DEF Start, Ready
<1>3. ASSUME stops' = 0, rot' = 0 PROVE KeepInv'
  <2>1. KeepInv /\ PlanKeeps(files, i, promise)
    BY <1>2, <1>3 DEF FaultlessInv
  <2> DEFINE r == [image |-> i, todo |-> files, promise |-> promise]
  <2>2. /\ proc' = [proc EXCEPT ![p] = r] /\ DOMAIN proc = Procs
        /\ r.image = i /\ r.todo = files /\ r.promise = promise
    BY DEF Start, FaultlessInv, LifecycleInv
  <2> HIDE DEF r
  <2>3. proc'[p] = r /\ \A q \in Procs : q # p => proc'[q] = proc[q]
    BY <2>2
  <2>4. \A q \in Procs : PlanKeeps(proc'[q].todo, proc'[q].image, proc'[q].promise)
    BY <2>1, <2>2, <2>3 DEF KeepInv
  <2>5. ASSUME NEW name, Pending(name) PROVE Pending(name)'
    <3>1. PICK q \in Procs : \E k \in DOMAIN proc[q].todo : proc[q].todo[k][1] = name
      BY <2>5 DEF Pending
    <3>2. q # p
      BY <1>2, <3>1 DEF Idle
    <3> QED
      BY <2>3, <3>1, <3>2 DEF Pending
  <2>6. \A f \in DOMAIN disk' : f[1] = "image" =>
          /\ Uncut(disk'[f][2])
          /\ \A name \in Needs(disk'[f][2]) : Exists(name)' \/ Pending(name)'
    BY <1>2, <2>1, <2>5 DEF KeepInv, Exists
  <2>7. /\ \A f \in DOMAIN disk' : disk'[f] # Torn
        /\ \A j \in DOMAIN want' : Exists(ImageFileOf(j))' /\ Keeps(want'[j], Manifest(j)')
    BY <1>2, <2>1 DEF KeepInv, Exists, Manifest, Bytes
  <2> QED
    BY <2>4, <2>6, <2>7 DEF KeepInv
<1> QED
  BY <1>1, <1>2, <1>3 DEF FaultlessInv

\* The drops of an image's slabs are those their names promise.
LEMMA LoadedDrops ==
  ASSUME DiskInv, rot = 0, NEW m, ManifestOK(m), load_mmap(m).ok
  PROVE  DOMAIN load_mmap(m).drops = Stored(m.slabs)
<1> DEFINE stored(k) == DOMAIN Bytes(m.slabs[k]).records
           holders(d) == {k \in DOMAIN m.slabs : d \in stored(k)}
           latest(d) == CHOOSE k \in holders(d) : \A j \in holders(d) : j <= k
           drops == [d \in UNION {stored(k) : k \in DOMAIN m.slabs} |->
                       Bytes(m.slabs[latest(d)]).records[d]]
           readable == \A k \in DOMAIN m.slabs : Readable(m.slabs[k])
<1>1. load_mmap(m) = IF readable THEN [ok |-> TRUE, drops |-> drops] ELSE [ok |-> FALSE]
  BY DEF load_mmap
<1>2. DOMAIN drops = UNION {stored(k) : k \in DOMAIN m.slabs}
  OBVIOUS
<1> HIDE DEF readable, drops
<1>3. readable /\ load_mmap(m).drops = drops
  BY <1>1
<1>4. ASSUME NEW k \in DOMAIN m.slabs PROVE stored(k) = DOMAIN m.slabs[k][2].records
  <2> DEFINE f == m.slabs[k]
  <2>1. f[1] = "slab"
    BY DEF ManifestOK, SlabName
  <2>2. Readable(f)
    BY <1>3 DEF readable
  <2> HIDE DEF f
  <2>3. Bytes(f) = f[2]
    BY <2>1, <2>2 DEF DiskInv, Readable, Exists, Bytes, Pristine
  <2> QED
    BY <2>3 DEF f
<1> HIDE DEF stored
<1>5. UNION {stored(k) : k \in DOMAIN m.slabs} = Stored(m.slabs)
  BY <1>4 DEF Stored
<1> QED
  BY <1>2, <1>3, <1>5

LEMMA CommandKeeps ==
  ASSUME FaultlessInv, NEW p \in Procs, Ready(p),
         \/ Limn(p) \/ Layer(p) \/ rw_add(p) \/ rw_delete(p) \/ turnover_cmd(p) \/ compact(p)
  PROVE  FaultlessInv'
<1>0. DiskInv
  BY DEF FaultlessInv, LifecycleInv
<1> DEFINE Clean == stops = 0 /\ rot = 0
           Started == \E i \in Images : \E files, promise :
                        /\ PlanOK(files) /\ Start(p, i, files, promise)
                        /\ Clean => PlanKeeps(files, i, promise)
<1>K. Clean => KeepInv
  BY DEF FaultlessInv
<1>1. ASSUME Limn(p) PROVE Started
  <2>1. PICK i \in Images, t \in Sources, pr \in Profiles :
          Start(p, i, write_directory(i, t, pr)
                        \o (IF pr.sign THEN <<<<limsig_path(i), None>>>> ELSE <<>>),
                Promise(t, None, None, TRUE))
    BY <1>1 DEF Limn
  <2> DEFINE files == write_directory(i, t, pr)
             rest == IF pr.sign THEN <<<<limsig_path(i), None>>>> ELSE <<>>
             promise == Promise(t, None, None, TRUE)
  <2>2. TreeOK(t) /\ FilesOK(files) /\ PlanOK(files)
    BY SourceTreeOK, WriteDirectoryOK DEF FilesOK
  <2>3. /\ EntryOK(limsig_path(i), None) /\ Pristine(limsig_path(i), None)
        /\ SigningOK(limsig_path(i), None)
    BY DEF EntryOK, Pristine, SigningOK, limsig_path
  <2>4. PlanOK(rest)
    BY <2>3, OneFile, NoFile
  <2>5. PICK own : /\ ImagePlan(files, i, t, own)
                   /\ Referenced(Metadata(t)) \subseteq ToSet(own)
    BY <2>2, DirectoryPlan
  <2>6. /\ \A k \in DOMAIN rest : rest[k][1][1] # "image"
        /\ \A k \in DOMAIN rest : k # Len(rest) => rest[k][1][1] # "sig"
    <3>1. CASE pr.sign
      <4>1. rest = <<<<limsig_path(i), None>>>> /\ DOMAIN rest = {1} /\ Len(rest) = 1
        BY <3>1
      <4> QED
        BY <4>1 DEF limsig_path
    <3>2. CASE ~pr.sign
      BY <3>2
    <3> QED
      BY <3>1, <3>2
  <2>7. promise.known /\ promise.tree = t /\ promise.base = None
    BY DEF Promise
  <2> HIDE DEF files, rest, promise
  <2>8. PlanOK(files \o rest)
    BY <2>2, <2>4, ConcatPlans
  <2>9. ImagePlan(files \o rest, i, t, own)
    <3>1. IsSequence(rest) /\ \A k \in DOMAIN files : files[k][1][1] # "sig"
      BY <2>2, <2>4 DEF PlanOK, FilesOK
    <3> QED
      BY <2>5, <2>6, <3>1, ExtendPlan
  <2>10. PlanKeeps(files \o rest, i, promise)
    <3> DEFINE none == {}
               u == files \o rest
    <3>1. /\ promise.known =>
               /\ promise.tree = t
               /\ promise.base # None => promise.base \in Images
               /\ none \subseteq (IF promise.base = None THEN {} ELSE Stored(promise.root[2].slabs))
          /\ Referenced(Metadata(t)) \subseteq none \cup ToSet(own)
      BY <2>5, <2>7
    <3>2. ImagePlan(u, i, t, own)
      BY <2>9
    <3> HIDE DEF none, u
    <3>3. PlanKeeps(u, i, promise)
      BY <2>2, <3>1, <3>2, PlanIsKept
    <3> QED
      BY <3>3 DEF u
  <2> QED
    BY <2>1, <2>8, <2>10 DEF files, rest, promise
<1>2. ASSUME Layer(p) PROVE Started
  <2>1. PICK base \in Images, out \in Images, t \in Sources, pr \in Profiles, fp \in BOOLEAN :
          /\ Readable(ImageFileOf(base)) /\ load_mmap(Manifest(base)).ok
          /\ Start(p, out, write_layer(out, t, pr, Manifest(base),
                      {d \in load_base_drop_index(base) \cup AllDrops :
                          BaseContains(base, load_base_drop_index(base), d)}, fp),
                   Promise(t, base, Root(Manifest(base)), TRUE))
    BY <1>2 DEF Layer
  <2> DEFINE m == Manifest(base)
             has == {d \in load_base_drop_index(base) \cup AllDrops :
                       BaseContains(base, load_base_drop_index(base), d)}
             files == write_layer(out, t, pr, m, has, fp)
             promise == Promise(t, base, Root(m), TRUE)
  <2>2. TreeOK(t) /\ PlanOK(files)
    BY SourceTreeOK, WriteLayerOK DEF FilesOK
  <2>3. Clean => has \subseteq Stored(m.slabs)
    <3>1. has \subseteq DOMAIN load_mmap(m).drops
      BY DEF BaseContains, load_base_drop_index
    <3>2. ManifestOK(m)
      BY <1>0, <2>1, LoadedOK
    <3>3. Clean => DOMAIN load_mmap(m).drops = Stored(m.slabs)
      BY <1>0, <2>1, <3>2, LoadedDrops
    <3> QED
      BY <3>1, <3>3
  <2>4. PICK own : /\ ImagePlan(files, out, t, own)
                   /\ Referenced(Metadata(t)) \subseteq has \cup ToSet(own)
    BY <2>2, LayerPlan
  <2>5. /\ promise.known /\ promise.tree = t /\ promise.base = base /\ base # None
        /\ promise.root[2].slabs = m.slabs
    BY LifecycleAssumption DEF Promise, Root
  <2>6. Start(p, out, files, promise)
    BY <2>1
  <2> HIDE DEF files, has, promise, m
  <2>7. Clean => PlanKeeps(files, out, promise)
    <3> SUFFICES ASSUME Clean PROVE PlanKeeps(files, out, promise)
      OBVIOUS
    <3>1. promise.known =>
            /\ promise.tree = t
            /\ promise.base # None => promise.base \in Images
            /\ has \subseteq (IF promise.base = None THEN {} ELSE Stored(promise.root[2].slabs))
      BY <2>3, <2>5
    <3> QED
      BY <2>2, <2>4, <3>1, PlanIsKept
  <2> QED
    BY <2>2, <2>6, <2>7
<1>3. ASSUME NEW i \in Images, NEW tree, TreeOK(tree), NEW pr, NEW promise,
             Start(p, i, write_directory(i, tree, pr), promise),
             Clean /\ promise.known => promise.tree = tree, promise.base = None
      PROVE  Started
  <2>1. PlanOK(write_directory(i, tree, pr))
    BY <1>3, WriteDirectoryOK DEF FilesOK
  <2>2. Clean => PlanKeeps(write_directory(i, tree, pr), i, promise)
    BY <1>3, DirectoryIsKept
  <2> QED
    BY <1>3, <2>1, <2>2
<1>4. ASSUME Clean, NEW i, i \in DOMAIN want PROVE Exists(ImageFileOf(i))
  BY <1>4, <1>K DEF KeepInv
<1>5. ASSUME NEW i, Faithful(i) PROVE WantedTree(i) = Extracted(i).tree /\ i \in DOMAIN want
  BY <1>5 DEF Faithful, WantedTree
<1>6. ASSUME rw_add(p) PROVE Started
  <2>1. PICK i \in Images, t \in Sources, n \in ToSet(NameOrder), pr \in RwProfiles :
          /\ n \in DOMAIN t
          /\ Exists(ImageFileOf(i)) => Extracted(i).ok
          /\ LET before == IF Exists(ImageFileOf(i)) THEN Extracted(i).tree ELSE <<>>
             IN  Start(p, i, write_directory(i, Put(before, n, t[n]), pr),
                       Promise(Put(WantedTree(i), n, t[n]), None, None,
                               Faithful(i) \/ ~Exists(ImageFileOf(i))))
    BY <1>6 DEF rw_add
  <2> DEFINE before == IF Exists(ImageFileOf(i)) THEN Extracted(i).tree ELSE <<>>
             promise == Promise(Put(WantedTree(i), n, t[n]), None, None,
                                Faithful(i) \/ ~Exists(ImageFileOf(i)))
             tree == Put(before, n, t[n])
  <2>2. TreeOK(tree)
    <3>1. Exists(ImageFileOf(i)) => TreeOK(Extracted(i).tree)
      BY <1>0, <2>1, ExtractedOK
    <3>2. TreeOK(<<>>)
      BY DEF TreeOK
    <3>3. TreeOK(before)
      BY <3>1, <3>2
    <3> HIDE DEF before
    <3>4. IsSequence(t[n]) /\ Error \notin ToSet(t[n])
      BY <2>1, SourceTreeOK DEF TreeOK
    <3>5. /\ DOMAIN tree = DOMAIN before \cup {n} /\ tree = [x \in DOMAIN tree |-> tree[x]]
          /\ tree[n] = t[n] /\ \A x \in DOMAIN before : x # n => tree[x] = before[x]
      BY DEF Put
    <3> HIDE DEF tree
    <3> QED
      BY <3>3, <3>4, <3>5 DEF TreeOK
  <2>3. /\ promise.known <=> Faithful(i) \/ ~Exists(ImageFileOf(i))
        /\ promise.tree = Put(WantedTree(i), n, t[n]) /\ promise.base = None
    BY DEF Promise
  <2>4. Clean /\ (Faithful(i) \/ ~Exists(ImageFileOf(i))) => WantedTree(i) = before
    <3>1. Clean /\ Faithful(i) => WantedTree(i) = before
      BY <1>4, <1>5
    <3>2. Clean /\ ~Exists(ImageFileOf(i)) => WantedTree(i) = before
      BY <1>4 DEF WantedTree
    <3> QED
      BY <3>1, <3>2
  <2>5. Start(p, i, write_directory(i, tree, pr), promise)
    BY <2>1
  <2> HIDE DEF promise, before
  <2>6. Clean /\ promise.known => promise.tree = tree
    BY <2>3, <2>4
  <2> HIDE DEF tree
  <2> QED
    BY <1>3, <2>2, <2>3, <2>5, <2>6
<1>7. ASSUME rw_delete(p) PROVE Started
  <2>1. PICK i \in Images, pr \in RwProfiles :
          /\ Exists(ImageFileOf(i)) /\ Extracted(i).ok
          /\ \E n \in DOMAIN Extracted(i).tree :
                Start(p, i, write_directory(i, Without(Extracted(i).tree, n), pr),
                      Promise(Without(WantedTree(i), n), None, None, Faithful(i)))
    BY <1>7 DEF rw_delete
  <2>2. PICK n \in DOMAIN Extracted(i).tree :
          Start(p, i, write_directory(i, Without(Extracted(i).tree, n), pr),
                Promise(Without(WantedTree(i), n), None, None, Faithful(i)))
    BY <2>1
  <2>3. TreeOK(Extracted(i).tree)
    BY <1>0, <2>1, ExtractedOK
  <2> DEFINE tree == Without(Extracted(i).tree, n)
             promise == Promise(Without(WantedTree(i), n), None, None, Faithful(i))
  <2>4. TreeOK(tree)
    BY <2>3 DEF TreeOK, Without
  <2>5. /\ promise.known <=> Faithful(i)
        /\ promise.tree = Without(WantedTree(i), n) /\ promise.base = None
    BY DEF Promise
  <2> HIDE DEF promise
  <2>6. promise.known => promise.tree = tree
    BY <1>5, <2>5
  <2> HIDE DEF tree
  <2>7. Start(p, i, write_directory(i, tree, pr), promise)
    BY <2>2 DEF tree, promise
  <2> QED
    BY <1>3, <2>4, <2>5, <2>6, <2>7
<1>8. ASSUME NEW i \in Images, NEW out \in Images, NEW pr, Repack(p, i, out, pr)
      PROVE  Started
  <2>1. TreeOK(Extracted(i).tree)
    BY <1>0, <1>8, ExtractedOK DEF Repack
  <2> DEFINE promise == Promise(WantedTree(i), None, None, Faithful(i))
  <2>2. (promise.known <=> Faithful(i)) /\ promise.tree = WantedTree(i) /\ promise.base = None
    BY DEF Promise
  <2>3. Start(p, out, write_directory(out, Extracted(i).tree, pr), promise)
    BY <1>8 DEF Repack
  <2> HIDE DEF promise
  <2>4. promise.known => promise.tree = Extracted(i).tree
    BY <1>5, <2>2
  <2> QED
    BY <1>3, <2>1, <2>2, <2>3, <2>4
<1>9. ASSUME turnover_cmd(p) \/ compact(p) PROVE Started
  BY <1>8, <1>9 DEF turnover_cmd, compact
<1>10. Started
  BY <1>1, <1>2, <1>6, <1>7, <1>9
<1> QED
  BY <1>10, StartKeeps

\* The head and the tail of what is left to write.
LEMMA TailFacts ==
  ASSUME NEW s, IsSequence(s), s # <<>>
  PROVE  /\ 1 \in DOMAIN s /\ Head(s) = s[1] /\ Len(s) \in Nat /\ DOMAIN s = 1..Len(s)
         /\ IsSequence(Tail(s)) /\ Len(Tail(s)) = Len(s) - 1 /\ DOMAIN Tail(s) = 1..(Len(s) - 1)
         /\ \A k \in 1..(Len(s) - 1) : Tail(s)[k] = s[k + 1]
<1> DEFINE S == ToSet(s)
<1>1. s \in Seq(S)
  BY DEF IsSequence
<1> HIDE DEF S
<1>2. Tail(s) \in Seq(S) /\ Len(Tail(s)) = Len(s) - 1 /\ Len(s) \in Nat /\ DOMAIN s = 1..Len(s)
  BY <1>1
<1>3. IsSequence(Tail(s))
  BY <1>2, SequenceOf
<1>4. DOMAIN Tail(s) = 1..(Len(s) - 1)
  BY <1>2
<1>5. 1 \in DOMAIN s /\ Head(s) = s[1]
  BY <1>1
<1>6. \A k \in 1..(Len(s) - 1) : Tail(s)[k] = s[k + 1]
  BY <1>1, <1>4
<1> QED
  BY <1>2, <1>3, <1>4, <1>5, <1>6

LEMMA TailKeeps ==
  ASSUME NEW s, IsSequence(s), s # <<>>, NEW i, NEW promise, PlanKeeps(s, i, promise)
  PROVE  PlanKeeps(Tail(s), i, promise)
<1> DEFINE t == Tail(s)
           n == Len(s)
<1>1. /\ n \in Nat /\ DOMAIN s = 1..n /\ Len(t) = n - 1 /\ DOMAIN t = 1..(n - 1)
      /\ \A k \in 1..(n - 1) : t[k] = s[k + 1]
  BY TailFacts
<1> HIDE DEF t, n
<1> SUFFICES ASSUME NEW k \in DOMAIN t
             PROVE  /\ t[k][1][1] = "sig" => k = Len(t)
                    /\ t[k][1][1] = "image" =>
                         /\ t[k][1] = ImageFileOf(i) /\ Keeps(promise, t[k][2])
                         /\ \A name \in Needs(t[k][2]) : \E j \in DOMAIN t : j > k /\ t[j][1] = name
  BY DEF PlanKeeps, t
<1>2. k \in 1..(n - 1) /\ k + 1 \in DOMAIN s /\ t[k] = s[k + 1]
  BY <1>1
<1>3. t[k][1][1] = "sig" => k = Len(t)
  <2>1. t[k][1][1] = "sig" => k + 1 = n
    BY <1>2 DEF PlanKeeps, n
  <2> QED
    BY <1>1, <1>2, <2>1
<1>4. ASSUME t[k][1][1] = "image"
      PROVE  /\ t[k][1] = ImageFileOf(i) /\ Keeps(promise, t[k][2])
             /\ \A name \in Needs(t[k][2]) : \E j \in DOMAIN t : j > k /\ t[j][1] = name
  <2>1. /\ t[k][1] = ImageFileOf(i) /\ Keeps(promise, t[k][2])
        /\ \A name \in Needs(t[k][2]) : \E j \in DOMAIN s : j > k + 1 /\ s[j][1] = name
    BY <1>2, <1>4 DEF PlanKeeps
  <2>2. ASSUME NEW name \in Needs(t[k][2]) PROVE \E j \in DOMAIN t : j > k /\ t[j][1] = name
    <3>1. PICK j \in DOMAIN s : j > k + 1 /\ s[j][1] = name
      BY <2>1
    <3>2. j - 1 \in 1..(n - 1) /\ j - 1 > k /\ (j - 1) + 1 = j
      BY <1>1, <1>2, <3>1
    <3>3. t[j - 1] = s[j]
      BY <1>1, <3>2
    <3> QED
      BY <1>1, <3>1, <3>2, <3>3
  <2> QED
    BY <2>1, <2>2
<1> QED
  BY <1>3, <1>4

LEMMA WriteFileKeeps ==
  ASSUME FaultlessInv, NEW p \in Procs, WriteFile(p)
  PROVE  FaultlessInv'
<1>1. LifecycleInv' /\ stops' = stops /\ rot' = rot
  BY WriteFileStep DEF FaultlessInv, WriteFile
<1> SUFFICES ASSUME stops = 0, rot = 0 PROVE KeepInv'
  BY <1>1 DEF FaultlessInv
<1>2. KeepInv
  BY DEF FaultlessInv
<1> DEFINE todo == proc[p].todo
           i == proc[p].image
           promise == proc[p].promise
           rest == Tail(todo)
           f == Head(todo)[1]
           x == Head(todo)[2]
<1>3. /\ todo # <<>> /\ disk' = Put(disk, f, Whole(x))
      /\ want' = IF f = ImageFileOf(i) THEN Put(want, i, promise) ELSE want
      /\ proc' = [proc EXCEPT ![p] = Finished(p, rest)]
  BY DEF WriteFile
<1>4. IsSequence(todo) /\ DOMAIN proc = Procs
      /\ proc[p] = [image |-> i, todo |-> todo, promise |-> promise]
  BY DEF FaultlessInv, LifecycleInv, ProcInv, PlanOK
<1>5. PlanKeeps(todo, i, promise)
  BY <1>2 DEF KeepInv
<1>6. /\ Finished(p, rest).todo = rest
      /\ rest # <<>> => Finished(p, rest).image = i /\ Finished(p, rest).promise = promise
  <2> DEFINE r == proc[p]
  <2> HIDE DEF rest, todo, i, promise, r
  <2>1. r = [image |-> i, todo |-> todo, promise |-> promise]
    BY <1>4 DEF r
  <2>2. [r EXCEPT !.todo = rest].todo = rest /\ [r EXCEPT !.todo = rest].image = i
        /\ [r EXCEPT !.todo = rest].promise = promise
    BY <2>1
  <2> QED
    BY <2>2 DEF Finished, Idle, r
<1> HIDE DEF todo, i, promise
<1>7. PlanKeeps(rest, i, promise)
  BY <1>3, <1>4, <1>5, TailKeeps
<1> DEFINE n == Len(todo)
<1>8. /\ n \in Nat /\ DOMAIN todo = 1..n /\ DOMAIN rest = 1..(n - 1) /\ 1 \in DOMAIN todo
      /\ Head(todo) = todo[1] /\ \A k \in 1..(n - 1) : rest[k] = todo[k + 1]
  BY <1>3, <1>4, TailFacts
<1> HIDE DEF rest, n
<1>9. f = todo[1][1] /\ x = todo[1][2]
  BY <1>8
<1>10. ASSUME f[1] = "image"
       PROVE  /\ f = ImageFileOf(i) /\ Keeps(promise, x)
              /\ \A name \in Needs(x) : \E j \in DOMAIN todo : j > 1 /\ todo[j][1] = name
  BY <1>5, <1>8, <1>9, <1>10 DEF PlanKeeps
<1> HIDE DEF f, x
<1>11. /\ DOMAIN disk' = DOMAIN disk \cup {f} /\ disk'[f] = Whole(x)
       /\ \A g \in DOMAIN disk : g # f => disk'[g] = disk[g]
  BY <1>3 DEF Put
<1>12. /\ proc'[p].todo = rest /\ \A q \in Procs : q # p => proc'[q] = proc[q]
       /\ rest # <<>> => proc'[p].image = i /\ proc'[p].promise = promise
  BY <1>3, <1>4, <1>6
<1>13. \A g \in DOMAIN disk' : disk'[g] # Torn
  <2>1. Whole(x) # Torn
    BY DEF Whole, Torn
  <2> QED
    BY <1>2, <1>11, <2>1 DEF KeepInv
<1>14. ASSUME NEW q \in Procs
       PROVE  PlanKeeps(proc'[q].todo, proc'[q].image, proc'[q].promise)
  <2>1. CASE q # p
    BY <1>2, <1>12, <2>1 DEF KeepInv
  <2>2. CASE q = p /\ rest # <<>>
    BY <1>7, <1>12, <2>2
  <2>3. CASE q = p /\ rest = <<>>
    BY <1>12, <2>3 DEF PlanKeeps
  <2> QED
    BY <2>1, <2>2, <2>3
<1>15. ASSUME NEW j \in DOMAIN todo, j > 1, NEW name, todo[j][1] = name
       PROVE  Pending(name)'
  <2>1. j - 1 \in 1..(n - 1) /\ (j - 1) + 1 = j
    BY <1>8, <1>15
  <2>2. j - 1 \in DOMAIN rest /\ rest[j - 1][1] = name
    BY <1>8, <1>15, <2>1
  <2> QED
    BY <1>12, <2>2 DEF Pending
<1>16. ASSUME NEW name, Exists(name) \/ Pending(name)
       PROVE  Exists(name)' \/ Pending(name)'
  <2>1. CASE Exists(name)
    BY <1>11, <2>1 DEF Exists
  <2>2. CASE Pending(name)
    <3>1. PICK q \in Procs : \E k \in DOMAIN proc[q].todo : proc[q].todo[k][1] = name
      BY <2>2 DEF Pending
    <3>2. CASE q # p
      BY <1>12, <3>1, <3>2 DEF Pending
    <3>3. CASE q = p
      <4>1. PICK k \in DOMAIN todo : todo[k][1] = name
        BY <3>1, <3>3 DEF todo
      <4>2. CASE k = 1
        BY <1>9, <1>11, <4>1, <4>2 DEF Exists
      <4>3. CASE k # 1
        <5>1. k > 1
          BY <1>8, <4>3
        <5> QED
          BY <1>15, <4>1, <5>1
      <4> QED
        BY <4>2, <4>3
    <3> QED
      BY <3>2, <3>3
  <2> QED
    BY <1>16, <2>1, <2>2
<1>17. ASSUME NEW g \in DOMAIN disk', g[1] = "image", NEW name \in Needs(disk'[g][2])
       PROVE  Exists(name)' \/ Pending(name)'
  <2>1. CASE g = f
    <3>1. disk'[g][2] = x
      BY <1>11, <2>1 DEF Whole
    <3>2. PICK j \in DOMAIN todo : j > 1 /\ todo[j][1] = name
      BY <1>10, <1>17, <2>1, <3>1
    <3> QED
      BY <1>15, <3>2
  <2>2. CASE g # f
    <3>1. g \in DOMAIN disk /\ disk'[g] = disk[g]
      BY <1>11, <2>2
    <3> QED
      BY <1>2, <1>16, <1>17, <3>1 DEF KeepInv
  <2> QED
    BY <2>1, <2>2
<1>18. ASSUME NEW j \in DOMAIN want'
       PROVE  Exists(ImageFileOf(j))' /\ Keeps(want'[j], Manifest(j)')
  <2>1. CASE ImageFileOf(j) = f
    <3>1. f[1] = "image" /\ f = ImageFileOf(i)
      BY <1>10, <2>1 DEF ImageFileOf
    <3>2. j = i
      BY <2>1, <3>1 DEF ImageFileOf
    <3>3. want'[j] = promise
      BY <1>3, <3>1, <3>2 DEF Put
    <3>4. Manifest(j)' = x
      BY <1>11, <2>1 DEF Manifest, Bytes, Whole
    <3> QED
      BY <1>10, <1>11, <2>1, <3>1, <3>3, <3>4 DEF Exists
  <2>2. CASE ImageFileOf(j) # f
    <3>1. j \in DOMAIN want /\ want'[j] = want[j]
      BY <1>3, <2>2 DEF Put
    <3>2. Exists(ImageFileOf(j)) /\ Keeps(want[j], Manifest(j))
      BY <1>2, <3>1 DEF KeepInv
    <3>3. Exists(ImageFileOf(j))' /\ Manifest(j)' = Manifest(j)
      BY <1>11, <2>2, <3>2 DEF Exists, Manifest, Bytes
    <3> QED
      BY <3>1, <3>2, <3>3
  <2> QED
    BY <2>1, <2>2
<1>19. ASSUME NEW g \in DOMAIN disk', g[1] = "image" PROVE Uncut(disk'[g][2])
  <2>1. CASE g = f
    BY <1>10, <1>11, <1>19, <2>1 DEF Keeps, Whole
  <2>2. CASE g # f
    BY <1>2, <1>11, <1>19, <2>2 DEF KeepInv
  <2> QED
    BY <2>1, <2>2
<1> QED
  BY <1>13, <1>14, <1>17, <1>18, <1>19 DEF KeepInv

\* A command that is down to its signature: it leaves the files as they are, and
\* has a signature or nothing left to write.
LEMMA SigningKeeps ==
  ASSUME FaultlessInv, LifecycleInv', NEW p \in Procs,
         proc[p].todo # <<>>, Head(proc[p].todo)[1][1] = "sig",
         UNCHANGED <<stops, rot, want>>,
         NEW r, proc' = [proc EXCEPT ![p] = r],
         \A k \in DOMAIN r.todo : k = Len(r.todo) /\ r.todo[k][1][1] = "sig",
         NEW f, NEW v, f[1] = "sig", v # Torn, disk' = Put(disk, f, v) \/ disk' = disk
  PROVE  FaultlessInv'
<1>1. UNCHANGED <<stops, rot, want>>
  OBVIOUS
<1> SUFFICES ASSUME stops = 0, rot = 0 PROVE KeepInv'
  BY <1>1 DEF FaultlessInv
<1>2. KeepInv /\ DiskInv /\ DOMAIN proc = Procs
  BY DEF FaultlessInv, LifecycleInv
<1> DEFINE todo == proc[p].todo
<1>3. IsSequence(todo) /\ todo # <<>> /\ Head(todo)[1][1] = "sig"
  BY DEF FaultlessInv, LifecycleInv, ProcInv, PlanOK
<1>4. DOMAIN todo = {1} /\ todo[1][1][1] = "sig"
  <2>1. 1 \in DOMAIN todo /\ Head(todo) = todo[1] /\ DOMAIN todo = 1..Len(todo)
    BY <1>3, TailFacts
  <2>2. PlanKeeps(todo, proc[p].image, proc[p].promise)
    BY <1>2 DEF KeepInv
  <2>3. Len(todo) = 1
    <3> HIDE DEF todo
    <3> QED
      BY <1>3, <2>1, <2>2 DEF PlanKeeps
  <2> QED
    BY <1>3, <2>1, <2>3
<1> HIDE DEF todo
<1>5. disk' = Put(disk, f, v) \/ disk' = disk
  OBVIOUS
<1>6. v # Torn /\ f[1] = "sig"
  OBVIOUS
<1>7. /\ DOMAIN disk \subseteq DOMAIN disk'
      /\ \A g \in DOMAIN disk' : g = f \/ (g \in DOMAIN disk /\ disk'[g] = disk[g])
      /\ \A g \in DOMAIN disk' : disk'[g] # Torn
      /\ \A g \in DOMAIN disk : g[1] # "sig" => disk'[g] = disk[g]
  BY <1>2, <1>5, <1>6 DEF Put, KeepInv
<1>8. proc'[p] = r /\ \A q \in Procs : q # p => proc'[q] = proc[q]
  BY <1>1, <1>2
<1>9. ASSUME NEW q \in Procs
      PROVE  PlanKeeps(proc'[q].todo, proc'[q].image, proc'[q].promise)
  <2>1. CASE q # p
    BY <1>2, <1>8, <2>1 DEF KeepInv
  <2>2. CASE q = p
    <3>1. proc'[q].todo = r.todo
      BY <1>8, <2>2
    <3> QED
      BY <3>1 DEF PlanKeeps
  <2> QED
    BY <2>1, <2>2
<1>10. ASSUME NEW name, name[1] # "sig", Exists(name) \/ Pending(name)
       PROVE  Exists(name)' \/ Pending(name)'
  <2>1. CASE Exists(name)
    BY <1>7, <2>1 DEF Exists
  <2>2. CASE Pending(name)
    <3>1. PICK q \in Procs : \E k \in DOMAIN proc[q].todo : proc[q].todo[k][1] = name
      BY <2>2 DEF Pending
    <3>2. q # p
      BY <1>4, <1>10, <3>1 DEF todo
    <3> QED
      BY <1>8, <3>1, <3>2 DEF Pending
  <2> QED
    BY <1>10, <2>1, <2>2
<1>11. ASSUME NEW g \in DOMAIN disk', g[1] = "image", NEW name \in Needs(disk'[g][2])
       PROVE  Exists(name)' \/ Pending(name)'
  <2>1. g \in DOMAIN disk /\ disk'[g] = disk[g]
    BY <1>6, <1>7, <1>11
  <2>2. ManifestOK(disk[g][2])
    BY <1>2, <1>11, <2>1 DEF DiskInv, EntryOK, KeepInv
  <2>3. name[1] # "sig"
    BY <1>11, <2>1, <2>2 DEF Needs, ManifestOK, SlabName, SidecarName
  <2>4. Exists(name) \/ Pending(name)
    BY <1>2, <1>11, <2>1 DEF KeepInv
  <2> QED
    BY <1>10, <2>3, <2>4
<1>12. ASSUME NEW j \in DOMAIN want'
       PROVE  Exists(ImageFileOf(j))' /\ Keeps(want'[j], Manifest(j)')
  <2>1. Exists(ImageFileOf(j)) /\ Keeps(want[j], Manifest(j))
    BY <1>1, <1>2 DEF KeepInv
  <2>2. ImageFileOf(j)[1] # "sig"
    BY DEF ImageFileOf
  <2>3. Exists(ImageFileOf(j))' /\ Manifest(j)' = Manifest(j)
    BY <1>7, <2>1, <2>2 DEF Exists, Manifest, Bytes
  <2> QED
    BY <1>1, <2>1, <2>3
<1>13. ASSUME NEW g \in DOMAIN disk', g[1] = "image" PROVE Uncut(disk'[g][2])
  BY <1>2, <1>6, <1>7, <1>13 DEF KeepInv
<1> QED
  BY <1>7, <1>9, <1>11, <1>12, <1>13 DEF KeepInv

LEMMA SignKeeps ==
  ASSUME FaultlessInv, NEW p \in Procs, sign_image(p)
  PROVE  FaultlessInv'
<1> DEFINE i == proc[p].image
           f == limsig_path(i)
           v == Whole(None)
           x == <<Root(Manifest(i)), Manifest(i).meta>>
           files == IF read_manifest(i) THEN <<<<f, x>>>> ELSE <<>>
<1>1. LifecycleInv'
  BY SignStep DEF FaultlessInv
<1>2. /\ proc[p].todo # <<>> /\ Head(proc[p].todo)[1][1] = "sig"
      /\ UNCHANGED <<stops, rot, want>> /\ disk' = disk
      /\ proc' = [proc EXCEPT ![p] = Finished(p, files)]
  BY DEF sign_image
<1>3. f[1] = "sig" /\ v # Torn
  BY DEF limsig_path, Whole, Torn
<1>4. \A k \in DOMAIN files : k = Len(files) /\ files[k][1][1] = "sig"
  <2>1. CASE read_manifest(i)
    <3>1. files = <<<<f, x>>>>
      BY <2>1
    <3>2. DOMAIN files = {1} /\ Len(files) = 1 /\ files[1][1] = f
      BY <3>1
    <3> QED
      BY <1>3, <3>2
  <2>2. CASE ~read_manifest(i)
    BY <2>2
  <2> QED
    BY <2>1, <2>2
<1> HIDE DEF files
<1>5. Finished(p, files).todo = files
  <2> DEFINE old == proc[p]
  <2>1. old = [image |-> old.image, todo |-> old.todo, promise |-> old.promise]
    BY DEF FaultlessInv, LifecycleInv, ProcInv
  <2> HIDE DEF old
  <2>2. [old EXCEPT !.todo = files].todo = files
    BY <2>1
  <2> QED
    BY <2>2 DEF Finished, Idle, old
<1> DEFINE r == Finished(p, files)
<1> HIDE DEF r, f, v
<1> QED
  BY <1>1, <1>2, <1>3, <1>4, <1>5, SigningKeeps DEF r

LEMMA WriteSignatureKeeps ==
  ASSUME FaultlessInv, NEW p \in Procs, WriteSignature(p)
  PROVE  FaultlessInv'
<1> DEFINE f == limsig_path(proc[p].image)
           v == Whole(Head(proc[p].todo)[2][1])
<1>1. LifecycleInv'
  BY WriteSignatureStep DEF FaultlessInv
<1>2. /\ proc[p].todo # <<>> /\ Head(proc[p].todo)[1][1] = "sig"
      /\ UNCHANGED <<stops, rot, want>> /\ disk' = Put(disk, f, v)
      /\ proc' = [proc EXCEPT ![p] = Idle]
  BY DEF WriteSignature
<1>3. f[1] = "sig" /\ v # Torn /\ Idle.todo = <<>>
  BY DEF limsig_path, Whole, Torn, Idle
<1> HIDE DEF f, v
<1>4. \A k \in DOMAIN Idle.todo : k = Len(Idle.todo) /\ Idle.todo[k][1][1] = "sig"
  BY <1>3
<1> DEFINE r == Idle
<1> HIDE DEF r
<1> QED
  BY <1>1, <1>2, <1>3, <1>4, SigningKeeps DEF r

LEMMA OnDiskAt ==
  ASSUME NEW files, IsSequence(files), disk = OnDisk(files), NEW k \in DOMAIN files,
         \A x \in DOMAIN files : files[x][1] = files[k][1] => x = k
  PROVE  files[k][1] \in DOMAIN disk /\ disk[files[k][1]] = Whole(files[k][2])
<1> DEFINE f == files[k][1]
           last(n) == CHOOSE x \in DOMAIN files :
                        files[x][1] = n /\ \A j \in DOMAIN files : files[j][1] = n => j <= x
<1>1. f \in DOMAIN disk /\ disk[f] = Whole(files[last(f)][2])
  BY DEF OnDisk
<1>2. k <= k
  BY DEF IsSequence
<1>3. \E x \in DOMAIN files : files[x][1] = f /\ \A j \in DOMAIN files : files[j][1] = f => j <= x
  BY <1>2
<1>4. last(f) \in DOMAIN files /\ files[last(f)][1] = f
  BY <1>3
<1> HIDE DEF last
<1>5. last(f) = k
  BY <1>4
<1> QED
  BY <1>1, <1>5

LEMMA KeepInit ==
  ASSUME Init
  PROVE  KeepInv
<1>1. PICK i \in Images, j \in Images, s \in Starts :
        LET base == write_directory(i, s.base.tree, s.base.profile)
            m    == base[1][2]
        IN  /\ i # j
            /\ disk = OnDisk(base \o write_layer(j, s.layer.tree, s.layer.profile, m,
                                                 ToSet(DropsOf(m.meta, {})), s.fp))
            /\ want = Put(Put(<<>>, i, Promise(s.base.tree, None, None, TRUE)),
                          j, Promise(s.layer.tree, i, Root(m), TRUE))
  BY DEF Init
<1> DEFINE t == s.base.tree
           t2 == s.layer.tree
           base == write_directory(i, t, s.base.profile)
           m == base[1][2]
           own == DropsOf(Metadata(t), {})
           has == ToSet(DropsOf(m.meta, {}))
           layer == write_layer(j, t2, s.layer.profile, m, has, s.fp)
           a == Promise(t, None, None, TRUE)
           b == Promise(t2, i, Root(m), TRUE)
           u == base \o layer
<1>2. i # j /\ disk = OnDisk(u) /\ want = Put(Put(<<>>, i, a), j, b)
  BY <1>1
<1>3. TreeOK(t) /\ TreeOK(t2)
  BY LifecycleAssumption, SourceTreeOK
<1>4. /\ ImagePlan(base, i, t, own) /\ Referenced(Metadata(t)) \subseteq ToSet(own)
      /\ FilesOK(base)
  BY <1>3, DirectoryPlan, WriteDirectoryOK
<1>5. /\ a.known /\ a.tree = t /\ a.base = None
      /\ b.known /\ b.tree = t2 /\ b.base = i /\ i # None /\ b.root[2].slabs = m.slabs
  BY LifecycleAssumption DEF Promise, Root
<1>6. has = ToSet(own) /\ has \subseteq Stored(m.slabs)
  BY <1>4 DEF ImagePlan
<1> HIDE DEF has, a, b, own
<1>7. PICK new : /\ ImagePlan(layer, j, t2, new)
                 /\ Referenced(Metadata(t2)) \subseteq has \cup ToSet(new)
  BY <1>3, LayerPlan
<1>8. PlanKeeps(base, i, a)
  BY <1>3, <1>5, DirectoryIsKept
<1> HIDE DEF layer, base, m, t, t2
<1>9. PlanKeeps(layer, j, b)
  <2>1. b.known =>
          /\ b.tree = t2
          /\ b.base # None => b.base \in Images
          /\ has \subseteq (IF b.base = None THEN {} ELSE Stored(b.root[2].slabs))
    BY <1>5, <1>6
  <2> QED
    BY <1>3, <1>7, <2>1, PlanIsKept
<1> DEFINE n == Len(base)
           m2 == layer[1][2]
<1>10. /\ 1 \in DOMAIN base /\ base[1][1] = ImageFileOf(i) /\ Keeps(a, m)
       /\ 1 \in DOMAIN layer /\ layer[1][1] = ImageFileOf(j) /\ Keeps(b, m2)
       /\ \A k \in DOMAIN base : k # 1 => base[k][1][1] # "image"
       /\ \A k \in DOMAIN layer : k # 1 => layer[k][1][1] # "image"
  BY <1>4, <1>7, <1>8, <1>9 DEF ImagePlan, PlanKeeps, ImageFileOf, m
<1>11. /\ \A name \in Needs(m) : \E k \in DOMAIN base : base[k][1] = name
       /\ \A name \in Needs(m2) : \E k \in DOMAIN layer : layer[k][1] = name
  BY <1>4, <1>7 DEF ImagePlan, m
<1>12. /\ IsSequence(u) /\ DOMAIN u = 1..(n + Len(layer)) /\ n \in Nat /\ Len(layer) \in Nat
       /\ DOMAIN base = 1..n /\ DOMAIN layer = 1..Len(layer)
       /\ \A k \in 1..n : u[k] = base[k]
       /\ \A k \in 1..Len(layer) : u[n + k] = layer[k]
  <2>1. IsSequence(base) /\ IsSequence(layer)
    BY <1>4, <1>7 DEF ImagePlan
  <2>2. Joins(u, base, layer)
    BY <2>1, ConcatFacts
  <2> HIDE DEF u
  <2> QED
    BY <2>2 DEF Joins
<1> HIDE DEF u, n, m2
<1>13. /\ 1 \in DOMAIN u /\ u[1] = base[1]
       /\ n + 1 \in DOMAIN u /\ u[n + 1] = layer[1] /\ n + 1 # 1
  BY <1>10, <1>12
<1>14. ASSUME NEW k \in DOMAIN u, u[k][1][1] = "image" PROVE k = 1 \/ k = n + 1
  <2>1. CASE k \in 1..n
    BY <1>10, <1>12, <1>14, <2>1
  <2>2. CASE k \notin 1..n
    <3>1. k - n \in 1..Len(layer) /\ n + (k - n) = k
      BY <1>12, <2>2
    <3>2. u[k] = layer[k - n]
      BY <1>12, <3>1
    <3>3. k - n = 1
      BY <1>10, <1>12, <1>14, <3>1, <3>2
    <3> QED
      BY <1>12, <3>1, <3>3
  <2> QED
    BY <2>1, <2>2
<1>15. ImageFileOf(i) # ImageFileOf(j) /\ ImageFileOf(i)[1] = "image" /\ ImageFileOf(j)[1] = "image"
  BY <1>2 DEF ImageFileOf
<1>16. ImageFileOf(i) \in DOMAIN disk /\ disk[ImageFileOf(i)] = Whole(m)
  <2>1. \A x \in DOMAIN u : u[x][1] = u[1][1] => x = 1
    BY <1>10, <1>13, <1>14, <1>15
  <2>2. u[1][1] \in DOMAIN disk /\ disk[u[1][1]] = Whole(u[1][2])
    BY <1>2, <1>12, <1>13, <2>1, OnDiskAt
  <2> QED
    BY <1>10, <1>13, <2>2 DEF m
<1>17. ImageFileOf(j) \in DOMAIN disk /\ disk[ImageFileOf(j)] = Whole(m2)
  <2> DEFINE k == n + 1
  <2>1. \A x \in DOMAIN u : u[x][1] = u[k][1] => x = k
    BY <1>10, <1>13, <1>14, <1>15
  <2>2. k \in DOMAIN u /\ u[k] = layer[1]
    BY <1>13
  <2> HIDE DEF k
  <2>3. u[k][1] \in DOMAIN disk /\ disk[u[k][1]] = Whole(u[k][2])
    BY <1>2, <1>12, <2>1, <2>2, OnDiskAt
  <2> QED
    BY <1>10, <2>2, <2>3 DEF m2
<1>18. DOMAIN disk = {u[k][1] : k \in DOMAIN u} /\ \A f \in DOMAIN disk : \E x : disk[f] = Whole(x)
  BY <1>2 DEF OnDisk
<1>19. \A f \in DOMAIN disk : disk[f] # Torn
  <2>1. \A x : Whole(x) # Torn
    BY DEF Whole, Torn
  <2> QED
    BY <1>18, <2>1
<1>20. ASSUME NEW f \in DOMAIN disk, f[1] = "image"
       PROVE  (f = ImageFileOf(i) /\ disk[f][2] = m) \/ (f = ImageFileOf(j) /\ disk[f][2] = m2)
  <2>1. PICK k \in DOMAIN u : f = u[k][1]
    BY <1>18
  <2>2. f = ImageFileOf(i) \/ f = ImageFileOf(j)
    BY <1>10, <1>13, <1>14, <1>20, <2>1
  <2> QED
    BY <1>16, <1>17, <2>2 DEF Whole
<1>21. ASSUME NEW name \in Needs(m) \cup Needs(m2) PROVE Exists(name)
  <2>1. CASE name \in Needs(m)
    <3>1. PICK k \in DOMAIN base : base[k][1] = name
      BY <1>11, <2>1
    <3>2. k \in DOMAIN u /\ u[k] = base[k]
      BY <1>12
    <3> QED
      BY <1>18, <3>1, <3>2 DEF Exists
  <2>2. CASE name \in Needs(m2)
    <3>1. PICK k \in DOMAIN layer : layer[k][1] = name
      BY <1>11, <2>2
    <3>2. n + k \in DOMAIN u /\ u[n + k] = layer[k]
      BY <1>12
    <3> QED
      BY <1>18, <3>1, <3>2 DEF Exists
  <2> QED
    BY <2>1, <2>2
<1>22. ASSUME NEW x \in DOMAIN want PROVE Exists(ImageFileOf(x)) /\ Keeps(want[x], Manifest(x))
  <2>1. DOMAIN want = {i, j} /\ want[i] = a /\ want[j] = b
    BY <1>2 DEF Put
  <2> QED
    BY <1>10, <1>16, <1>17, <2>1 DEF Exists, Manifest, Bytes, Whole
<1>23. ASSUME NEW p \in Procs PROVE PlanKeeps(proc[p].todo, proc[p].image, proc[p].promise)
  <2>1. proc[p].todo = <<>>
    BY DEF Init, Idle
  <2> QED
    BY <2>1 DEF PlanKeeps
<1>24. Uncut(m) /\ Uncut(m2)
  BY <1>10 DEF Keeps
<1> QED
  BY <1>19, <1>20, <1>21, <1>22, <1>23, <1>24 DEF KeepInv

LEMMA FaultlessInit == Init => FaultlessInv
<1> SUFFICES ASSUME Init PROVE FaultlessInv
  OBVIOUS
<1>1. LifecycleInv /\ KeepInv
  BY LifecycleInit, KeepInit
<1>2. stops = 0
  BY DEF Init
<1> QED
  BY <1>1, <1>2 DEF FaultlessInv

LEMMA FaultlessStep == FaultlessInv /\ [Next]_vars => FaultlessInv'
<1> SUFFICES ASSUME FaultlessInv, [Next]_vars PROVE FaultlessInv'
  OBVIOUS
<1>0. stops \in Nat /\ rot \in Nat
  BY DEF FaultlessInv, LifecycleInv
<1>1. CASE UNCHANGED vars
  <2>1. UNCHANGED <<disk, rot, signed>> /\ UNCHANGED <<proc, want, stops>>
    BY <1>1 DEF vars
  <2>2. DiskInv' /\ SignInv'
    BY <2>1, KeepsDisk DEF FaultlessInv, LifecycleInv
  <2>3. ProcInv'
    BY <2>1 DEF FaultlessInv, LifecycleInv, ProcInv
  <2>4. KeepInv => KeepInv'
    BY <2>1 DEF KeepInv, Exists, Pending, Manifest, Bytes
  <2> QED
    BY <2>1, <2>2, <2>3, <2>4 DEF FaultlessInv, LifecycleInv
<1>2. CASE RotDrop
  <2>1. LifecycleInv'
    BY <1>2, RotStep DEF FaultlessInv
  <2>2. rot' # 0 /\ stops' = stops
    BY <1>0, <1>2 DEF RotDrop
  <2> QED
    BY <1>0, <2>1, <2>2 DEF FaultlessInv
<1>3. ASSUME NEW p \in Procs, Stop(p) PROVE FaultlessInv'
  <2>1. LifecycleInv'
    BY <1>3, StopStep DEF FaultlessInv
  <2>2. stops' # 0 /\ stops' \in Nat
    BY <1>0, <1>3 DEF Stop
  <2> QED
    BY <2>1, <2>2 DEF FaultlessInv
<1>4. ASSUME NEW p \in Procs,
             \/ Ready(p) /\ (Limn(p) \/ Layer(p) \/ rw_add(p) \/ rw_delete(p) \/ turnover_cmd(p) \/ compact(p))
             \/ WriteFile(p) \/ sign_image(p) \/ WriteSignature(p) \/ Stop(p)
      PROVE  FaultlessInv'
  BY <1>3, <1>4, CommandKeeps, WriteFileKeeps, SignKeeps, WriteSignatureKeeps
<1> QED
  BY <1>1, <1>2, <1>4 DEF Next

LEMMA FaultlessAlways == Spec => []FaultlessInv
BY FaultlessInit, FaultlessStep, PTL DEF Spec

LEMMA LifecycleAlways == Spec => []LifecycleInv
<1>1. FaultlessInv => LifecycleInv
  BY DEF FaultlessInv
<1> QED
  BY <1>1, FaultlessAlways, PTL

----------------------------------------------------------------------------
(* Signatures and compaction.                                              *)

\* A signature that verifies fixes the tree: check_signature compares the root
\* of the manifest on disk, and the root covers the metadata.
THEOREM SignaturesFixTheTree == Spec => []SignatureFixesTheTree
<1>1. LifecycleInv => SignatureFixesTheTree
  <2> SUFFICES ASSUME LifecycleInv, NEW i \in Images, check_signature(i)
               PROVE  signed[i] = <<"tree", Manifest(i).meta>>
    BY DEF SignatureFixesTheTree
  <2>1. signed[i] = <<"tree", Bytes(limsig_path(i))[2].meta>>
    BY DEF LifecycleInv, SignInv, check_signature
  <2>2. Bytes(limsig_path(i)) = Root(Manifest(i))
    BY DEF check_signature
  <2>3. Root(Manifest(i))[2].meta = Manifest(i).meta
    BY DEF Root
  <2> QED
    BY <2>1, <2>2, <2>3
<1> QED
  BY <1>1, LifecycleAlways, PTL

\* compact_image keeps every drop the image refers to, as it was, and leaves
\* nothing for gc, on every image and slab that any commands left on disk.
THEOREM CompactionIsSafe == Spec => []CompactionKeepsReferenced
<1>1. LifecycleInv => CompactionKeepsReferenced
  <2> SUFFICES ASSUME LifecycleInv, NEW i \in Images, NEW f \in DOMAIN disk,
                      Readable(ImageFileOf(i)), ~Manifest(i).ext,
                      f[1] = "slab", disk[f] # Torn,
                      Referenced(Manifest(i).meta) \subseteq DOMAIN Bytes(f).records,
                      \A d \in DOMAIN Bytes(f).records : Bytes(f).records[d].dict = None
               PROVE  LET new == encode_compacted_slab(Manifest(i), Bytes(f))
                      IN  /\ gc_cmd(reassemble_manifest(Manifest(i)).meta, <<new>>) = {}
                          /\ \A d \in Referenced(Manifest(i).meta) :
                               new.records[d] = Bytes(f).records[d]
    BY DEF CompactionKeepsReferenced
  <2> DEFINE m == Manifest(i)
             x == Bytes(f)
             refs == Referenced(m.meta)
             new == encode_compacted_slab(m, x)
  <2>1. ManifestOK(m)
    BY LoadedOK DEF LifecycleInv
  <2>2. reassemble_manifest(m).meta = m.meta
    <3> HIDE DEF m
    <3>1. m = [meta |-> m.meta, ext |-> m.ext, slabs |-> m.slabs,
               dicts |-> m.dicts, base |-> m.base, history |-> m.history]
      BY <2>1 DEF ManifestOK
    <3>2. "meta" \in DOMAIN m
      BY <3>1
    <3> QED
      BY <3>2 DEF reassemble_manifest
  <2>3. DOMAIN new.records = refs /\ \A d \in refs : new.records[d] = CompactedRecord(x.records[d])
    BY DEF encode_compacted_slab, find_referenced_drops
  <2>4. \A d \in refs : CompactedRecord(x.records[d]) = x.records[d]
    BY DEF CompactedRecord
  <2> HIDE DEF new, x, m
  <2>5. \A k \in DOMAIN <<new>> : DOMAIN <<new>>[k].records = refs
    <3>1. DOMAIN <<new>> = {1} /\ <<new>>[1] = new
      OBVIOUS
    <3> QED
      BY <2>3, <3>1
  <2>6. gc_cmd(m.meta, <<new>>) = {}
    <3>1. ASSUME NEW slabs, NEW blob, \A k \in DOMAIN slabs : DOMAIN slabs[k].records = Referenced(blob)
          PROVE  gc_cmd(blob, slabs) = {}
      <4>1. ASSUME NEW d \in gc_cmd(blob, slabs) PROVE FALSE
        <5>1. PICK k \in DOMAIN slabs : d \in DOMAIN slabs[k].records
          BY <4>1 DEF gc_cmd
        <5>2. d \notin Referenced(blob)
          BY <4>1 DEF gc_cmd
        <5> QED
          BY <3>1, <5>1, <5>2
      <4> QED
        BY <4>1
    <3> QED
      BY <2>5, <3>1
  <2> QED
    BY <2>2, <2>3, <2>4, <2>6 DEF new, m, x
<1> QED
  BY <1>1, LifecycleAlways, PTL

----------------------------------------------------------------------------
(* Reading.                                                                *)

\* No reader sees a mix while drops are sound: a sidecar's and a slab's name
\* follow from the contents, and a manifest's slabs were written with the
\* dictionaries it lists, so a drop decodes to itself whichever slab has it, or
\* to nothing when the manifest was cut before its dictionaries.
THEOREM NoMixedImages == Spec => []NoMixedImage
<1>1. LifecycleInv => NoMixedImage
  <2> SUFFICES ASSUME LifecycleInv, rot = 0, NEW i \in Images, MetadataReadable(i)
               PROVE  /\ load_image(i) = Manifest(i).meta
                      /\ \A b \in {x \in Images : Readable(ImageFileOf(x))} :
                           LET chain == load_slab_chain(i, <<b>>) IN
                           (\A k \in DOMAIN chain : chain[k].ok) =>
                             \A d \in Referenced(Manifest(i).meta) : Plaintext(chain, d) \in {d, Error}
    BY DEF NoMixedImage
  <2>0. DiskInv
    BY DEF LifecycleInv
  <2>1. load_image(i) = Manifest(i).meta
    BY <2>0, LoadedOK
  <2>2. ASSUME NEW b \in {x \in Images : Readable(ImageFileOf(x))},
               \A k \in DOMAIN load_slab_chain(i, <<b>>) : load_slab_chain(i, <<b>>)[k].ok,
               NEW d
        PROVE  Plaintext(load_slab_chain(i, <<b>>), d) \in {d, Error}
    <3> DEFINE chain == load_slab_chain(i, <<b>>)
    <3>1. /\ DOMAIN chain = 1..2
          /\ chain[1] = Source(Manifest(i)) /\ chain[2] = Source(Manifest(b))
      BY ChainFacts
    <3>2. ManifestOK(Manifest(i)) /\ ManifestOK(Manifest(b))
      BY <2>0, <2>2, LoadedOK DEF MetadataReadable
    <3>3. Source(Manifest(i)).ok /\ Source(Manifest(b)).ok
      BY <2>2, <3>1
    <3>4. \A m : ManifestOK(m) /\ Source(m).ok =>
                   \A x \in DOMAIN Source(m).drops : Source(m).drops[x] \in {x, Error}
      BY <2>0, SoundSource
    <3>5. \A k \in 1..2 : d \in DOMAIN chain[k].drops => chain[k].drops[d] \in {d, Error}
      BY <3>1, <3>2, <3>3, <3>4
    <3> HIDE DEF chain
    <3>6. Plaintext(chain, d) \in {d, Error} \cup {Error}
      BY <3>1, <3>5, FirstHit
    <3> QED
      BY <3>6 DEF chain
  <2> QED
    BY <2>1, <2>2
<1> QED
  BY <1>1, LifecycleAlways, PTL

\* The checks are enough in whatever state crashes, rot and half-run commands
\* left the directory: what verify --deep passes is extracted exactly when it
\* lists a slab or refers to no drop, and otherwise loses every file that refers
\* to drops and no other; what check passes holds no drop that reads as something
\* else.
THEOREM ChecksSuffice == Spec => []ChecksAreEnough
<1>1. LifecycleInv => ChecksAreEnough
  <2> SUFFICES ASSUME LifecycleInv, NEW i \in Images
               PROVE  /\ check_cmd(i) => HashesMatch(Source(Manifest(i)))
                      /\ verify_deep(i) =>
                           IF Manifest(i).slabs # <<>> \/ Referenced(load_image(i)) = {}
                           THEN extract(i, <<>>).ok /\ extract(i, <<>>).exact
                           ELSE /\ ~extract(i, <<>>).exact
                                /\ extract(i, <<>>).tree =
                                     [p \in DOMAIN load_image(i) |->
                                        IF load_image(i)[p][1] = "Inline" THEN load_image(i)[p][2] ELSE <<>>]
    BY DEF ChecksAreEnough
  <2> DEFINE m == Manifest(i)
             own == Source(m)
  <2>0. DiskInv
    BY DEF LifecycleInv
  <2>1. MetadataReadable(i) => /\ ManifestOK(m) /\ IsSequence(m.slabs)
                               /\ BlobOK(load_image(i))
    BY <2>0, LoadedOK DEF MetadataReadable, ManifestOK
  <2>2. ASSUME check_cmd(i) PROVE HashesMatch(own)
    <3>1. ManifestOK(m) /\ IsSequence(m.slabs)
      BY <2>1, <2>2 DEF check_cmd
    <3>2. own.ok
      BY <2>2 DEF check_cmd, Source
    <3>3. ASSUME NEW d \in DOMAIN own.drops PROVE own.drops[d] = d
      <4>1. PICK k \in DOMAIN m.slabs :
              /\ d \in DOMAIN Bytes(m.slabs[k]).records
              /\ own.drops[d] = Decode(Bytes(m.slabs[k]).records[d], d, m.dicts)
        BY <3>1, <3>2, SourceFacts
      <4>2. Readable(m.slabs[k])
        BY <3>1, <3>2, SourceFacts
      <4>3. d # Error
        BY <2>0, <3>1, <4>1, <4>2, SlabOnDisk
      <4> DEFINE r == Bytes(m.slabs[k]).records[d]
      <4>4. Decode(r, d, None) = d
        BY <2>2, <4>1 DEF check_cmd
      <4> HIDE DEF r
      <4>5. Decode(r, d, m.dicts) = d
        BY <4>3, <4>4, DecodeFacts
      <4> QED
        BY <4>1, <4>5 DEF r
    <3> QED
      BY <3>3 DEF HashesMatch
  <2> DEFINE blob == load_image(i)
             chain == load_slab_chain(i, <<>>)
  <2>3. DOMAIN chain = 1..1 /\ chain[1] = own
    BY ChainFacts
  <2>4. ASSUME verify_deep(i)
        PROVE  /\ MetadataReadable(i) /\ own.ok /\ BlobOK(blob) /\ IsSequence(m.slabs)
               /\ m.slabs # <<>> => HashesMatch(own) /\ Referenced(blob) \subseteq DOMAIN own.drops
    BY <2>1, <2>4 DEF verify_deep
  <2>5. \A k \in DOMAIN <<>> : Readable(ImageFileOf(<<>>[k]))
    OBVIOUS
  <2>6. ASSUME verify_deep(i), m.slabs # <<>> \/ Referenced(blob) = {}
        PROVE  extract(i, <<>>).ok /\ extract(i, <<>>).exact
    <3>1. ASSUME NEW d \in Referenced(blob) PROVE Plaintext(chain, d) = d
      <4>0. HashesMatch(own) /\ Referenced(blob) \subseteq DOMAIN own.drops
        BY <2>4, <2>6, <3>1
      <4> HIDE DEF own, chain, blob
      <4>1. \A k \in 1..1 : d \in DOMAIN chain[k].drops => chain[k].drops[d] \in {d}
        BY <2>3, <4>0 DEF HashesMatch
      <4>2. \E k \in 1..1 : d \in DOMAIN chain[k].drops
        BY <2>3, <3>1, <4>0
      <4>3. Plaintext(chain, d) \in {d}
        BY <2>3, <4>1, <4>2, FirstHit
      <4> QED
        BY <4>3
    <3>2. \A k \in DOMAIN chain : chain[k].ok
      BY <2>3, <2>4, <2>6
    <3> QED
      BY <2>4, <2>5, <2>6, <3>1, <3>2, ExactExtract
  <2>7. ASSUME verify_deep(i), m.slabs = <<>>, Referenced(blob) # {}
        PROVE  /\ ~extract(i, <<>>).exact
               /\ extract(i, <<>>).tree = [p \in DOMAIN blob |-> IF blob[p][1] = "Inline" THEN blob[p][2] ELSE <<>>]
    <3> DEFINE out == [p \in DOMAIN blob |-> Chunks(blob[p], chain)]
               tree == [p \in DOMAIN blob |-> Written(out[p])]
    <3>1. /\ MetadataReadable(i) /\ own.ok /\ BlobOK(blob) /\ IsSequence(m.slabs)
          /\ \A k \in DOMAIN chain : chain[k].ok
      BY <2>3, <2>4, <2>7
    <3>2. extract(i, <<>>) = [ok    |-> \A p \in FirstFile(blob) : ~Failed(out[p]),
                              exact |-> \A p \in DOMAIN blob : out[p] = blob[p][2],
                              tree  |-> tree]
      BY <2>5, <3>1 DEF extract
    <3>3. \A d : Plaintext(chain, d) = Error
      <4>1. DOMAIN own.drops = {}
        <5>1. DOMAIN own.drops = UNION {DOMAIN Bytes(m.slabs[k]).records : k \in DOMAIN m.slabs}
          BY <3>1, SourceFacts
        <5>2. DOMAIN m.slabs = {}
          BY <2>7
        <5> QED
          BY <5>1, <5>2
      <4> HIDE DEF own, chain
      <4>2. \A k \in DOMAIN chain : DOMAIN chain[k].drops = {}
        BY <2>3, <4>1
      <4> QED
        BY <4>2 DEF Plaintext
    <3> HIDE DEF blob, chain
    <3>4. ASSUME NEW p \in DOMAIN blob
          PROVE  /\ Written(out[p]) = IF blob[p][1] = "Inline" THEN blob[p][2] ELSE <<>>
                 /\ \A d \in ToSet(blob[p][2]) : blob[p][1] = "SliceMap" => out[p] # blob[p][2]
      <4> DEFINE h == blob[p][2]
      <4>1. IsSequence(h) /\ Error \notin ToSet(h) /\ blob[p][1] \in {"Inline", "SliceMap"}
        BY <3>1 DEF BlobOK
      <4>2. CASE blob[p][1] = "Inline"
        <5>1. Chunks(blob[p], chain) = h
          BY <4>2 DEF Chunks
        <5> QED
          BY <4>1, <4>2, <5>1 DEF Failed, Written
      <4>3. CASE blob[p][1] = "SliceMap"
        <5>1. Chunks(blob[p], chain) = [k \in DOMAIN h |-> Plaintext(chain, h[k])]
          BY <4>3 DEF Chunks
        <5>2. IsSequence(Chunks(blob[p], chain))
          BY <4>1, ChunksOK
        <5> DEFINE c == Chunks(blob[p], chain)
        <5> HIDE DEF h
        <5>3. DOMAIN c = DOMAIN h /\ \A k \in DOMAIN c : c[k] = Error
          BY <3>3, <5>1
        <5>4. out[p] = c
          OBVIOUS
        <5> HIDE DEF c, out
        <5>5. Written(c) = <<>>
          BY <5>2, <5>3, WrittenOK DEF c
        <5>6. ASSUME NEW d \in ToSet(h) PROVE c # h
          <6>1. PICK k \in DOMAIN h : h[k] = d
            BY <5>6 DEF ToSet
          <6>2. c[k] = Error /\ h[k] # Error
            BY <4>1, <5>3, <5>6, <6>1
          <6> QED
            BY <6>2
        <5> QED
          BY <4>3, <5>4, <5>5, <5>6 DEF h
      <4> QED
        BY <4>1, <4>2, <4>3
    <3>5. PICK p \in DOMAIN blob : blob[p][1] = "SliceMap" /\ \E d : d \in ToSet(blob[p][2])
      BY <2>7 DEF Referenced
    <3>6. ~(\A q \in DOMAIN blob : out[q] = blob[q][2])
      BY <3>4, <3>5
    <3>7. tree = [q \in DOMAIN blob |-> IF blob[q][1] = "Inline" THEN blob[q][2] ELSE <<>>]
      BY <3>4
    <3> HIDE DEF out, tree
    <3> QED
      BY <3>2, <3>6, <3>7
  <2> QED
    BY <2>2, <2>6, <2>7
<1> QED
  BY <1>1, LifecycleAlways, PTL

\* Every file an image needs is on disk once no command is running.
LEMMA SettledImage ==
  ASSUME FaultlessInv, KeepInv, Quiet, NEW i, Readable(ImageFileOf(i))
  PROVE  /\ MetadataReadable(i) /\ ManifestOK(Manifest(i)) /\ Source(Manifest(i)).ok
         /\ Uncut(Manifest(i))
<1> DEFINE m == Manifest(i)
<1>1. ManifestOK(m)
  BY LoadedOK DEF FaultlessInv, LifecycleInv
<1>2. ASSUME NEW name \in Needs(m) PROVE Readable(name)
  <2>1. Exists(name) \/ Pending(name)
    BY DEF KeepInv, Readable, Exists, Manifest, Bytes, ImageFileOf
  <2>2. ~Pending(name)
    BY DEF Quiet, Idle, Pending
  <2> QED
    BY <2>1, <2>2 DEF KeepInv, Readable, Exists
<1>3. MetadataReadable(i)
  BY <1>2 DEF MetadataReadable, Needs
<1>4. \A k \in DOMAIN m.slabs : Readable(m.slabs[k])
  BY <1>2 DEF Needs
<1>5. load_mmap(m).ok
  BY <1>4 DEF load_mmap
<1>6. Source(m).ok
  BY <1>5 DEF Source
<1>7. Uncut(m)
  BY DEF KeepInv, Readable, Exists, Manifest, Bytes, ImageFileOf
<1> QED
  BY <1>1, <1>3, <1>6, <1>7

\* The commands keep trees: when no command is running, none was cut short and
\* no drop has rotted, extracting an image with its base gives the tree the
\* commands built, whatever commands ran, overlapped or replaced each other's
\* files on the way.
THEOREM TreesAreKept == Spec => []CommandsKeepTrees
<1>1. FaultlessInv => CommandsKeepTrees
  <2> SUFFICES ASSUME FaultlessInv, Quiet, stops = 0, rot = 0,
                      NEW i \in DOMAIN want, want[i].known, BaseUnchanged(i)
               PROVE  ReadsBack(i)
    BY DEF CommandsKeepTrees
  <2> DEFINE w == want[i]
             b == w.base
             m == Manifest(i)
             blob == load_image(i)
             tree == w.tree
  <2>1. KeepInv /\ DiskInv
    BY DEF FaultlessInv, LifecycleInv
  <2>2. Readable(ImageFileOf(i)) /\ Keeps(w, m)
    BY <2>1 DEF KeepInv, Readable, Exists
  <2>3. MetadataReadable(i) /\ ManifestOK(m) /\ Source(m).ok /\ Uncut(m)
    BY <2>1, <2>2, SettledImage
  <2>4. blob = m.meta /\ BlobOK(blob)
    BY <2>1, <2>3, LoadedOK
  <2>5. /\ TreeOK(tree) /\ m.meta = Metadata(tree)
        /\ Referenced(blob) \subseteq
             Stored(m.slabs) \cup (IF b = None THEN {} ELSE Stored(w.root[2].slabs))
    BY <2>2, <2>4 DEF Keeps
  <2>6. /\ DOMAIN Source(m).drops = Stored(m.slabs)
        /\ \A d \in DOMAIN Source(m).drops : Source(m).drops[d] = d
    BY <2>1, <2>3, SoundSource
  <2>7. [p \in DOMAIN blob |-> blob[p][2]] = tree
    <3>1. blob = Metadata(tree)
      BY <2>4, <2>5
    <3>2. DOMAIN Metadata(tree) = DOMAIN tree /\ \A p \in DOMAIN tree : Metadata(tree)[p][2] = tree[p]
      BY DEF Metadata, ContentHandle
    <3>3. tree = [p \in DOMAIN tree |-> tree[p]]
      BY <2>5 DEF TreeOK
    <3> HIDE DEF blob, tree
    <3> QED
      BY <3>1, <3>2, <3>3
  <2>8. ASSUME NEW bases, bases = Bases(i),
               \A k \in DOMAIN bases : Readable(ImageFileOf(bases[k])),
               \A k \in DOMAIN load_slab_chain(i, bases) : load_slab_chain(i, bases)[k].ok,
               \A d \in Referenced(blob) : Plaintext(load_slab_chain(i, bases), d) = d
        PROVE  ReadsBack(i)
    <3>1. extract(i, bases).exact /\ extract(i, bases).tree = [p \in DOMAIN blob |-> blob[p][2]]
      BY <2>3, <2>4, <2>8, ExactExtract
    <3> QED
      BY <2>7, <2>8, <3>1 DEF ReadsBack
  <2>9. CASE b = None
    <3> DEFINE chain == load_slab_chain(i, <<>>)
    <3>1. Bases(i) = <<>>
      BY <2>9 DEF Bases
    <3>2. DOMAIN chain = 1..1 /\ chain[1] = Source(m)
      BY ChainFacts
    <3>3. ASSUME NEW d \in Referenced(blob) PROVE Plaintext(chain, d) = d
      <4>1. d \in DOMAIN Source(m).drops
        BY <2>5, <2>6, <2>9
      <4> HIDE DEF chain
      <4>2. \A k \in 1..1 : d \in DOMAIN chain[k].drops => chain[k].drops[d] \in {d}
        BY <2>6, <3>2
      <4>3. \E k \in 1..1 : d \in DOMAIN chain[k].drops
        BY <3>2, <4>1
      <4>4. Plaintext(chain, d) \in {d}
        BY <3>2, <4>2, <4>3, FirstHit
      <4> QED
        BY <4>4
    <3>4. \A k \in DOMAIN chain : chain[k].ok
      BY <2>3, <3>2
    <3>5. \A k \in DOMAIN <<>> : Readable(ImageFileOf(<<>>[k]))
      OBVIOUS
    <3> QED
      BY <2>8, <3>1, <3>3, <3>4, <3>5
  <2>10. CASE b # None
    <3> DEFINE chain == load_slab_chain(i, <<b>>)
               mb == Manifest(b)
    <3>1. Bases(i) = <<b>>
      BY <2>10 DEF Bases
    <3>2. Readable(ImageFileOf(b)) /\ Root(mb) = w.root
      BY <2>10 DEF BaseUnchanged
    <3>3. ManifestOK(mb) /\ Source(mb).ok /\ Uncut(mb)
      BY <2>1, <3>2, SettledImage
    <3>4. /\ DOMAIN Source(mb).drops = Stored(mb.slabs)
          /\ \A d \in DOMAIN Source(mb).drops : Source(mb).drops[d] = d
      BY <2>1, <3>3, SoundSource
    <3>5. DOMAIN chain = 1..2 /\ chain[1] = Source(m) /\ chain[2] = Source(mb)
      BY ChainFacts
    <3>6. Root(mb)[2].slabs = mb.slabs
      BY DEF Root
    <3>7. ASSUME NEW d \in Referenced(blob) PROVE Plaintext(chain, d) = d
      <4>1. d \in DOMAIN Source(m).drops \/ d \in DOMAIN Source(mb).drops
        BY <2>5, <2>6, <2>10, <3>2, <3>4, <3>6
      <4> HIDE DEF chain, mb, m
      <4>2. \A k \in 1..2 : d \in DOMAIN chain[k].drops => chain[k].drops[d] \in {d}
        BY <2>6, <3>4, <3>5
      <4>3. \E k \in 1..2 : d \in DOMAIN chain[k].drops
        BY <3>5, <4>1
      <4>4. Plaintext(chain, d) \in {d}
        BY <3>5, <4>2, <4>3, FirstHit
      <4> QED
        BY <4>4
    <3>8. \A k \in DOMAIN chain : chain[k].ok
      BY <2>3, <3>3, <3>5
    <3>9. \A k \in DOMAIN <<b>> : Readable(ImageFileOf(<<b>>[k]))
      <4>1. \A k \in DOMAIN <<b>> : <<b>>[k] = b
        OBVIOUS
      <4> QED
        BY <3>2, <4>1
    <3> QED
      BY <2>8, <3>1, <3>7, <3>8, <3>9
  <2> QED
    BY <2>9, <2>10
<1> QED
  BY <1>1, FaultlessAlways, PTL
============================================================================
