-------------------------- MODULE PagedSlabProofs --------------------------
(***************************************************************************)
(* Theorems about PagedSlab: for every page size, cache capacity, number   *)
(* of threads, transport, set of slabs and number of faults, the page      *)
(* cache holds the object's bytes and paged reads are exact.               *)
(***************************************************************************)
EXTENDS PagedSlab, SumLemmas, SequenceTheorems

P == PAGED_PAGE_SIZE

Size(o) == Len(Contents[o])

Byte == UNION {ToSet(Contents[o]) : o \in Ordinals}

\* m bytes of the object from byte a on.
Bytes(o, a, m) == [i \in 1..m |-> Contents[o][a + i]]

\* How many of the n bytes from byte a on the object has.
Extent(o, a, n) == IF a >= Size(o) THEN 0 ELSE Least(n, Size(o) - a)

\* s is those bytes or, if a reply may have been cut, the first of them.
Piece(s, o, a, n, cut) ==
  /\ Len(s) \in Nat /\ Len(s) <= Extent(o, a, n)
  /\ s = Bytes(o, a, Len(s))
  /\ ~cut => Len(s) = Extent(o, a, n)

Entry == Nat \X Seq(Byte)

\* Pages of the slab, each once.
PagesHold(c, o, cut) ==
  /\ c \in Seq(Entry)
  /\ \A j, k \in 1..Len(c) : c[j][1] = c[k][1] => j = k
  /\ \A k \in 1..Len(c) : Piece(c[k][2], o, c[k][1] * P, P, cut)

\* What a thread's state depends on besides its own record: the mode, how many slabs are open, whether a reply was
\* cut unnoticed, whether there was any fault, and whether the transport can name the objects.
Env == [mode |-> mode, opened |-> opened, cut |-> cuts, bad |-> faults > 0, reach |-> Reachable]

EnvOK(e) ==
  /\ e.mode \in {"raw", "set"} /\ e.cut \in BOOLEAN /\ e.bad \in BOOLEAN /\ e.reach \in BOOLEAN
  /\ e.cut => e.bad
  /\ e.opened \in 0..Len(Slabs)
  /\ e.opened > 0 => e.mode = "set" /\ e.reach

\* What the lock of the page cache protects.
CacheOK(c, o, e) ==
  PagesHold(c, o, e.cut) /\ Len(c) <= CachePages /\ (c # <<>> => e.reach)

\* What may be known of a length.
LenOK(l, o, e) ==
  /\ l \in Nat
  /\ \/ l \in {UNKNOWN_LEN, Size(o)}
     \/ e.cut /\ l < Size(o)
     \/ e.mode = "raw" /\ l > Size(o)
  /\ o <= e.opened => l = Size(o)

SharedOK(lens, caches, e) ==
  /\ EnvOK(e)
  /\ DOMAIN lens = Ordinals /\ \A o \in Ordinals : LenOK(lens[o], o, e)
  /\ DOMAIN caches = Ordinals /\ \A o \in Ordinals : CacheOK(caches[o], o, e)

\* Operation op of thread t reads n bytes at a of slab o.
RawAsks(op, o, a, n, e) ==
  e.mode = "raw" /\ o = 1 /\ op = <<"raw", a, n>> /\ <<a, n>> \in RawReads

OpenAsks(t, op, o, a, n, e) ==
  /\ e.mode = "set" /\ t = Opener /\ o = e.opened + 1 /\ o \in Ordinals
  /\ \/ op = <<"header">> /\ a = 0 /\ n = SLAB_HEADER_LEN
     \/ \E k \in 1..Len(Slabs[o].records) :
          /\ op = <<"record", k>> /\ n = DROP_RECORD_LEN
          /\ a = SLAB_HEADER_LEN + (k - 1) * DROP_RECORD_LEN

DropAsks(op, o, a, n, e) ==
  /\ e.mode = "set" /\ e.opened = Len(Slabs) /\ o \in Ordinals
  /\ \E k \in 1..Len(Slabs[o].records) :
       /\ op = <<"drop", Slabs[o].records[k].id>>
       /\ find_record(o, Slabs[o].records[k].id) = Slabs[o].records[k] /\ Slabs[o].records[k].readable
       /\ a = WindowStart(o) + Slabs[o].records[k].off /\ n = Slabs[o].records[k].len

Asks(t, op, o, a, n, e) == RawAsks(op, o, a, n, e) \/ OpenAsks(t, op, o, a, n, e) \/ DropAsks(op, o, a, n, e)

\* An error is a right answer of op.
MayFail(op, e) ==
  /\ op[1] = "raw" => e.bad \/ ~e.reach \/ op[2] + op[3] > Size(1)
  /\ op[1] = "drop" => e.bad

\* The page in slot j of a read, or the first bytes of it.
SlotOK(s, o, first, j, e) == Piece(s, o, (first + j - 1) * P, P, e.cut)

\* The range of a read and the pages that cover it.
RangeOK(th, n, e) ==
  /\ th.offset \in Nat /\ th.end \in Nat /\ th.first \in Nat
  /\ th.offset <= th.end /\ th.end <= th.offset + n /\ th.offset + n <= MaxU64
  /\ th.end = th.offset + n \/ Size(th.slab) <= th.end \/ e.cut
  /\ th.pages \in Seq(Seq(Byte))
  /\ \/ th.pages = <<>> /\ th.end = th.offset
     \/ /\ Len(th.pages) > 0 /\ th.first * P <= th.offset /\ th.offset < (th.first + 1) * P
        /\ (th.first + Len(th.pages) - 1) * P < th.end /\ th.end <= (th.first + Len(th.pages)) * P

\* The slots before "to" have what the object has of their pages; a later slot has it or nothing.
PagesOK(pages, o, first, to, e) ==
  /\ \A j \in 1..Len(pages) : pages[j] = Missing \/ SlotOK(pages[j], o, first, j, e)
  /\ \A j \in 1..Len(pages) : j < to => SlotOK(pages[j], o, first, j, e)
  /\ (\E j \in 1..Len(pages) : pages[j] # Missing) => e.reach

\* The slots the scan has dealt with.
Settled(th) ==
  IF th.pc = "assemble" THEN Len(th.pages) + 1 ELSE IF th.pc \in {"reply", "insert"} THEN th.k ELSE th.at

\* The run that is being fetched: the request covers it, or the rest of the object.
RunOK(th, e) ==
  /\ th.k \in Nat /\ 1 <= th.k /\ th.k < th.at
  /\ th.fetch = (th.first + th.k - 1) * P
  /\ th.expected \in Nat
  /\ th.fetch + th.expected = (th.first + th.at - 1) * P \/ th.fetch + th.expected >= Size(th.slab) \/ e.cut
  /\ \/ th.expected > 0 /\ th.expected <= (th.at - th.k) * P /\ th.fetch + th.expected <= MaxU64
     \/ MayFail(th.op, e)

\* A thread is a record.
Shape(th) ==
  DOMAIN th = {"pc", "op", "res", "slab", "offset", "end", "first", "pages", "at", "k", "fetch", "expected", "bytes"}

\* th has asked for something, and its range and pages are as they should be.
Reading(t, th, e) ==
  /\ th.slab \in Ordinals
  /\ \E n \in 0..MaxU64 : Asks(t, th.op, th.slab, th.offset, n, e) /\ RangeOK(th, n, e)
  /\ th.at \in Nat /\ 1 <= th.at /\ th.at <= Len(th.pages) + 1

ReadOK(t, th, e) ==
  /\ th.pc \in {"collect", "request", "reply", "insert", "assemble"}
  /\ Reading(t, th, e)
  /\ PagesOK(th.pages, th.slab, th.first, Settled(th), e)
  /\ th.pc = "collect" => th.at = 1
  /\ th.pc \in {"reply", "insert"} => RunOK(th, e)
  /\ th.pc = "insert" => Piece(th.bytes, th.slab, th.fetch, th.expected, e.cut) /\ e.reach

\* The result of a finished operation: the three conjuncts of PagedReadIsExact.
ResultOK(op, res, e) ==
  /\ op[1] = "raw" =>
       LET exact == ClampedSlice(Contents[1], op[2], op[3]) IN
       /\ res.ok => res.bytes = exact \/ (e.cut /\ IsPrefix(res.bytes, exact))
       /\ ~res.ok => e.bad \/ ~e.reach \/ op[2] + op[3] > Len(Contents[1])
  /\ op[1] = "drop" =>
       \E o \in Ordinals :
         /\ \E k \in 1..Len(Slabs[o].records) : Slabs[o].records[k].id = op[2]
         /\ LET r == find_record(o, op[2]) IN
            /\ res.ok => Decodable(r) /\ res.bytes = ClampedSlice(Contents[o], WindowStart(o) + r.off, r.len)
            /\ ~res.ok => e.bad \/ ~Decodable(r)
  /\ op[1] = "failed" => e.bad \/ ~e.reach

ThreadOK(t, th, e) ==
  Shape(th) /\ IF th.pc = "idle" THEN ResultOK(th.op, th.res, e) ELSE ReadOK(t, th, e)

\* The inductive invariant.
PagedInv ==
  /\ transport \in Transports /\ faults \in Nat
  /\ SharedOK(len, cache, Env)
  /\ DOMAIN thread = Threads /\ \A t \in Threads : ThreadOK(t, thread[t], Env)

----------------------------------------------------------------------------
(* Bytes.                                                                  *)

\* An object and a page are finite, and no object reaches into the last page below 2^64.
LEMMA SizeFacts ==
  ASSUME NEW o \in Ordinals
  PROVE  /\ Size(o) \in Nat /\ Size(o) + P <= MaxU64
         /\ Contents[o] \in Seq(Byte)
         /\ P \in Nat /\ P > 0 /\ MaxU64 \in Nat
<1>1. Contents[o] \in Seq(ToSet(Contents[o])) /\ Len(Contents[o]) + P <= MaxU64
      /\ P \in Nat /\ P > 0 /\ MaxU64 \in Nat
  BY PagedAssumption DEF P
<1>2. ToSet(Contents[o]) \subseteq Byte
  BY DEF Byte
<1>3. Contents[o] \in Seq(Byte)
  BY <1>1, <1>2
<1> QED
  BY <1>1, <1>3 DEF Size

\* A stretch of the object is a sequence of its bytes.
LEMMA BytesFacts ==
  ASSUME NEW o \in Ordinals, NEW a \in Nat, NEW m \in Nat, m = 0 \/ a + m <= Size(o)
  PROVE  /\ Bytes(o, a, m) \in Seq(Byte)
         /\ Len(Bytes(o, a, m)) = m
         /\ \A i \in 1..m : Bytes(o, a, m)[i] = Contents[o][a + i]
<1>1. \A i \in 1..m : Contents[o][a + i] \in Byte
  <2>1. Contents[o] \in Seq(Byte) /\ Size(o) \in Nat
    BY SizeFacts
  <2>2. \A i \in 1..m : a + i \in 1..Len(Contents[o])
    BY <2>1 DEF Size
  <2>3. \A j \in 1..Len(Contents[o]) : Contents[o][j] \in Byte
    BY <2>1
  <2> QED
    BY <2>2, <2>3
<1>2. Bytes(o, a, m) \in [1..m -> Byte]
  BY <1>1 DEF Bytes
<1>3. Bytes(o, a, m) \in Seq(Byte) /\ Len(Bytes(o, a, m)) = m
  BY <1>2
<1> QED
  BY <1>3 DEF Bytes

\* What the object has of a range that may lie past its end.
LEMMA ExtentFacts ==
  ASSUME NEW o \in Ordinals, NEW a \in Nat, NEW n \in Nat
  PROVE  /\ Extent(o, a, n) \in Nat /\ Extent(o, a, n) <= n
         /\ Extent(o, a, n) = 0 \/ a + Extent(o, a, n) <= Size(o)
         /\ a + n <= Size(o) => Extent(o, a, n) = n
         /\ Extent(o, a, n) < n => a + Extent(o, a, n) >= Size(o)
         /\ a < Size(o) => a + Extent(o, a, n) <= Size(o)
         /\ a >= Size(o) => Extent(o, a, n) = 0
BY SizeFacts DEF Extent, Least

\* A piece of the object holds the object's bytes and ends where the object does.
LEMMA PieceFacts ==
  ASSUME NEW o \in Ordinals, NEW a \in Nat, NEW n \in Nat, NEW cut, NEW s, Piece(s, o, a, n, cut)
  PROVE  /\ s \in Seq(Byte) /\ Len(s) \in Nat /\ Len(s) <= n
         /\ Len(s) = 0 \/ a + Len(s) <= Size(o)
         /\ \A i \in 1..Len(s) : s[i] = Contents[o][a + i]
<1> DEFINE m == Len(s)
<1>1. m \in Nat /\ m <= Extent(o, a, n) /\ s = Bytes(o, a, m)
  BY DEF Piece
<1> HIDE DEF m
<1>2. m <= n /\ (m = 0 \/ a + m <= Size(o))
  <2> DEFINE e == Extent(o, a, n)
             z == Size(o)
  <2>1. e \in Nat /\ e <= n /\ (e = 0 \/ a + e <= z) /\ z \in Nat /\ m <= e
    BY <1>1, ExtentFacts, SizeFacts
  <2> HIDE DEF e, z
  <2>2. m <= n /\ (m = 0 \/ a + m <= z)
    BY <1>1, <2>1
  <2> QED
    BY <2>2 DEF z
<1>3. /\ Bytes(o, a, m) \in Seq(Byte)
      /\ \A i \in 1..m : Bytes(o, a, m)[i] = Contents[o][a + i]
  BY <1>1, <1>2, BytesFacts
<1> QED
  BY <1>1, <1>2, <1>3 DEF m

\* What Slice does to the object, or to its first l bytes.
LEMMA SliceOfBytes ==
  ASSUME NEW o \in Ordinals, NEW l \in Nat, l <= Size(o), NEW a \in Nat, NEW b \in Nat, a <= b, b <= l
  PROVE  SubSeq(Bytes(o, 0, l), a + 1, b) = Bytes(o, a, b - a)
<1> DEFINE d == Bytes(o, 0, l)
<1>1. d \in Seq(Byte) /\ Len(d) = l /\ \A i \in 1..l : d[i] = Contents[o][i]
  <2>1. \A i \in 1..l : 0 + i = i
    OBVIOUS
  <2>2. 0 \in Nat /\ (l = 0 \/ 0 + l <= Size(o))
    BY SizeFacts
  <2>3. /\ Bytes(o, 0, l) \in Seq(Byte) /\ Len(Bytes(o, 0, l)) = l
        /\ \A i \in 1..l : Bytes(o, 0, l)[i] = Contents[o][0 + i]
    BY <2>2, BytesFacts
  <2> QED
    BY <2>1, <2>3
<1> HIDE DEF d
<1> DEFINE z == SubSeq(d, a + 1, b)
<1>2. z \in Seq(Byte) /\ Len(z) = b - a /\ \A i \in 1..(b - a) : z[i] = d[a + i]
  BY <1>1
<1>3. \A i \in 1..(b - a) : z[i] = Contents[o][a + i]
  <2>1. \A i \in 1..(b - a) : a + i \in 1..l
    OBVIOUS
  <2> QED
    BY <1>1, <1>2, <2>1
<1>4. z = [i \in 1..(b - a) |-> z[i]]
  BY <1>2
<1> HIDE DEF z
<1>5. z = [i \in 1..(b - a) |-> Contents[o][a + i]]
  BY <1>3, <1>4
<1>6. Bytes(o, a, b - a) = [i \in 1..(b - a) |-> Contents[o][a + i]]
  BY DEF Bytes
<1> QED
  BY <1>5, <1>6 DEF z, d

\* The whole object is a stretch of itself.
LEMMA ContentsAreBytes ==
  ASSUME NEW o \in Ordinals PROVE Contents[o] = Bytes(o, 0, Size(o))
<1>1. Contents[o] \in Seq(Byte) /\ Size(o) \in Nat
  BY SizeFacts
<1>2. Contents[o] = [i \in 1..Size(o) |-> Contents[o][i]]
  BY <1>1 DEF Size
<1>3. \A i \in 1..Size(o) : 0 + i = i
  OBVIOUS
<1> QED
  BY <1>2, <1>3 DEF Bytes

LEMMA EmptyBytes == ASSUME NEW o, NEW a PROVE Bytes(o, a, 0) = <<>>
BY DEF Bytes

\* ClampedSlice of the object's first l bytes.
LEMMA ClampOfBytes ==
  ASSUME NEW o \in Ordinals, NEW l \in Nat, l <= Size(o), NEW a \in Nat, NEW n \in Nat
  PROVE  ClampedSlice(Bytes(o, 0, l), a, n) = Bytes(o, a, IF a >= l THEN 0 ELSE Least(n, l - a))
<1> DEFINE d == Bytes(o, 0, l)
<1>0. ASSUME NEW x \in Nat, NEW y \in Nat, x <= y, y <= l PROVE SubSeq(d, x + 1, y) = Bytes(o, x, y - x)
  BY ZenonT(60), <1>0, SliceOfBytes
<1>1. Len(d) = l
  <2>1. 0 \in Nat /\ (l = 0 \/ 0 + l <= Size(o))
    BY SizeFacts
  <2> QED
    BY <2>1, BytesFacts
<1> HIDE DEF d
<1>2. CASE a >= l
  <2>1. SubSeq(d, l + 1, l) = Bytes(o, l, l - l)
    BY <1>0
  <2>2. Least(a, l) = l /\ Least(l + n, l) = l
    BY <1>2 DEF Least
  <2>3. ClampedSlice(d, a, n) = SubSeq(d, l + 1, l)
    BY <1>1, <2>2 DEF ClampedSlice, Slice
  <2> QED
    BY <1>2, <2>1, <2>3, EmptyBytes DEF d
<1>3. CASE a < l
  <2> DEFINE b == IF a + n < l THEN a + n ELSE l
  <2>1. b \in Nat /\ a <= b /\ b <= l
    BY <1>3
  <2>2. b - a = Least(n, l - a)
    BY <1>3 DEF Least
  <2>3. ClampedSlice(d, a, n) = SubSeq(d, a + 1, b)
    BY <1>1, <1>3 DEF ClampedSlice, Slice, Least
  <2> HIDE DEF b
  <2>4. SubSeq(d, a + 1, b) = Bytes(o, a, b - a)
    BY <1>0, <2>1
  <2>5. ~(a >= l)
    BY <1>3
  <2> QED
    BY <2>2, <2>3, <2>4, <2>5 DEF d
<1> QED
  BY <1>2, <1>3

\* ClampedSlice of the object is what it has of the range.
LEMMA ClampIs ==
  ASSUME NEW o \in Ordinals, NEW a \in Nat, NEW n \in Nat
  PROVE  ClampedSlice(Contents[o], a, n) = Bytes(o, a, Extent(o, a, n))
<1>1. Contents[o] = Bytes(o, 0, Size(o)) /\ Size(o) \in Nat
  BY ContentsAreBytes, SizeFacts
<1> QED
  BY <1>1, ClampOfBytes DEF Extent

\* What the invariant says of bytes in terms of the property.
LEMMA PieceIsPrefix ==
  ASSUME NEW o \in Ordinals, NEW a \in Nat, NEW n \in Nat, NEW cut, NEW s, Piece(s, o, a, n, cut)
  PROVE  /\ ~cut => s = ClampedSlice(Contents[o], a, n)
         /\ IsPrefix(s, ClampedSlice(Contents[o], a, n))
<1> DEFINE e == Extent(o, a, n)
           m == Len(s)
<1>1. e \in Nat /\ (e = 0 \/ a + e <= Size(o)) /\ m \in Nat /\ m <= e /\ s = Bytes(o, a, m)
      /\ (~cut => m = e)
  BY ExtentFacts DEF Piece
<1>2. ClampedSlice(Contents[o], a, n) = Bytes(o, a, e)
  BY ClampIs
<1> HIDE DEF e, m
<1>3. m = 0 \/ a + m <= Size(o)
  BY <1>1, SizeFacts
<1> DEFINE big == Bytes(o, a, e)
           small == Bytes(o, a, m)
<1>4. /\ big \in Seq(Byte) /\ Len(big) = e /\ \A i \in 1..e : big[i] = Contents[o][a + i]
      /\ small \in Seq(Byte) /\ Len(small) = m /\ \A i \in 1..m : small[i] = Contents[o][a + i]
  BY <1>1, <1>3, BytesFacts
<1> HIDE DEF big, small
<1>5. IsPrefix(small, big)
  <2>1. SubSeq(small, 1, m) = small
    BY <1>1, <1>4
  <2> DEFINE z == SubSeq(big, 1, m)
  <2>2. z \in Seq(Byte) /\ Len(z) = m /\ \A i \in 1..m : z[i] = big[i]
    BY <1>1, <1>4
  <2>3. z = [i \in 1..m |-> z[i]] /\ small = [i \in 1..m |-> small[i]]
    BY <1>4, <2>2
  <2> HIDE DEF z
  <2>4. \A i \in 1..m : z[i] = small[i]
    <3>1. \A i \in 1..m : i \in 1..e
      BY <1>1
    <3> QED
      BY <1>4, <2>2, <3>1
  <2>5. z = small
    BY <2>3, <2>4
  <2> QED
    BY <1>1, <1>4, <2>1, <2>5 DEF IsPrefix, z
<1> QED
  BY <1>1, <1>2, <1>5 DEF big, small

\* A stretch of the right length is a piece.
LEMMA PieceOf ==
  ASSUME NEW o \in Ordinals, NEW a \in Nat, NEW n \in Nat, NEW cut,
         NEW m \in Nat, m <= Extent(o, a, n), ~cut => m = Extent(o, a, n)
  PROVE  Piece(Bytes(o, a, m), o, a, n, cut) /\ Len(Bytes(o, a, m)) = m
<1> DEFINE e == Extent(o, a, n)
<1>1. e \in Nat /\ (e = 0 \/ a + e <= Size(o)) /\ Size(o) \in Nat /\ m <= e
  BY ExtentFacts, SizeFacts
<1> HIDE DEF e
<1>2. m = 0 \/ a + m <= Size(o)
  BY <1>1
<1>3. Len(Bytes(o, a, m)) = m
  BY <1>2, BytesFacts
<1> QED
  BY <1>3 DEF Piece

----------------------------------------------------------------------------
(* Answers of the transport.                                               *)

AnswerTo(tr, o, a, n, r) ==
  IF tr.multi THEN multi_fetch_range(tr.locs, tr.uri, Contents[o], a, n, r)
  ELSE fetch_range(tr.locs[1], tr.uri, Contents[o], a, n, r)

RangeOf(tr, a, n) == IF tr.multi THEN NoRange ELSE RangeHeader(a, n)

\* The connection of r was cut and nobody could tell.
CutUnseen(r) == ~Whole(r) /\ r.frame = "close"

\* What a server may answer (Responses).
LEMMA ResponseFacts ==
  ASSUME NEW o \in Ordinals, NEW range, NEW faulty \in BOOLEAN,
         NEW r \in Responses(Contents[o], range, faulty)
  PROVE  /\ r.body = Body(Contents[o], range, r.status)
         /\ r.arrived \in Nat
         /\ r.status \in Statuses(Contents[o], range) \cup {404, 503}
         /\ ~faulty => r.status \in Statuses(Contents[o], range) /\ r.arrived = Size(o)
<1>1. CutPoints \subseteq Nat /\ Size(o) \in Nat
  BY PagedAssumption, SizeFacts
<1> DEFINE st == Statuses(Contents[o], range)
           bd(s) == Body(Contents[o], range, s)
<1> HIDE DEF st, bd
<1>2. CASE faulty
  <2>1. r \in {[status |-> s, frame |-> f, body |-> bd(s), arrived |-> n] :
                 s \in st \cup {404, 503}, f \in Frames, n \in CutPoints}
    BY <1>2 DEF Responses, st, bd
  <2>2. PICK s \in st \cup {404, 503}, f \in Frames, n \in CutPoints :
          r = [status |-> s, frame |-> f, body |-> bd(s), arrived |-> n]
    BY <2>1
  <2> QED
    BY <1>1, <1>2, <2>2 DEF st, bd
<1>3. CASE ~faulty
  <2>1. r \in {[status |-> s, frame |-> "content-length", body |-> bd(s), arrived |-> Size(o)] : s \in st}
    BY <1>3 DEF Responses, st, bd, Size
  <2>2. PICK s \in st : r = [status |-> s, frame |-> "content-length", body |-> bd(s), arrived |-> Size(o)]
    BY <2>1
  <2> QED
    BY <1>1, <1>3, <2>2 DEF st, bd
<1> QED
  BY <1>2, <1>3

\* What a body that is bytes b, b + 1, ... of the object is read as.
LEMMA ReadFacts ==
  ASSUME NEW o \in Ordinals, NEW b \in Nat, NEW m \in Nat, m = 0 \/ b + m <= Size(o),
         NEW r, r.body = Bytes(o, b, m), r.arrived \in Nat
  PROVE  /\ read_response(r).ok =>
              \E l \in Nat : /\ read_response(r).bytes = Bytes(o, b, l) /\ l <= m
                             /\ ~CutUnseen(r) => l = m
         /\ ~read_response(r).ok => ~Whole(r)
         /\ read_response(r).ok \in BOOLEAN
<1>1. Len(r.body) = m /\ r.body \in Seq(Byte) /\ \A i \in 1..m : r.body[i] = Contents[o][b + i]
  BY BytesFacts
<1>2. CASE Whole(r)
  <2>1. read_response(r) = [ok |-> TRUE, bytes |-> Bytes(o, b, m)]
    BY <1>2 DEF read_response, Ok
  <2> QED
    BY <1>2, <2>1 DEF CutUnseen
<1>3. CASE ~Whole(r) /\ r.frame = "close"
  <2> DEFINE l == r.arrived
  <2>1. l \in Nat /\ l <= m
    BY <1>1, <1>3 DEF Whole
  <2> DEFINE z == SubSeq(r.body, 1, l)
  <2>2. z \in Seq(Byte) /\ Len(z) = l /\ \A i \in 1..l : z[i] = r.body[i]
    BY <1>1, <2>1
  <2>3. z = [i \in 1..l |-> z[i]]
    BY <2>2
  <2>4. read_response(r) = [ok |-> TRUE, bytes |-> z]
    BY <1>3 DEF read_response, Ok
  <2> HIDE DEF z, l
  <2>5. \A i \in 1..l : z[i] = Contents[o][b + i]
    <3>1. \A i \in 1..l : i \in 1..m
      BY <2>1
    <3> QED
      BY <1>1, <2>2, <3>1
  <2>6. z = Bytes(o, b, l)
    BY <2>3, <2>5 DEF Bytes
  <2> QED
    BY <1>3, <2>1, <2>4, <2>6 DEF CutUnseen
<1>4. CASE ~Whole(r) /\ r.frame # "close"
  <2>1. read_response(r) = [ok |-> FALSE, bytes |-> <<>>]
    BY <1>4 DEF read_response, Err
  <2> QED
    BY <1>4, <2>1
<1> QED
  BY <1>2, <1>3, <1>4

\* A range cut out of the object, or of the part of it that came.
LEMMA ClampPiece ==
  ASSUME NEW o \in Ordinals, NEW a \in Nat, NEW n \in Nat, NEW l \in Nat, l <= Size(o),
         NEW cut, ~cut => l = Size(o)
  PROVE  /\ Piece(ClampedSlice(Bytes(o, 0, l), a, n), o, a, n, cut)
         /\ Len(ClampedSlice(Bytes(o, 0, l), a, n)) <= n
<1> DEFINE m == IF a >= l THEN 0 ELSE Least(n, l - a)
<1>1. m \in Nat /\ m <= n /\ m <= Extent(o, a, n) /\ (l = Size(o) => m = Extent(o, a, n))
  BY SizeFacts DEF Extent, Least
<1>2. ClampedSlice(Bytes(o, 0, l), a, n) = Bytes(o, a, m)
  BY ClampOfBytes
<1> HIDE DEF m
<1>3. Piece(Bytes(o, a, m), o, a, n, cut) /\ Len(Bytes(o, a, m)) = m
  BY <1>1, PieceOf
<1> QED
  BY <1>1, <1>2, <1>3

\* A whole object, as into_body gives it.
LEMMA BodyOfAll ==
  ASSUME NEW o \in Ordinals, NEW r, r.status = 200, r.body = Contents[o], r.arrived \in Nat
  PROVE  /\ into_body(r).ok =>
              \E l \in Nat : l <= Size(o) /\ into_body(r).bytes = Bytes(o, 0, l) /\ (~CutUnseen(r) => l = Size(o))
         /\ ~into_body(r).ok => ~Whole(r)
<1>1. r.body = Bytes(o, 0, Size(o)) /\ Size(o) \in Nat /\ (Size(o) = 0 \/ 0 + Size(o) <= Size(o))
  BY ContentsAreBytes, SizeFacts
<1>2. into_body(r) = read_response(r)
  BY DEF into_body
<1> QED
  BY <1>1, <1>2, ReadFacts

\* HttpLocator::fetch_range, case by case.
LEMMA HttpCases ==
  ASSUME NEW a \in Nat, NEW n \in Nat, NEW r
  PROVE  /\ a + n > MaxU64 => http_fetch_range(a, n, r) = Err
         /\ a + n <= MaxU64 =>
              /\ r.status = 200 =>
                   http_fetch_range(a, n, r) =
                     IF into_body(r).ok THEN Ok(ClampedSlice(into_body(r).bytes, a, n)) ELSE Err
              /\ r.status = 206 => http_fetch_range(a, n, r) = into_body(r)
              /\ r.status = 416 => http_fetch_range(a, n, r) = Ok(<<>>)
              /\ r.status \notin {200, 206, 416} => http_fetch_range(a, n, r) = Err
<1>0. MaxU64 \in Nat
  BY PagedAssumption
<1> DEFINE over == a + n > MaxU64
           fits == a + n <= MaxU64
<1>1. over <=> ~fits
  BY <1>0
<1> HIDE DEF over, fits
<1> DEFINE b == into_body(r)
           c == ClampedSlice(b.bytes, a, n)
<1> HIDE DEF b, c
<1>2. http_fetch_range(a, n, r) =
        CASE over -> Err
          [] r.status = 200 /\ fits -> IF b.ok THEN Ok(c) ELSE Err
          [] r.status = 206 /\ fits -> b
          [] r.status = 416 /\ fits -> Ok(<<>>)
          [] OTHER -> Err
  BY DEF http_fetch_range, over, fits, b, c
<1>3. over => http_fetch_range(a, n, r) = Err
  BY <1>1, <1>2
<1>4. fits /\ r.status = 200 => http_fetch_range(a, n, r) = IF b.ok THEN Ok(c) ELSE Err
  BY <1>1, <1>2
<1>5. fits /\ r.status = 206 => http_fetch_range(a, n, r) = b
  BY <1>1, <1>2
<1>6. fits /\ r.status = 416 => http_fetch_range(a, n, r) = Ok(<<>>)
  BY <1>1, <1>2
<1>7. fits /\ r.status \notin {200, 206, 416} => http_fetch_range(a, n, r) = Err
  BY <1>1, <1>2
<1> QED
  BY <1>3, <1>4, <1>5, <1>6, <1>7 DEF over, fits, b, c

\* What an answer means: the bytes of the range, or an error that has a reason.
Answers(ans, o, a, n, cut, bad) ==
  /\ ans.ok /\ ~(Len(ans.bytes) > n) => Piece(ans.bytes, o, a, n, cut)
  /\ ~ans.ok \/ Len(ans.bytes) > n => bad \/ a + n > MaxU64 \/ n = 0

\* The body of an answer that ignores the range, and of one that honours it.
LEMMA BodyCases ==
  ASSUME NEW o \in Ordinals, NEW range
  PROVE  /\ Body(Contents[o], range, 200) = Contents[o]
         /\ Body(Contents[o], range, 206) = Slice(Contents[o], range[1], Least(range[2] + 1, Len(Contents[o])))
BY DEF Body

\* http_fetch_range gives the range, the first bytes of it after an unseen cut, or an error after a fault.
LEMMA HttpAnswers ==
  ASSUME NEW o \in Ordinals, NEW a \in Nat, NEW n \in Nat, NEW r, NEW bad,
         r.status \in Statuses(Contents[o], RangeHeader(a, n)) \cup {404, 503},
         r.body = Body(Contents[o], RangeHeader(a, n), r.status), r.arrived \in Nat,
         ~bad => Whole(r) /\ r.status \notin {404, 503}
  PROVE  Answers(http_fetch_range(a, n, r), o, a, n, CutUnseen(r), bad)
<1> DEFINE ans == http_fetch_range(a, n, r)
           range == RangeHeader(a, n)
<1>0. MaxU64 \in Nat /\ Size(o) \in Nat
  BY SizeFacts
<1>1. CASE a + n > MaxU64
  <2>1. ans = [ok |-> FALSE, bytes |-> <<>>]
    BY <1>1, HttpCases DEF Err
  <2> HIDE DEF ans
  <2> QED
    BY <1>1, <2>1 DEF Answers, ans
<1>2. CASE a + n <= MaxU64 /\ r.status = 200
  <2>1. r.body = Contents[o]
    BY <1>2, BodyCases
  <2>2. ans = IF into_body(r).ok THEN Ok(ClampedSlice(into_body(r).bytes, a, n)) ELSE Err
    BY <1>2, HttpCases
  <2> HIDE DEF ans
  <2>3. CASE into_body(r).ok
    <3>1. PICK l \in Nat : l <= Size(o) /\ into_body(r).bytes = Bytes(o, 0, l) /\ (~CutUnseen(r) => l = Size(o))
      BY <1>2, <2>1, <2>3, BodyOfAll
    <3> DEFINE s == ClampedSlice(Bytes(o, 0, l), a, n)
    <3>2. Piece(s, o, a, n, CutUnseen(r)) /\ Len(s) <= n
      BY <3>1, ClampPiece
    <3>3. ans = [ok |-> TRUE, bytes |-> s]
      BY <2>2, <2>3, <3>1 DEF Ok
    <3> HIDE DEF s
    <3>4. ans.ok /\ ans.bytes = s /\ Len(s) \in Nat
      BY <3>2, <3>3 DEF Piece
    <3>5. ~(Len(s) > n)
      BY <3>2, <3>4
    <3> QED
      BY <3>2, <3>4, <3>5 DEF Answers, ans
  <2>4. CASE ~into_body(r).ok
    <3>1. ans = [ok |-> FALSE, bytes |-> <<>>]
      BY <2>2, <2>4 DEF Err
    <3>2. ~Whole(r)
      BY <1>2, <2>1, <2>4, BodyOfAll
    <3> QED
      BY <3>1, <3>2 DEF Answers, ans
  <2> QED
    BY <2>3, <2>4
<1>3. CASE a + n <= MaxU64 /\ r.status = 206
  <2> DEFINE c == IF a + n = 0 THEN 0 ELSE a + n - 1
             m == Least(c + 1, Size(o)) - a
  <2>1. range[1] = a /\ range[2] = c
    BY DEF RangeHeader
  <2>2. range[1] <= range[2] /\ range[1] < Size(o)
    <3>1. 206 \in (IF range[1] > range[2] THEN {} ELSE IF range[1] >= Size(o) THEN {416} ELSE {206}) \cup {200}
      BY <1>3 DEF Statuses, Size
    <3>2. ~(range[1] > range[2]) /\ ~(range[1] >= Size(o))
      BY <3>1
    <3> HIDE DEF range
    <3>3. range[1] \in Nat /\ range[2] \in Nat
      BY <2>1
    <3> QED
      BY <1>0, <3>2, <3>3
  <2>3. /\ c \in Nat /\ a <= c /\ a < Size(o)
        /\ m \in Nat /\ a <= a + m /\ a + m <= Size(o)
        /\ n > 0 => m = Extent(o, a, n)
    BY <1>0, <2>1, <2>2 DEF Extent, Least
  <2>4. r.body = Bytes(o, a, m)
    <3>1. r.body = SubSeq(Contents[o], a + 1, Least(c + 1, Size(o)))
      <4>1. r.body = Slice(Contents[o], range[1], Least(range[2] + 1, Len(Contents[o])))
        BY <1>3, BodyCases
      <4> HIDE DEF range
      <4> QED
        BY <2>1, <4>1 DEF Slice, Size
    <3>2. Least(c + 1, Size(o)) = a + m
      BY <1>0, <2>3 DEF Least
    <3> HIDE DEF m
    <3>3. SubSeq(Bytes(o, 0, Size(o)), a + 1, a + m) = Bytes(o, a, (a + m) - a)
      <4>1. a + m \in Nat /\ a <= a + m /\ a + m <= Size(o) /\ Size(o) <= Size(o)
        BY <1>0, <2>3
      <4>2. ASSUME NEW l \in Nat, l <= Size(o), NEW b \in Nat, a <= b, b <= l
            PROVE  SubSeq(Bytes(o, 0, l), a + 1, b) = Bytes(o, a, b - a)
        BY ZenonT(60), <4>2, SliceOfBytes
      <4> QED
        BY <1>0, <4>1, <4>2
    <3>4. (a + m) - a = m
      BY <2>3
    <3> QED
      BY <3>1, <3>2, <3>3, <3>4, ContentsAreBytes
  <2>5. ans = read_response(r)
    BY <1>3, HttpCases DEF into_body
  <2> HIDE DEF ans, m
  <2>6. CASE ~ans.ok
    <3>1. ~Whole(r)
      BY <2>3, <2>4, <2>5, <2>6, ReadFacts
    <3> QED
      BY <2>6, <3>1 DEF Answers, ans
  <2>7. CASE ans.ok /\ n > 0
    <3>1. PICK l \in Nat : ans.bytes = Bytes(o, a, l) /\ l <= m /\ (~CutUnseen(r) => l = m)
      BY <2>3, <2>4, <2>5, <2>7, ReadFacts
    <3>2. Piece(Bytes(o, a, l), o, a, n, CutUnseen(r)) /\ Len(Bytes(o, a, l)) = l
      BY <2>3, <2>7, <3>1, PieceOf
    <3>3. ~(Len(ans.bytes) > n)
      BY <2>3, <2>7, <3>1, <3>2, ExtentFacts
    <3> QED
      BY <2>7, <3>1, <3>2, <3>3 DEF Answers, ans
  <2>8. CASE ans.ok /\ n = 0
    <3>1. PICK l \in Nat : ans.bytes = Bytes(o, a, l) /\ l <= m
      BY <2>3, <2>4, <2>5, <2>8, ReadFacts
    <3>2. Len(ans.bytes) = l
      BY <1>0, <2>3, <3>1, BytesFacts
    <3>3. l <= n => Piece(Bytes(o, a, l), o, a, n, CutUnseen(r))
      <4>1. Extent(o, a, 0) = 0
        BY ExtentFacts
      <4> QED
        BY <2>8, <4>1, PieceOf
    <3> QED
      BY <2>8, <3>1, <3>2, <3>3 DEF Answers, ans
  <2> QED
    BY <2>6, <2>7, <2>8
<1>4. CASE a + n <= MaxU64 /\ r.status = 416
  <2>1. a >= Size(o)
    <3>1. 416 \in (IF range[1] > range[2] THEN {} ELSE IF range[1] >= Size(o) THEN {416} ELSE {206}) \cup {200}
      BY <1>4 DEF Statuses, Size
    <3>2. range[1] >= Size(o)
      BY <3>1
    <3> QED
      BY <3>2 DEF RangeHeader
  <2>2. Extent(o, a, n) = 0
    BY <2>1, ExtentFacts
  <2>3. ans = [ok |-> TRUE, bytes |-> <<>>]
    BY <1>4, HttpCases DEF Ok
  <2>4. Piece(Bytes(o, a, 0), o, a, n, CutUnseen(r))
    BY <2>2, PieceOf
  <2>5. Piece(<<>>, o, a, n, CutUnseen(r)) /\ ~(Len(<<>>) > n)
    BY <2>4, EmptyBytes
  <2> HIDE DEF ans
  <2> QED
    BY <2>3, <2>5 DEF Answers, ans
<1>5. CASE a + n <= MaxU64 /\ r.status \notin {200, 206, 416}
  <2>1. ans = [ok |-> FALSE, bytes |-> <<>>]
    BY <1>5, HttpCases DEF Err
  <2>2. bad
    <3>1. r.status \in (IF range[1] > range[2] THEN {} ELSE IF range[1] >= Size(o) THEN {416} ELSE {206})
                       \cup {200} \cup {404, 503}
      BY DEF Statuses, Size
    <3> HIDE DEF range
    <3>2. r.status \in {404, 503}
      BY <1>5, <3>1
    <3> QED
      BY <3>2
  <2> HIDE DEF ans
  <2> QED
    BY <2>1, <2>2 DEF Answers, ans
<1>6. a + n > MaxU64 \/ a + n <= MaxU64
  BY <1>0
<1> QED
  BY <1>1, <1>2, <1>3, <1>4, <1>5, <1>6

\* The locator can name what it is asked for.
Reaches(loc, uri) ==
  \/ UsesHttp(loc) /\ parse_http_url(HttpUri(loc, uri))
  \/ ~UsesHttp(loc) /\ resolve(uri)

\* When a transport can name the object.
LEMMA ReachableIs ==
  /\ transport.multi =>
       (Reachable <=> Registered(transport.locs, transport.uri) # <<>>
                      /\ Reaches(Registered(transport.locs, transport.uri)[1], transport.uri))
  /\ ~transport.multi => (Reachable <=> transport.locs # <<>> /\ Reaches(transport.locs[1], transport.uri))
<1> DEFINE R(loc, uri) == parse_http_url(HttpUri(loc, uri))
           H(loc) == UsesHttp(loc)
           F(uri) == resolve(uri)
           regd == Registered(transport.locs, transport.uri)
<1>1. /\ Remote <=> (IF transport.multi THEN regd ELSE transport.locs) # <<>>
                    /\ H((IF transport.multi THEN regd ELSE transport.locs)[1])
                    /\ R((IF transport.multi THEN regd ELSE transport.locs)[1], transport.uri)
      /\ Reachable <=> (IF transport.multi THEN regd ELSE transport.locs) # <<>>
                    /\ (Remote \/ (~H((IF transport.multi THEN regd ELSE transport.locs)[1]) /\ F(transport.uri)))
      /\ \A l, u : Reaches(l, u) <=> (H(l) /\ R(l, u)) \/ (~H(l) /\ F(u))
  BY Zenon DEF Remote, Reachable, Reaches
<1> HIDE DEF R, H, F, regd
<1>2. CASE transport.multi
  <2>1. (IF transport.multi THEN regd ELSE transport.locs) = regd
    BY <1>2
  <2> QED
    BY <1>1, <1>2, <2>1 DEF regd
<1>3. CASE ~transport.multi
  <2>1. (IF transport.multi THEN regd ELSE transport.locs) = transport.locs
    BY <1>3
  <2> QED
    BY <1>1, <1>3, <2>1 DEF regd
<1> QED
  BY <1>2, <1>3

\* Locator::fetch, and the range of the default fetch_range cut out of it.
LEMMA FetchAnswers ==
  ASSUME NEW o \in Ordinals, NEW a \in Nat, NEW n \in Nat, NEW r, NEW bad, NEW loc, NEW uri,
         UsesHttp(loc) =>
           /\ r.status \in {200, 404, 503}
           /\ r.body = Body(Contents[o], NoRange, r.status)
           /\ r.arrived \in Nat
           /\ ~bad => Whole(r) /\ r.status \notin {404, 503}
  PROVE  LET got == fetch(loc, uri, Contents[o], r)
             ans == IF got.ok THEN Ok(ClampedSlice(got.bytes, a, n)) ELSE Err
         IN Answers(ans, o, a, n, CutUnseen(r), bad \/ ~Reaches(loc, uri)) /\ (ans.ok => Reaches(loc, uri))
<1> DEFINE got == fetch(loc, uri, Contents[o], r)
           ans == IF got.ok THEN Ok(ClampedSlice(got.bytes, a, n)) ELSE Err
           good == Reaches(loc, uri)
<1>a. ASSUME ~got.ok, bad \/ ~good PROVE Answers(ans, o, a, n, CutUnseen(r), bad \/ ~good) /\ (ans.ok => good)
  <2>1. ans = [ok |-> FALSE, bytes |-> <<>>]
    BY <1>a DEF Err
  <2> HIDE DEF ans, good
  <2> QED
    BY <1>a, <2>1 DEF Answers
<1>b. ASSUME got.ok, good, NEW l \in Nat, l <= Size(o), got.bytes = Bytes(o, 0, l), ~CutUnseen(r) => l = Size(o)
      PROVE  Answers(ans, o, a, n, CutUnseen(r), bad \/ ~good) /\ (ans.ok => good)
  <2> DEFINE s == ClampedSlice(Bytes(o, 0, l), a, n)
  <2>1. Piece(s, o, a, n, CutUnseen(r)) /\ Len(s) <= n
    BY <1>b, ClampPiece
  <2>2. ans = [ok |-> TRUE, bytes |-> s]
    BY <1>b DEF Ok
  <2> HIDE DEF s, ans, good
  <2>3. ans.ok /\ ans.bytes = s /\ ~(Len(s) > n)
    BY <2>1, <2>2 DEF Piece
  <2> QED
    BY <1>b, <2>1, <2>3 DEF Answers
<1>1. CASE UsesHttp(loc) /\ parse_http_url(HttpUri(loc, uri))
  <2>1. got = into_body(r) /\ good
    BY <1>1 DEF fetch, Reaches
  <2> HIDE DEF got, ans, good
  <2>2. CASE r.status = 200
    <3>1. r.body = Contents[o]
      BY <1>1, <2>2, BodyCases
    <3>2. CASE got.ok
      <4>1. PICK l \in Nat : l <= Size(o) /\ into_body(r).bytes = Bytes(o, 0, l) /\ (~CutUnseen(r) => l = Size(o))
        BY <1>1, <2>1, <2>2, <3>1, <3>2, BodyOfAll
      <4>2. Answers(ans, o, a, n, CutUnseen(r), bad \/ ~good) /\ (ans.ok => good)
        BY <1>b, <2>1, <3>2, <4>1
      <4> QED
        BY <4>2 DEF ans, good, got
    <3>3. CASE ~got.ok
      <4>1. bad
        BY <1>1, <2>1, <2>2, <3>1, <3>3, BodyOfAll
      <4>2. Answers(ans, o, a, n, CutUnseen(r), bad \/ ~good) /\ (ans.ok => good)
        BY <1>a, <3>3, <4>1
      <4> QED
        BY <4>2 DEF ans, good, got
    <3> QED
      BY <3>2, <3>3
  <2>3. CASE r.status \in {404, 503}
    <3>1. got = [ok |-> FALSE, bytes |-> <<>>] /\ bad
      BY <1>1, <2>1, <2>3 DEF into_body, Err
    <3>2. Answers(ans, o, a, n, CutUnseen(r), bad \/ ~good) /\ (ans.ok => good)
      BY <1>a, <3>1
    <3> QED
      BY <3>2 DEF ans, good, got
  <2> QED
    BY <1>1, <2>2, <2>3
<1>2. CASE ~UsesHttp(loc) /\ resolve(uri)
  <2>1. got = [ok |-> TRUE, bytes |-> Contents[o]] /\ good
    BY <1>2 DEF fetch, Reaches, Ok
  <2> HIDE DEF got, ans, good
  <2>2. Contents[o] = Bytes(o, 0, Size(o)) /\ Size(o) \in Nat /\ Size(o) <= Size(o)
    BY ContentsAreBytes, SizeFacts
  <2>3. got.ok /\ got.bytes = Bytes(o, 0, Size(o))
    BY <2>1, <2>2
  <2>4. Answers(ans, o, a, n, CutUnseen(r), bad \/ ~good) /\ (ans.ok => good)
    BY <1>b, <2>1, <2>2, <2>3
  <2> QED
    BY <2>4 DEF ans, good, got
<1>3. CASE ~((UsesHttp(loc) /\ parse_http_url(HttpUri(loc, uri))) \/ (~UsesHttp(loc) /\ resolve(uri)))
  <2>1. got = [ok |-> FALSE, bytes |-> <<>>] /\ ~good
    BY <1>3 DEF fetch, Reaches, Err
  <2> HIDE DEF got, ans, good
  <2>2. Answers(ans, o, a, n, CutUnseen(r), bad \/ ~good) /\ (ans.ok => good)
    BY <1>a, <2>1
  <2> QED
    BY <2>2 DEF ans, good, got
<1> QED
  BY <1>1, <1>2, <1>3

\* What a transport answers to a request for n bytes at a.
LEMMA TransportAnswers ==
  ASSUME transport \in Transports,
         NEW o \in Ordinals, NEW a \in Nat, NEW n \in Nat, NEW faulty \in BOOLEAN,
         NEW r \in Responses(Contents[o], RangeOf(transport, a, n), faulty)
  PROVE  /\ Answers(AnswerTo(transport, o, a, n, r), o, a, n, CutUnseen(r), faulty \/ ~Reachable)
         /\ AnswerTo(transport, o, a, n, r).ok => Reachable
         /\ CutUnseen(r) => faulty
<1> DEFINE range == RangeOf(transport, a, n)
           uri == transport.uri
<1>1. /\ r.body = Body(Contents[o], range, r.status)
      /\ r.arrived \in Nat
      /\ r.status \in Statuses(Contents[o], range) \cup {404, 503}
      /\ ~faulty => r.status \in Statuses(Contents[o], range) /\ r.arrived = Size(o)
  BY ResponseFacts
<1>3. transport.multi \/ transport.locs # <<>>
  BY PagedAssumption
<1>4. ~faulty => Whole(r) /\ r.status \notin {404, 503}
  <2> HIDE DEF range
  <2>1. ASSUME ~faulty PROVE Whole(r) /\ r.status \notin {404, 503}
    <3>1. r.status \in {200, 206, 416}
      BY <1>1, <2>1 DEF Statuses
    <3>2. Size(o) \in Nat /\ Contents[o] = Bytes(o, 0, Size(o)) /\ Contents[o] \in Seq(Byte)
      BY SizeFacts, ContentsAreBytes
    <3>3. Len(r.body) <= Size(o)
      <4>1. CASE r.status = 200
        <5>1. r.body = Contents[o]
          <6>1. Body(Contents[o], range, 200) = Contents[o]
            BY BodyCases
          <6> QED
            BY <1>1, <4>1, <6>1
        <5> QED
          BY <3>2, <5>1 DEF Size
      <4>2. CASE r.status = 206
        <5>1. range[1] \in Nat /\ range[2] \in Nat
          BY DEF range, RangeOf, RangeHeader, NoRange
        <5> DEFINE y == Least(range[2] + 1, Size(o))
        <5>2. r.body = SubSeq(Contents[o], range[1] + 1, y)
          BY <1>1, <4>2, BodyCases DEF Slice, Size
        <5>3. y \in Nat /\ y <= Size(o)
          BY <3>2, <5>1 DEF Least
        <5> HIDE DEF y
        <5>4. \A x, z \in Nat : z <= Len(Contents[o]) => Len(SubSeq(Contents[o], x + 1, z)) <= Len(Contents[o])
          BY <3>2 DEF Size
        <5> QED
          BY <5>1, <5>2, <5>3, <5>4 DEF Size
      <4>3. CASE r.status = 416
        <5>1. r.body = <<>>
          BY <1>1, <4>3 DEF Body
        <5> QED
          BY <3>2, <5>1
      <4> QED
        BY <3>1, <4>1, <4>2, <4>3
    <3> QED
      BY <1>1, <2>1, <3>1, <3>2, <3>3 DEF Whole
  <2> QED
    BY <2>1
<1>5. CASE transport.multi
  <2> DEFINE regd == Registered(transport.locs, uri)
             got == fetch(regd[1], uri, Contents[o], r)
             ans == IF got.ok THEN Ok(ClampedSlice(got.bytes, a, n)) ELSE Err
  <2>1. range = NoRange
    BY <1>5 DEF RangeOf
  <2>2. r.status \in {200, 404, 503}
    <3>1. Statuses(Contents[o], NoRange) = {200}
      BY DEF Statuses, NoRange
    <3> QED
      BY <1>1, <2>1, <3>1
  <2>3. AnswerTo(transport, o, a, n, r) = IF regd = <<>> THEN Err ELSE ans
    BY <1>5 DEF AnswerTo, multi_fetch_range
  <2>4. Reachable <=> regd # <<>> /\ Reaches(regd[1], uri)
    BY <1>5, ReachableIs
  <2>5. /\ Answers(ans, o, a, n, CutUnseen(r), faulty \/ ~Reaches(regd[1], uri))
        /\ ans.ok => Reaches(regd[1], uri)
    BY <1>1, <1>4, <2>1, <2>2, FetchAnswers
  <2> HIDE DEF regd, ans
  <2>6. CASE regd = <<>>
    <3>1. AnswerTo(transport, o, a, n, r) = [ok |-> FALSE, bytes |-> <<>>] /\ ~Reachable
      BY <2>3, <2>4, <2>6 DEF Err
    <3> QED
      BY <1>4, <3>1 DEF Answers, CutUnseen
  <2>7. CASE regd # <<>>
    <3>1. AnswerTo(transport, o, a, n, r) = ans /\ (Reachable <=> Reaches(regd[1], uri))
      BY <2>3, <2>4, <2>7
    <3>2. Answers(ans, o, a, n, CutUnseen(r), faulty \/ ~Reachable)
      BY <2>5, <3>1 DEF Answers
    <3> QED
      BY <1>4, <2>5, <3>1, <3>2 DEF CutUnseen
  <2> QED
    BY <2>6, <2>7
<1>6. CASE ~transport.multi
  <2> DEFINE loc == transport.locs[1]
             ans == fetch_range(loc, uri, Contents[o], a, n, r)
  <2>1. range = RangeHeader(a, n)
    BY <1>6 DEF RangeOf
  <2>2. AnswerTo(transport, o, a, n, r) = ans
    BY <1>6 DEF AnswerTo
  <2>3. Reachable <=> Reaches(loc, uri)
    BY <1>3, <1>6, ReachableIs
  <2>4. Answers(ans, o, a, n, CutUnseen(r), faulty \/ ~Reaches(loc, uri)) /\ (ans.ok => Reaches(loc, uri))
    <3>1. CASE UsesHttp(loc) /\ parse_http_url(HttpUri(loc, uri))
      <4>1. ans = http_fetch_range(a, n, r) /\ Reaches(loc, uri)
        BY <3>1 DEF fetch_range, Reaches
      <4>2. Answers(http_fetch_range(a, n, r), o, a, n, CutUnseen(r), faulty)
        BY <1>1, <1>4, <2>1, HttpAnswers
      <4> HIDE DEF ans, loc, uri
      <4>3. Answers(ans, o, a, n, CutUnseen(r), faulty \/ ~Reaches(loc, uri))
        BY <4>1, <4>2 DEF Answers
      <4> QED
        BY <4>1, <4>3 DEF ans, loc, uri
    <3>2. CASE UsesHttp(loc) /\ ~parse_http_url(HttpUri(loc, uri))
      <4>1. ans = [ok |-> FALSE, bytes |-> <<>>] /\ ~Reaches(loc, uri)
        BY <3>2 DEF fetch_range, Reaches, Err
      <4> HIDE DEF ans, loc, uri
      <4> QED
        BY <4>1 DEF Answers, ans, loc, uri
    <3>3. CASE ~UsesHttp(loc)
      <4> DEFINE got == fetch(loc, uri, Contents[o], r)
                 alt == IF got.ok THEN Ok(ClampedSlice(got.bytes, a, n)) ELSE Err
      <4>1. ans = alt
        BY <3>3 DEF fetch_range
      <4>2. Answers(alt, o, a, n, CutUnseen(r), faulty \/ ~Reaches(loc, uri)) /\ (alt.ok => Reaches(loc, uri))
        BY <3>3, FetchAnswers
      <4> HIDE DEF ans, alt
      <4> QED
        BY <4>1, <4>2 DEF ans
    <3> QED
      BY <3>1, <3>2, <3>3
  <2> HIDE DEF ans, loc
  <2>5. Answers(ans, o, a, n, CutUnseen(r), faulty \/ ~Reachable)
    BY <2>3, <2>4 DEF Answers
  <2> QED
    BY <1>4, <2>2, <2>3, <2>4, <2>5 DEF CutUnseen
<1> QED
  BY <1>5, <1>6

----------------------------------------------------------------------------
(* The page cache.                                                         *)

\* What RemoveAt leaves of a sequence.
LEMMA RemoveAtFacts ==
  ASSUME NEW S, NEW c \in Seq(S), NEW k \in 1..Len(c)
  PROVE  /\ RemoveAt(c, k) \in Seq(S)
         /\ Len(RemoveAt(c, k)) = Len(c) - 1
         /\ \A i \in 1..(Len(c) - 1) : RemoveAt(c, k)[i] = c[IF i < k THEN i ELSE i + 1]
<1> DEFINE x == SubSeq(c, 1, k - 1)
           y == SubSeq(c, k + 1, Len(c))
<1>1. /\ x \in Seq(S) /\ Len(x) = k - 1 /\ \A i \in 1..(k - 1) : x[i] = c[i]
      /\ y \in Seq(S) /\ Len(y) = Len(c) - k /\ \A i \in 1..(Len(c) - k) : y[i] = c[k + i]
  OBVIOUS
<1>2. RemoveAt(c, k) = x \o y
  BY DEF RemoveAt
<1> HIDE DEF x, y
<1>3. /\ x \o y \in Seq(S) /\ Len(x \o y) = Len(c) - 1
      /\ \A i \in 1..(Len(c) - 1) : (x \o y)[i] = IF i < k THEN x[i] ELSE y[i - (k - 1)]
  <2>1. /\ x \o y \in Seq(S) /\ Len(x \o y) = Len(x) + Len(y)
        /\ \A i \in 1..(Len(x) + Len(y)) : (x \o y)[i] = IF i <= Len(x) THEN x[i] ELSE y[i - Len(x)]
    BY <1>1, ConcatProperties
  <2>2. /\ Len(x) + Len(y) = Len(c) - 1
        /\ \A i \in 1..(Len(c) - 1) : i <= Len(x) <=> i < k
    BY <1>1
  <2> QED
    BY <1>1, <2>1, <2>2
<1>4. ASSUME NEW i \in 1..(Len(c) - 1) PROVE (x \o y)[i] = c[IF i < k THEN i ELSE i + 1]
  <2>1. CASE i < k
    BY <1>1, <1>3, <2>1
  <2>2. CASE ~(i < k)
    <3>1. i - (k - 1) \in 1..(Len(c) - k) /\ k + (i - (k - 1)) = i + 1
      BY <2>2
    <3> QED
      BY <1>1, <1>3, <2>2, <3>1
  <2> QED
    BY <2>1, <2>2
<1> QED
  BY <1>2, <1>3, <1>4

\* A page removed from the cache leaves the others.
LEMMA RemoveHolds ==
  ASSUME NEW o, NEW cut, NEW c, PagesHold(c, o, cut), NEW k \in 1..Len(c)
  PROVE  /\ PagesHold(RemoveAt(c, k), o, cut)
         /\ Len(RemoveAt(c, k)) = Len(c) - 1
         /\ \A i \in 1..Len(RemoveAt(c, k)) : RemoveAt(c, k)[i][1] # c[k][1]
<1> DEFINE d == RemoveAt(c, k)
           from(i) == IF i < k THEN i ELSE i + 1
<1>1. c \in Seq(Entry) /\ Len(c) \in Nat
  BY DEF PagesHold
<1>2. d \in Seq(Entry) /\ Len(d) = Len(c) - 1 /\ \A i \in 1..(Len(c) - 1) : d[i] = c[from(i)]
  BY <1>1, RemoveAtFacts
<1> HIDE DEF d
<1>3. /\ \A i \in 1..(Len(c) - 1) : from(i) \in 1..Len(c) /\ from(i) # k
      /\ \A i, j \in 1..(Len(c) - 1) : from(i) = from(j) => i = j
  BY <1>1
<1> HIDE DEF from
<1>4. ASSUME NEW i \in 1..Len(d), NEW j \in 1..Len(d), d[i][1] = d[j][1] PROVE i = j
  <2>1. c[from(i)][1] = c[from(j)][1]
    BY <1>2, <1>4
  <2>2. from(i) = from(j)
    BY <1>2, <1>3, <2>1 DEF PagesHold
  <2> QED
    BY <1>2, <1>3, <2>2
<1>5. ASSUME NEW i \in 1..Len(d) PROVE Piece(d[i][2], o, d[i][1] * P, P, cut) /\ d[i][1] # c[k][1]
  <2>1. from(i) \in 1..Len(c) /\ from(i) # k /\ d[i] = c[from(i)]
    BY <1>2, <1>3
  <2>2. Piece(c[from(i)][2], o, c[from(i)][1] * P, P, cut) /\ c[from(i)][1] # c[k][1]
    BY <2>1 DEF PagesHold
  <2> QED
    BY <2>1, <2>2
<1>6. PagesHold(d, o, cut)
  BY <1>2, <1>4, <1>5 DEF PagesHold
<1> QED
  BY <1>2, <1>5, <1>6 DEF d

\* A page that was not there is added.
LEMMA AppendHolds ==
  ASSUME NEW o, NEW cut, NEW c, PagesHold(c, o, cut), NEW e \in Entry,
         \A i \in 1..Len(c) : c[i][1] # e[1], Piece(e[2], o, e[1] * P, P, cut)
  PROVE  PagesHold(Append(c, e), o, cut) /\ Len(Append(c, e)) = Len(c) + 1
<1> DEFINE d == Append(c, e)
           n == Len(c)
<1>1. c \in Seq(Entry) /\ n \in Nat
  BY DEF PagesHold
<1>2. d \in Seq(Entry) /\ Len(d) = n + 1 /\ (\A i \in 1..n : d[i] = c[i]) /\ d[n + 1] = e
  BY <1>1
<1> HIDE DEF d
<1>3. ASSUME NEW i \in 1..Len(d), NEW j \in 1..Len(d), d[i][1] = d[j][1] PROVE i = j
  <2>1. CASE i \in 1..n /\ j \in 1..n
    <3>1. c[i][1] = c[j][1]
      BY <1>2, <1>3, <2>1
    <3> QED
      BY <2>1, <3>1 DEF PagesHold
  <2>2. CASE i \in 1..n /\ j = n + 1
    BY <1>2, <1>3, <2>2
  <2>3. CASE i = n + 1 /\ j \in 1..n
    BY <1>2, <1>3, <2>3
  <2> HIDE DEF n
  <2>4. i \in 1..n \/ i = n + 1
    BY <1>1, <1>2
  <2>5. j \in 1..n \/ j = n + 1
    BY <1>1, <1>2
  <2> QED
    BY <2>1, <2>2, <2>3, <2>4, <2>5
<1>4. ASSUME NEW i \in 1..Len(d) PROVE Piece(d[i][2], o, d[i][1] * P, P, cut)
  <2>1. CASE i \in 1..n
    <3>1. Piece(c[i][2], o, c[i][1] * P, P, cut)
      BY <2>1 DEF PagesHold
    <3> QED
      BY <1>2, <2>1, <3>1
  <2>2. CASE i = n + 1
    BY <1>2, <2>2
  <2> HIDE DEF n
  <2> QED
    BY <1>1, <1>2, <2>1, <2>2
<1> QED
  BY <1>2, <1>3, <1>4 DEF PagesHold, d

\* The least recently used page is dropped.
LEMMA TailHolds ==
  ASSUME NEW o, NEW cut, NEW c, PagesHold(c, o, cut), Len(c) > 0
  PROVE  PagesHold(Tail(c), o, cut) /\ Len(Tail(c)) = Len(c) - 1
<1> DEFINE d == Tail(c)
<1>1. c \in Seq(Entry) /\ Len(c) \in Nat /\ c # <<>>
  BY DEF PagesHold
<1>2. d \in Seq(Entry) /\ Len(d) = Len(c) - 1 /\ (\A i \in 1..Len(d) : d[i] = c[i + 1] /\ i + 1 \in 1..Len(c))
  BY <1>1
<1> HIDE DEF d
<1>3. ASSUME NEW i \in 1..Len(d), NEW j \in 1..Len(d), d[i][1] = d[j][1] PROVE i = j
  <2>1. c[i + 1][1] = c[j + 1][1] /\ i + 1 \in 1..Len(c) /\ j + 1 \in 1..Len(c)
    BY <1>2, <1>3
  <2>2. i + 1 = j + 1
    BY <2>1 DEF PagesHold
  <2> QED
    BY <1>2, <2>2
<1>4. ASSUME NEW i \in 1..Len(d) PROVE Piece(d[i][2], o, d[i][1] * P, P, cut)
  <2>1. Piece(c[i + 1][2], o, c[i + 1][1] * P, P, cut)
    BY <1>2 DEF PagesHold
  <2> QED
    BY <1>2, <2>1
<1> QED
  BY <1>2, <1>3, <1>4 DEF PagesHold, d

\* The position a lookup finds holds the page looked for.
LEMMA PositionFacts ==
  ASSUME NEW c, NEW i, PositionsOf(c, i) # {}
  PROVE  PositionOf(c, i) \in 1..Len(c) /\ c[PositionOf(c, i)][1] = i
<1>1. PositionOf(c, i) \in PositionsOf(c, i)
  BY DEF PositionOf
<1> QED
  BY <1>1 DEF PositionsOf

\* PageCache::get keeps the cache in order.
LEMMA GetKeeps ==
  ASSUME NEW o, NEW e, NEW c, CacheOK(c, o, e), NEW i
  PROVE  CacheOK(CacheGet(c, i), o, e)
<1>0. PagesHold(c, o, e.cut) /\ c \in Seq(Entry) /\ Len(c) \in Nat /\ Len(c) <= CachePages /\ (c # <<>> => e.reach)
  BY DEF CacheOK, PagesHold
<1>1. CASE PositionsOf(c, i) = {}
  BY <1>1 DEF CacheGet
<1>2. CASE PositionsOf(c, i) # {}
  <2> DEFINE k == PositionOf(c, i)
             d == RemoveAt(c, k)
             pg == c[k]
  <2>1. k \in 1..Len(c) /\ pg[1] = i /\ pg \in Entry /\ Piece(pg[2], o, pg[1] * P, P, e.cut)
    <3>1. k \in 1..Len(c) /\ c[k][1] = i
      BY <1>2, PositionFacts
    <3> HIDE DEF k
    <3> QED
      BY <1>0, <3>1 DEF PagesHold
  <2>2. PagesHold(d, o, e.cut) /\ Len(d) = Len(c) - 1 /\ \A j \in 1..Len(d) : d[j][1] # pg[1]
    BY SMTT(30), <1>0, <2>1, RemoveHolds
  <2> HIDE DEF k, d, pg
  <2>3. PagesHold(Append(d, pg), o, e.cut) /\ Len(Append(d, pg)) = Len(d) + 1
    BY <2>1, <2>2, AppendHolds
  <2>4. CacheGet(c, i) = Append(d, pg)
    BY <1>2 DEF CacheGet, d, pg, k
  <2>5. Len(Append(d, pg)) = Len(c) /\ c # <<>>
    BY <1>0, <2>1, <2>2, <2>3
  <2> QED
    BY <1>0, <2>3, <2>4, <2>5 DEF CacheOK
<1> QED
  BY <1>1, <1>2

\* PageCache::insert keeps the cache in order and within its capacity.
LEMMA InsertKeeps ==
  ASSUME NEW o \in Ordinals, NEW e, NEW c, CacheOK(c, o, e), NEW i \in Nat, NEW s \in Seq(Byte),
         Piece(s, o, i * P, P, e.cut), e.reach
  PROVE  CacheOK(CacheInsert(c, i, s), o, e)
<1> DEFINE d == IF PositionsOf(c, i) = {} THEN c ELSE RemoveAt(c, PositionOf(c, i))
           pg == <<i, s>>
           a == Append(d, pg)
<1>0. PagesHold(c, o, e.cut) /\ c \in Seq(Entry) /\ Len(c) \in Nat /\ Len(c) <= CachePages /\ CachePages \in Nat
  BY PagedAssumption DEF CacheOK, PagesHold
<1>1. PagesHold(d, o, e.cut) /\ Len(d) <= Len(c) /\ Len(d) \in Nat /\ \A j \in 1..Len(d) : d[j][1] # i
  <2>1. CASE PositionsOf(c, i) = {}
    BY <1>0, <2>1 DEF PositionsOf
  <2>2. CASE PositionsOf(c, i) # {}
    <3> DEFINE k == PositionOf(c, i)
    <3>1. k \in 1..Len(c) /\ c[k][1] = i
      BY <2>2, PositionFacts
    <3> HIDE DEF k
    <3>2. PagesHold(RemoveAt(c, k), o, e.cut) /\ Len(RemoveAt(c, k)) = Len(c) - 1
          /\ \A j \in 1..Len(RemoveAt(c, k)) : RemoveAt(c, k)[j][1] # i
      BY SMTT(30), <1>0, <3>1, RemoveHolds
    <3>3. d = RemoveAt(c, k)
      BY <2>2 DEF k
    <3>4. Len(c) - 1 \in Nat /\ Len(c) - 1 <= Len(c)
      BY <1>0, <3>1
    <3> QED
      BY <3>2, <3>3, <3>4
  <2> QED
    BY <2>1, <2>2
<1>2. pg \in Entry /\ pg[1] = i /\ pg[2] = s
  BY DEF Entry
<1> HIDE DEF d, pg
<1>3. PagesHold(a, o, e.cut) /\ Len(a) = Len(d) + 1
  BY <1>1, <1>2, AppendHolds
<1>4. CacheInsert(c, i, s) = IF Len(a) > CachePages THEN Tail(a) ELSE a
  BY DEF CacheInsert, Evict, d, pg
<1> HIDE DEF a
<1>5. CASE Len(a) > CachePages
  <2>1. Len(a) > 0 /\ Len(a) - 1 <= CachePages
    BY <1>0, <1>1, <1>3, <1>5
  <2>2. PagesHold(Tail(a), o, e.cut) /\ Len(Tail(a)) = Len(a) - 1
    BY <1>3, <2>1, TailHolds
  <2> QED
    BY <1>4, <1>5, <2>1, <2>2 DEF CacheOK
<1>6. CASE ~(Len(a) > CachePages)
  <2>1. Len(a) <= CachePages
    BY <1>0, <1>1, <1>3, <1>6
  <2> QED
    BY <1>3, <1>4, <1>6, <2>1 DEF CacheOK
<1> QED
  BY <1>5, <1>6

\* A page found in the cache is a page of the object.
LEMMA PageInFacts ==
  ASSUME NEW o, NEW e, NEW c, CacheOK(c, o, e), NEW i, PageIn(c, i) # Missing
  PROVE  PageIn(c, i) \in Seq(Byte) /\ Piece(PageIn(c, i), o, i * P, P, e.cut) /\ e.reach
<1> DEFINE k == PositionOf(c, i)
<1>1. PositionsOf(c, i) # {} /\ PageIn(c, i) = c[k][2]
  BY DEF PageIn
<1>2. k \in 1..Len(c) /\ c[k][1] = i
  BY <1>1, PositionFacts
<1> HIDE DEF k
<1>3. c \in Seq(Entry) /\ Piece(c[k][2], o, c[k][1] * P, P, e.cut)
  BY <1>2 DEF CacheOK, PagesHold
<1>4. c[k] \in Entry /\ c # <<>>
  BY <1>2, <1>3
<1> QED
  BY <1>1, <1>2, <1>3, <1>4 DEF CacheOK, Entry

\* Looking pages up changes only their order.
LEMMA TouchKeeps ==
  ASSUME NEW o, NEW e, NEW c, CacheOK(c, o, e), NEW first \in Nat, NEW last \in Int, last - first + 1 \in Nat
  PROVE  CacheOK(Touch(c, first, last), o, e)
<1> DEFINE n == last - first + 1
           q == [k \in 1..n |-> first + k - 1]
           D == DOMAIN q
           S == {x \in Seq(Entry) : CacheOK(x, o, e)}
           g == [p \in S \X (1..n) |-> CacheGet(p[1], q[p[2]])]
           Fix(f) == f = [s \in SUBSET D |-> IF s = {} THEN c ELSE CacheGet(f[s \ {Max(s)}], q[Max(s)])]
           it == CHOOSE f : Fix(f)
<1>1. n \in Nat /\ D = 1..n /\ c \in S
  BY DEF CacheOK, PagesHold
<1>5. Touch(c, first, last) = it[D]
  BY DEF Touch, FoldLeft, MapThenFoldSet
<1>2. ASSUME NEW x \in S, NEW i PROVE CacheGet(x, i) \in S
  <2>1. CacheOK(CacheGet(x, i), o, e)
    BY GetKeeps
  <2> QED
    BY <2>1 DEF CacheOK, PagesHold
<1> HIDE DEF S, n, q
<1>3. \E f : Fix(f)
  <2>1. g \in [S \X (1..n) -> S] /\ \A x \in S, j \in 1..n : g[<<x, j>>] = CacheGet(x, q[j])
    BY <1>2
  <2> HIDE DEF g
  <2>2. PICK f \in [SUBSET (1..n) -> S] : FoldsTo(f, n, c, g)
    BY <1>1, <2>1, FoldExists
  <2>3. ASSUME NEW s \in SUBSET (1..n), s # {}
        PROVE  g[<<f[s \ {Max(s)}], Max(s)>>] = CacheGet(f[s \ {Max(s)}], q[Max(s)])
    <3>1. Max(s) \in 1..n /\ s \ {Max(s)} \in SUBSET (1..n)
      BY <1>1, <2>3, MaxIndex
    <3>2. f[s \ {Max(s)}] \in S
      BY <2>2, <3>1
    <3> QED
      BY <2>1, <3>1, <3>2
  <2>4. Fix(f)
    BY <1>1, <2>2, <2>3 DEF FoldsTo
  <2> QED
    BY <2>4
<1>4. Fix(it)
  BY <1>3
<1> HIDE DEF it
<1>6. it[{}] \in S
  BY <1>1, <1>4
<1>7. ASSUME NEW s \in SUBSET (1..n), s # {}, it[s \ {Max(s)}] \in S PROVE it[s] \in S
  <2>1. it[s] = CacheGet(it[s \ {Max(s)}], q[Max(s)])
    BY <1>1, <1>4, <1>7
  <2> QED
    BY <1>2, <1>7, <2>1
<1> HIDE DEF Fix, D
<1>8. \A s \in SUBSET (1..n) : it[s] \in S
  BY <1>1, <1>6, <1>7, FoldTyped
<1>9. it[D] \in S
  BY <1>1, <1>8
<1> QED
  BY <1>5, <1>9 DEF S

\* Inserting pages of the object.
LEMMA InsertAllKeeps ==
  ASSUME NEW o \in Ordinals, NEW e, NEW c, CacheOK(c, o, e), e.reach, NEW i \in Nat, NEW n \in Nat, NEW pages,
         \A j \in 1..n : pages[j] \in Seq(Byte) /\ Piece(pages[j], o, (i + j - 1) * P, P, e.cut)
  PROVE  CacheOK(InsertAll(c, i, pages, n), o, e)
<1> DEFINE q == [j \in 1..n |-> j]
           D == DOMAIN q
           S == {x \in Seq(Entry) : CacheOK(x, o, e)}
           g == [p \in S \X (1..n) |-> CacheInsert(p[1], i + q[p[2]] - 1, pages[q[p[2]]])]
           Fix(f) == f = [s \in SUBSET D |->
             IF s = {} THEN c ELSE CacheInsert(f[s \ {Max(s)}], i + q[Max(s)] - 1, pages[q[Max(s)]])]
           it == CHOOSE f : Fix(f)
<1>1. n \in Nat /\ D = 1..n /\ c \in S /\ \A j \in 1..n : q[j] = j
  BY DEF CacheOK, PagesHold
<1>5. InsertAll(c, i, pages, n) = it[D]
  BY DEF InsertAll, FoldLeft, MapThenFoldSet
<1>2. ASSUME NEW x \in S, NEW j \in 1..n PROVE CacheInsert(x, i + q[j] - 1, pages[q[j]]) \in S
  <2> DEFINE h == i + j - 1
  <2>1. h \in Nat /\ pages[j] \in Seq(Byte) /\ Piece(pages[j], o, h * P, P, e.cut)
    OBVIOUS
  <2> HIDE DEF h
  <2>2. CacheOK(CacheInsert(x, h, pages[j]), o, e)
    BY <2>1, InsertKeeps
  <2>3. CacheInsert(x, h, pages[j]) \in S
    BY <2>2 DEF CacheOK, PagesHold
  <2> QED
    BY <1>1, <2>3 DEF h
<1> HIDE DEF S, q
<1>3. \E f : Fix(f)
  <2>1. /\ g \in [S \X (1..n) -> S]
        /\ \A x \in S, j \in 1..n : g[<<x, j>>] = CacheInsert(x, i + q[j] - 1, pages[q[j]])
    BY <1>2
  <2> HIDE DEF g
  <2>2. PICK f \in [SUBSET (1..n) -> S] : FoldsTo(f, n, c, g)
    BY <1>1, <2>1, FoldExists
  <2>3. ASSUME NEW s \in SUBSET (1..n), s # {}
        PROVE  g[<<f[s \ {Max(s)}], Max(s)>>]
                 = CacheInsert(f[s \ {Max(s)}], i + q[Max(s)] - 1, pages[q[Max(s)]])
    <3>1. Max(s) \in 1..n /\ s \ {Max(s)} \in SUBSET (1..n)
      BY <1>1, <2>3, MaxIndex
    <3>2. f[s \ {Max(s)}] \in S
      BY <2>2, <3>1
    <3> QED
      BY <2>1, <3>1, <3>2
  <2>4. Fix(f)
    BY <1>1, <2>2, <2>3 DEF FoldsTo
  <2> QED
    BY <2>4
<1>4. Fix(it)
  BY <1>3
<1> HIDE DEF it
<1>6. it[{}] \in S
  BY <1>1, <1>4
<1>7. ASSUME NEW s \in SUBSET (1..n), s # {}, it[s \ {Max(s)}] \in S PROVE it[s] \in S
  <2>1. it[s] = CacheInsert(it[s \ {Max(s)}], i + q[Max(s)] - 1, pages[q[Max(s)]])
    BY <1>1, <1>4, <1>7
  <2>2. Max(s) \in 1..n
    BY <1>1, <1>7, MaxIndex
  <2> QED
    BY <1>2, <1>7, <2>1, <2>2
<1> HIDE DEF Fix, D
<1>8. \A s \in SUBSET (1..n) : it[s] \in S
  BY <1>1, <1>6, <1>7, FoldTyped
<1>9. it[D] \in S
  BY <1>1, <1>8
<1> QED
  BY <1>5, <1>9 DEF S

----------------------------------------------------------------------------
(* Page numbers.                                                           *)

\* Where a page begins.
LEMMA TimesP ==
  ASSUME NEW i \in Nat
  PROVE  i * P \in Nat /\ (i + 1) * P = i * P + P /\ P \in Nat /\ P > 0
<1>1. P \in Nat /\ P > 0
  BY PagedAssumption DEF P
<1> QED
  BY <1>1

\* A later page begins after an earlier one ends.
LEMMA TimesPGrows ==
  ASSUME NEW i \in Nat, NEW j \in Nat, i < j
  PROVE  i * P + P <= j * P
<1>0. P \in Nat /\ P > 0
  BY PagedAssumption DEF P
<1> DEFINE d == j - i - 1
<1>1. d \in Nat /\ j = i + 1 + d
  OBVIOUS
<1> HIDE DEF d
<1>2. (i + 1 + d) * P = i * P + P + d * P /\ d * P \in Nat /\ i * P \in Nat
  BY <1>0, <1>1
<1> QED
  BY <1>0, <1>1, <1>2

\* The page that holds a byte.
LEMMA DivP ==
  ASSUME NEW p \in Nat
  PROVE  p \div P \in Nat /\ (p \div P) * P <= p /\ p < (p \div P) * P + P
<1>0. P \in Nat /\ P > 0
  BY PagedAssumption DEF P
<1> QED
  BY <1>0

\* No other page holds it.
LEMMA DivPUnique ==
  ASSUME NEW p \in Nat, NEW q \in Nat, q * P <= p, p < q * P + P
  PROVE  p \div P = q
<1> DEFINE d == p \div P
<1>1. d \in Nat /\ d * P <= p /\ p < d * P + P
  BY DivP
<1> HIDE DEF d
<1>2. d * P \in Nat /\ q * P \in Nat /\ P \in Nat
  BY <1>1, TimesP
<1>3. ~(d < q)
  <2>1. SUFFICES ASSUME d < q PROVE FALSE
    OBVIOUS
  <2>2. d * P + P <= q * P
    BY <1>1, <2>1, TimesPGrows
  <2> QED
    BY <1>1, <1>2, <2>2
<1>4. ~(q < d)
  <2>1. SUFFICES ASSUME q < d PROVE FALSE
    OBVIOUS
  <2>2. q * P + P <= d * P
    BY <1>1, <2>1, TimesPGrows
  <2> QED
    BY <1>1, <1>2, <2>2
<1> QED
  BY <1>1, <1>3, <1>4 DEF d

\* The pages of the object from page q on, as far as n bytes have them; it has no pages between the last of them and z.
IsRun(pages, o, q, z, n, cut) ==
  /\ pages \in Seq(Seq(Byte)) /\ Len(pages) \in Nat
  /\ \A j \in 1..Len(pages) : pages[j] \in Seq(Byte) /\ Piece(pages[j], o, (q + j - 1) * P, P, cut)
  /\ \A i \in Nat : q + Len(pages) <= i /\ i < z => Piece(<<>>, o, i * P, P, cut)
  /\ \A i \in Nat : Len(pages) > i => n > i * P

\* The chunks of an answer that begins with page q and was to end with page z - 1 or with the object.
LEMMA ChunkFacts ==
  ASSUME NEW o \in Ordinals, NEW q \in Nat, NEW z \in Nat, NEW n \in Nat, NEW cut \in BOOLEAN, NEW b,
         Piece(b, o, q * P, n, cut), q * P + n = z * P \/ q * P + n >= Size(o) \/ cut
  PROVE  IsRun(Chunks(b), o, q, z, n, cut)
<1> DEFINE l == Len(b)
           f == q * P
           c == (l + P - 1) \div P
           lo(j) == (j - 1) * P
           hi(j) == Least(j * P, l)
<1>1. P \in Nat /\ P > 0 /\ f \in Nat /\ Size(o) \in Nat
  BY TimesP, SizeFacts
<1>2. /\ l \in Nat /\ l <= n /\ (l = 0 \/ f + l <= Size(o)) /\ b = Bytes(o, f, l)
      /\ ~cut => l = Extent(o, f, n)
  <2>1. f \in Nat
    BY <1>1
  <2> HIDE DEF f
  <2>2. Piece(b, o, f, n, cut)
    BY DEF f
  <2> QED
    BY <2>1, <2>2, PieceFacts DEF Piece
<1> HIDE DEF l
<1>3. c \in Nat /\ c * P <= l + P - 1 /\ l + P - 1 < c * P + P
  BY <1>1, <1>2, DivP
<1>4. Chunks(b) = [j \in 1..c |-> SubSeq(b, lo(j) + 1, hi(j))]
  BY DEF Chunks, P, l
<1> HIDE DEF c, f
<1>5. ASSUME NEW j \in 1..c
      PROVE  /\ lo(j) \in Nat /\ hi(j) \in Nat /\ lo(j) < hi(j) /\ hi(j) <= l
             /\ hi(j) = lo(j) + P \/ hi(j) = l
             /\ hi(j) <= lo(j) + P
             /\ (q + j - 1) * P = f + lo(j)
             /\ (hi(j) = l /\ lo(j) + P > l) \/ hi(j) = lo(j) + P
  <2>1. j - 1 \in Nat /\ j - 1 < c
    BY <1>3
  <2>2. (j - 1) * P + P <= c * P /\ (j - 1) * P \in Nat /\ ((j - 1) + 1) * P = (j - 1) * P + P /\ c * P \in Nat
    BY <1>3, <2>1, TimesP, TimesPGrows
  <2>3. (j - 1) + 1 = j
    OBVIOUS
  <2>4. j * P = lo(j) + P
    BY <2>2, <2>3
  <2>5. (q + (j - 1)) * P = q * P + (j - 1) * P /\ q + (j - 1) = q + j - 1
    BY <1>1, <2>1
  <2>6. (q + j - 1) * P = f + lo(j)
    BY <2>5 DEF f
  <2>7. lo(j) \in Nat /\ lo(j) < l
    BY <1>1, <1>2, <1>3, <2>2
  <2>8. hi(j) = IF lo(j) + P < l THEN lo(j) + P ELSE l
    BY <2>4 DEF Least
  <2> HIDE DEF lo, hi
  <2> QED
    BY <1>1, <1>2, <2>6, <2>7, <2>8
<1>6. ASSUME NEW j \in 1..c
      PROVE  /\ Chunks(b)[j] = Bytes(o, f + lo(j), hi(j) - lo(j))
             /\ Piece(Chunks(b)[j], o, (q + j - 1) * P, P, cut)
             /\ Chunks(b)[j] \in Seq(Byte)
  <2> DEFINE s == lo(j)
             e == hi(j)
             m == e - s
  <2>1. /\ s \in Nat /\ e \in Nat /\ s < e /\ e <= l /\ e <= s + P
        /\ (q + j - 1) * P = f + s /\ ((e = l /\ s + P > l) \/ e = s + P)
    BY <1>5
  <2>2. Chunks(b)[j] = SubSeq(b, s + 1, e)
    BY <1>4
  <2> HIDE DEF s, e
  <2>3. SubSeq(Bytes(o, f, l), s + 1, e) = Bytes(o, f + s, e - s)
    <3> DEFINE w == SubSeq(b, s + 1, e)
    <3>1. b \in Seq(Byte) /\ Len(b) = l /\ \A i \in 1..l : b[i] = Contents[o][f + i]
      BY ZenonT(30), <1>1, <1>2, BytesFacts
    <3>2. w \in Seq(Byte) /\ Len(w) = e - s /\ \A i \in 1..(e - s) : w[i] = b[s + i]
      BY SMTT(30), <2>1, <3>1
    <3> HIDE DEF w
    <3>3. w = [i \in 1..(e - s) |-> w[i]]
      BY <2>1, <3>2
    <3>4. \A i \in 1..(e - s) : w[i] = Contents[o][(f + s) + i]
      <4>1. \A i \in 1..(e - s) : s + i \in 1..l /\ f + (s + i) = (f + s) + i
        BY <1>1, <1>2, <2>1
      <4> QED
        BY <3>1, <3>2, <4>1
    <3>5. w = [i \in 1..(e - s) |-> Contents[o][(f + s) + i]]
      BY <3>3, <3>4
    <3>6. Bytes(o, f + s, e - s) = [i \in 1..(e - s) |-> Contents[o][(f + s) + i]]
      BY DEF Bytes
    <3> QED
      BY <1>2, <3>5, <3>6 DEF w
  <2>4. m \in Nat /\ m <= P /\ f + s \in Nat /\ f + s + m <= Size(o) /\ f + s < Size(o)
    BY <1>1, <1>2, <2>1
  <2>5. m <= Extent(o, f + s, P)
    BY <1>1, <2>4 DEF Extent, Least
  <2>6. ASSUME ~cut PROVE m = Extent(o, f + s, P)
    <3>1. ASSUME m = P PROVE m = Extent(o, f + s, P)
      BY <1>1, <2>4, <2>5, <3>1, ExtentFacts
    <3>2. ASSUME m < P PROVE m = Extent(o, f + s, P)
      <4>1. e = l /\ s + P > l
        BY <1>1, <2>1, <3>2
      <4>2. f + l >= Size(o)
        <5>1. CASE l < n
          <6>1. l = Extent(o, f, n)
            BY <1>2, <2>6
          <6> QED
            BY <1>1, <1>2, <5>1, <6>1, ExtentFacts
        <5>2. CASE l = n
          <6>1. CASE f + n = z * P
            <7>1. f + s + m = z * P /\ f + s = (q + j - 1) * P /\ m > 0 /\ q + j - 1 \in Nat
              BY <1>1, <1>2, <2>1, <4>1, <5>2, <6>1
            <7>2. (q + j - 1) * P < z * P /\ z * P < (q + j - 1) * P + P
              <8>1. (q + j - 1) * P \in Nat /\ z * P \in Nat
                BY <7>1, TimesP
              <8> QED
                BY <1>1, <2>4, <3>2, <7>1, <8>1
            <7> DEFINE w == q + j - 1
            <7>3. w \in Nat /\ w * P < z * P /\ z * P < w * P + P
              BY <7>1, <7>2
            <7> HIDE DEF w
            <7>4. w * P \in Nat /\ z * P \in Nat
              BY <7>3, TimesP
            <7>5. ~(w < z)
              BY <1>1, <7>3, <7>4, TimesPGrows
            <7>6. ~(z < w)
              BY <1>1, <7>3, <7>4, TimesPGrows
            <7>7. w = z
              BY <7>3, <7>5, <7>6
            <7> QED
              BY <7>3, <7>4, <7>7
          <6>2. CASE f + n >= Size(o)
            BY <5>2, <6>2
          <6> QED
            BY <2>6, <6>1, <6>2 DEF f
        <5> QED
          BY <1>2, <5>1, <5>2
      <4> QED
        <5>1. f + s + m = f + l /\ f + s + m = Size(o)
          BY <1>1, <1>2, <2>1, <2>4, <4>1, <4>2
        <5> QED
          BY <1>1, <2>4, <3>2, <5>1 DEF Extent, Least
    <3>3. m = P \/ m < P
      BY <1>1, <2>4
    <3> HIDE DEF m
    <3> QED
      BY <3>1, <3>2, <3>3
  <2> HIDE DEF m
  <2>7. Piece(Bytes(o, f + s, m), o, f + s, P, cut) /\ Len(Bytes(o, f + s, m)) = m
    BY <1>1, <2>4, <2>5, <2>6, PieceOf
  <2>8. Bytes(o, f + s, m) \in Seq(Byte)
    BY <2>4, BytesFacts
  <2> QED
    BY <1>2, <2>1, <2>2, <2>3, <2>7, <2>8 DEF m, s, e
<1>7. Chunks(b) \in Seq(Seq(Byte)) /\ Len(Chunks(b)) = c
  <2>1. \A j \in 1..c : Chunks(b)[j] \in Seq(Byte)
    BY <1>6
  <2>2. Chunks(b) = [j \in 1..c |-> Chunks(b)[j]]
    BY <1>4
  <2>3. Chunks(b) \in [1..c -> Seq(Byte)]
    BY <2>1, <2>2
  <2> QED
    BY <1>3, <2>3
<1>8. ASSUME NEW i \in Nat, q + c <= i, i < z PROVE Piece(<<>>, o, i * P, P, cut)
  <2>1. i * P \in Nat /\ i * P >= f + l
    <3> DEFINE d == i - q - c
    <3>1. d \in Nat /\ i = q + c + d
      BY <1>3, <1>8
    <3> HIDE DEF d
    <3>2. (q + c + d) * P = q * P + c * P + d * P /\ d * P \in Nat /\ c * P \in Nat /\ q * P \in Nat
      BY <1>1, <1>3, <3>1, TimesP
    <3> QED
      BY <1>1, <1>2, <1>3, <3>1, <3>2 DEF f
  <2>2. ASSUME ~cut PROVE i * P >= Size(o)
    <3>1. CASE f + l >= Size(o)
      BY <1>1, <1>2, <2>1, <3>1
    <3>2. CASE l < n
      <4>1. l = Extent(o, f, n)
        BY <1>2, <2>2
      <4> QED
        BY <1>1, <1>2, <2>1, <3>2, <4>1, ExtentFacts
    <3>3. CASE l = n /\ f + n = z * P
      <4>1. i * P + P <= z * P /\ z * P \in Nat
        BY <1>8, TimesP, TimesPGrows
      <4> QED
        BY <1>1, <1>2, <2>1, <3>3, <4>1
    <3> QED
      BY <1>2, <2>2, <3>1, <3>2, <3>3 DEF f
  <2>3. ~cut => Extent(o, i * P, P) = 0
    BY <1>1, <2>1, <2>2, ExtentFacts
  <2>4. Extent(o, i * P, P) \in Nat
    BY <1>1, <2>1, ExtentFacts
  <2> DEFINE a == i * P
  <2>5. a \in Nat /\ 0 <= Extent(o, a, P) /\ (~cut => 0 = Extent(o, a, P))
    BY <2>1, <2>3, <2>4
  <2> HIDE DEF a
  <2>6. Piece(Bytes(o, a, 0), o, a, P, cut)
    BY <1>1, <2>5, PieceOf
  <2> QED
    BY <2>6, EmptyBytes DEF a
<1>9. ASSUME NEW i \in Nat, c > i PROVE n > i * P
  <2>1. i * P + P <= c * P /\ i * P \in Nat /\ c * P \in Nat
    BY <1>3, <1>9, TimesP, TimesPGrows
  <2> QED
    BY <1>1, <1>2, <1>3, <2>1
<1> QED
  BY <1>3, <1>6, <1>7, <1>8, <1>9 DEF IsRun

----------------------------------------------------------------------------
(* What other threads' steps leave true of a thread.                       *)

\* The environment of thread t may change from e to f: there are more cuts and faults, and slabs are opened while
\* nobody but the opener reads.
Grows(t, e, f) ==
  /\ f.mode = e.mode /\ f.reach = e.reach
  /\ (e.cut => f.cut) /\ (e.bad => f.bad)
  /\ f.opened = e.opened \/ (t # Opener /\ e.mode = "set" /\ e.opened < Len(Slabs))

LEMMA PieceGrows ==
  ASSUME NEW s, NEW o, NEW a, NEW n, NEW c1, NEW c2, Piece(s, o, a, n, c1), c1 => c2
  PROVE  Piece(s, o, a, n, c2)
BY DEF Piece

LEMMA ResultGrows ==
  ASSUME NEW t, NEW op, NEW res, NEW e, NEW f, Grows(t, e, f), ResultOK(op, res, e)
  PROVE  ResultOK(op, res, f)
<1>0. (e.cut => f.cut) /\ (e.bad => f.bad) /\ f.reach = e.reach
  BY DEF Grows
<1>1. op[1] = "raw" =>
        LET exact == ClampedSlice(Contents[1], op[2], op[3]) IN
        /\ res.ok => res.bytes = exact \/ (f.cut /\ IsPrefix(res.bytes, exact))
        /\ ~res.ok => f.bad \/ ~f.reach \/ op[2] + op[3] > Len(Contents[1])
  <2> DEFINE exact == ClampedSlice(Contents[1], op[2], op[3])
             past == op[2] + op[3] > Len(Contents[1])
             pre == IsPrefix(res.bytes, exact)
  <2>1. op[1] = "raw" => /\ res.ok => res.bytes = exact \/ (e.cut /\ pre)
                         /\ ~res.ok => e.bad \/ ~e.reach \/ past
    BY DEF ResultOK
  <2> HIDE DEF exact, past, pre
  <2>2. op[1] = "raw" => /\ res.ok => res.bytes = exact \/ (f.cut /\ pre)
                         /\ ~res.ok => f.bad \/ ~f.reach \/ past
    BY <1>0, <2>1
  <2> QED
    BY <2>2 DEF exact, past, pre
<1>2. ASSUME op[1] = "drop"
      PROVE  \E o \in Ordinals :
               /\ \E k \in 1..Len(Slabs[o].records) : Slabs[o].records[k].id = op[2]
               /\ LET r == find_record(o, op[2]) IN
                  /\ res.ok => Decodable(r) /\ res.bytes = ClampedSlice(Contents[o], WindowStart(o) + r.off, r.len)
                  /\ ~res.ok => f.bad \/ ~Decodable(r)
  <2> DEFINE Has(o) == \E k \in 1..Len(Slabs[o].records) : Slabs[o].records[k].id = op[2]
             r(o) == find_record(o, op[2])
             Dec(o) == Decodable(r(o))
             Exact(o) == res.bytes = ClampedSlice(Contents[o], WindowStart(o) + r(o).off, r(o).len)
  <2>1. \E o \in Ordinals : Has(o) /\ (res.ok => Dec(o) /\ Exact(o)) /\ (~res.ok => e.bad \/ ~Dec(o))
    BY <1>2 DEF ResultOK
  <2> HIDE DEF Has, Dec, Exact
  <2>2. \E o \in Ordinals : Has(o) /\ (res.ok => Dec(o) /\ Exact(o)) /\ (~res.ok => f.bad \/ ~Dec(o))
    BY <1>0, <2>1
  <2> QED
    BY <2>2 DEF Has, Dec, Exact
<1>3. op[1] = "failed" => f.bad \/ ~f.reach
  BY <1>0 DEF ResultOK
<1> QED
  BY <1>1, <1>2, <1>3 DEF ResultOK

LEMMA AsksGrows ==
  ASSUME NEW t, NEW op, NEW o, NEW a, NEW n, NEW e, NEW f, Grows(t, e, f), Asks(t, op, o, a, n, e)
  PROVE  Asks(t, op, o, a, n, f) /\ f.opened = e.opened
<1>1. Len(Slabs) \in Nat
  BY PagedAssumption
<1>2. CASE RawAsks(op, o, a, n, e)
  BY <1>2 DEF RawAsks, Grows, Asks
<1>3. CASE OpenAsks(t, op, o, a, n, e)
  BY <1>3 DEF OpenAsks, Grows, Asks
<1>4. CASE DropAsks(op, o, a, n, e)
  <2>1. f.opened = e.opened /\ f.mode = e.mode
    BY <1>1, <1>4 DEF DropAsks, Grows
  <2> QED
    BY <1>4, <2>1 DEF DropAsks, Asks
<1> QED
  BY <1>2, <1>3, <1>4 DEF Asks

LEMMA MayFailGrows ==
  ASSUME NEW t, NEW op, NEW e, NEW f, Grows(t, e, f), MayFail(op, e)
  PROVE  MayFail(op, f)
BY DEF MayFail, Grows

LEMMA PagesGrow ==
  ASSUME NEW t, NEW e, NEW f, Grows(t, e, f), NEW pages, NEW o, NEW first, NEW to, PagesOK(pages, o, first, to, e)
  PROVE  PagesOK(pages, o, first, to, f)
<1>1. \A s, j : SlotOK(s, o, first, j, e) => SlotOK(s, o, first, j, f)
  BY PieceGrows DEF SlotOK, Grows
<1> QED
  BY <1>1 DEF PagesOK, Grows

LEMMA ReadingGrows ==
  ASSUME NEW t, NEW th, NEW e, NEW f, Grows(t, e, f), Reading(t, th, e)
  PROVE  Reading(t, th, f)
<1>1. PICK n \in 0..MaxU64 : Asks(t, th.op, th.slab, th.offset, n, e) /\ RangeOK(th, n, e)
  BY DEF Reading
<1>2. Asks(t, th.op, th.slab, th.offset, n, f)
  BY <1>1, AsksGrows
<1>3. RangeOK(th, n, f)
  BY <1>1 DEF RangeOK, Grows
<1> QED
  BY <1>2, <1>3 DEF Reading

\* What holds of a thread survives another thread's step: faults and cuts only happen, slabs only get opened.
LEMMA ThreadGrows ==
  ASSUME NEW t, NEW th, NEW e, NEW f, Grows(t, e, f), ThreadOK(t, th, e)
  PROVE  ThreadOK(t, th, f)
<1>1. CASE th.pc = "idle"
  <2>1. ResultOK(th.op, th.res, f)
    BY <1>1, ResultGrows DEF ThreadOK
  <2> QED
    BY <1>1, <2>1 DEF ThreadOK
<1>2. CASE th.pc # "idle"
  <2>1. ReadOK(t, th, e)
    BY <1>2 DEF ThreadOK
  <2>2. Reading(t, th, f)
    BY <2>1, ReadingGrows DEF ReadOK
  <2>3. PagesOK(th.pages, th.slab, th.first, Settled(th), f)
    BY <2>1, PagesGrow DEF ReadOK
  <2>4. th.pc \in {"reply", "insert"} => RunOK(th, f)
    <3>1. ASSUME RunOK(th, e) PROVE RunOK(th, f)
      <4>1. MayFail(th.op, e) => MayFail(th.op, f)
        BY MayFailGrows
      <4> QED
        BY <3>1, <4>1 DEF RunOK, Grows
    <3> QED
      BY <2>1, <3>1 DEF ReadOK
  <2>5. th.pc = "insert" => Piece(th.bytes, th.slab, th.fetch, th.expected, f.cut) /\ f.reach
    BY <2>1, PieceGrows DEF ReadOK, Grows
  <2>6. ReadOK(t, th, f)
    BY <2>1, <2>2, <2>3, <2>4, <2>5 DEF ReadOK
  <2> QED
    BY <1>2, <2>6 DEF ThreadOK
<1> QED
  BY <1>1, <1>2

\* The same of the cache.
LEMMA CacheGrows ==
  ASSUME NEW t, NEW o, NEW c, NEW e, NEW f, Grows(t, e, f), CacheOK(c, o, e)
  PROVE  CacheOK(c, o, f)
<1>1. \A k \in 1..Len(c) : Piece(c[k][2], o, c[k][1] * P, P, f.cut)
  BY PieceGrows DEF CacheOK, PagesHold, Grows
<1> QED
  BY <1>1 DEF CacheOK, PagesHold, Grows

----------------------------------------------------------------------------
(* A thread that has its answer, and one that begins to read.              *)

\* A thread with a right answer.
LEMMA DoneOK ==
  ASSUME NEW t, NEW op, NEW res, NEW e, ResultOK(op, res, e)
  PROVE  ThreadOK(t, Done(op, res), e)
<1> DEFINE q == Done(op, res)
<1>1. Shape(Idle) /\ Idle.pc = "idle"
  BY DEF Shape, Idle
<1>2. Shape(q) /\ q.pc = "idle" /\ q.op = op /\ q.res = res
  BY <1>1 DEF Shape, Done
<1> HIDE DEF q
<1> QED
  BY <1>2 DEF ThreadOK, q

\* An operation that may fail and does.
LEMMA FailOK ==
  ASSUME NEW t, NEW op, NEW o, NEW a, NEW n, NEW e, Asks(t, op, o, a, n, e), MayFail(op, e), NEW res, ~res.ok
  PROVE  ResultOK(op, res, e)
<1>1. CASE RawAsks(op, o, a, n, e)
  <2>1. op[1] = "raw"
    BY <1>1 DEF RawAsks
  <2> QED
    BY <2>1 DEF ResultOK, MayFail, Size
<1>2. CASE OpenAsks(t, op, o, a, n, e)
  <2>1. op[1] \in {"header", "record"}
    BY <1>2 DEF OpenAsks
  <2> QED
    BY <2>1 DEF ResultOK
<1>3. CASE DropAsks(op, o, a, n, e)
  <2>1. op[1] = "drop" /\ o \in Ordinals /\ \E k \in 1..Len(Slabs[o].records) : Slabs[o].records[k].id = op[2]
    BY <1>3 DEF DropAsks
  <2>2. e.bad
    BY <2>1 DEF MayFail
  <2> QED
    BY <2>1, <2>2 DEF ResultOK
<1> QED
  BY <1>1, <1>2, <1>3 DEF Asks

----------------------------------------------------------------------------
(* The records of a slab.                                                  *)

\* The layout of a slab (encode_slab).
LEMMA SlabFacts ==
  ASSUME NEW o \in Ordinals
  PROVE  /\ Len(Slabs[o].records) \in Nat
         /\ SLAB_HEADER_LEN \in Nat /\ SLAB_HEADER_LEN > 0 /\ DROP_RECORD_LEN \in Nat /\ DROP_RECORD_LEN > 0
         /\ WindowStart(o) \in Nat
         /\ WindowStart(o) = SLAB_HEADER_LEN + Len(Slabs[o].records) * DROP_RECORD_LEN
         /\ Slabs[o].total = Size(o)
         /\ Size(o) = WindowStart(o) + WindowLenSum(o)[Len(Slabs[o].records)]
         /\ WindowLenSum(o) \in [0..Len(Slabs[o].records) -> Nat]
         /\ \A i, j \in 0..Len(Slabs[o].records) : i <= j => WindowLenSum(o)[i] <= WindowLenSum(o)[j]
<1> DEFINE rs == Slabs[o].records
           n == Len(rs)
           v == [i \in 1..n |-> rs[i].len]
           Rec(f) == f = [i \in 0..n |-> IF i = 0 THEN 0 ELSE f[i - 1] + rs[i].len]
<1>1. /\ n \in Nat /\ SLAB_HEADER_LEN \in Nat \ {0} /\ DROP_RECORD_LEN \in Nat \ {0}
      /\ Slabs[o].total = Size(o)
      /\ Slabs[o].total = WindowStart(o) + WindowLenSum(o)[n]
      /\ \A k \in 1..n : rs[k].len \in Nat
  BY PagedAssumption DEF Size
<1>2. WindowStart(o) = SLAB_HEADER_LEN + n * DROP_RECORD_LEN
  BY DEF WindowStart
<1>3. WindowStart(o) \in Nat
  BY <1>1, <1>2
<1>4. \A f : Rec(f) <=> RunningSum(f, v, 0, n)
  <2>1. \A f : [i \in 0..n |-> IF i = 0 THEN 0 ELSE f[i - 1] + rs[i].len]
               = [i \in 0..n |-> IF i = 0 THEN 0 ELSE f[i - 1] + v[i]]
    <3>1. \A i \in 0..n : i # 0 => i \in 1..n
      BY <1>1
    <3> HIDE DEF n, rs
    <3> QED
      BY <3>1
  <2> QED
    BY <2>1 DEF RunningSum
<1>5. WindowLenSum(o) = CHOOSE f : Rec(f)
  BY DEF WindowLenSum
<1>a. \A i \in 1..n : v[i] \in Nat
  BY <1>1
<1> HIDE DEF Rec, v, n, rs
<1>6. \E f : Rec(f)
  <2>1. 0 \in Nat
    OBVIOUS
  <2>2. \E f : RunningSum(f, v, 0, n)
    BY <2>1, <1>1, RunningSumExists, Zenon
  <2> QED
    BY <2>2, <1>4
<1>7. RunningSum(WindowLenSum(o), v, 0, n)
  BY <1>4, <1>5, <1>6
<1>8. /\ WindowLenSum(o) \in [0..n -> Nat]
      /\ \A i, j \in 0..n : i <= j => WindowLenSum(o)[i] <= WindowLenSum(o)[j]
  <2>1. 0 \in Nat /\ n \in Nat /\ 0 <= n /\ \A i \in (0 + 1)..n : v[i] \in Nat
    BY <1>1, <1>a
  <2> QED
    BY <2>1, <1>7, RunningSumFacts
<1>9. SLAB_HEADER_LEN > 0 /\ DROP_RECORD_LEN > 0
  BY <1>1
<1> QED
  BY <1>1, <1>2, <1>3, <1>8, <1>9 DEF n, rs

\* Record k lies before the window, and there is a next one unless all have been read.
LEMMA RecordFacts ==
  ASSUME NEW o \in Ordinals, NEW n \in 0..Len(Slabs[o].records)
  PROVE  /\ SLAB_HEADER_LEN + n * DROP_RECORD_LEN \in Nat
         /\ n < Len(Slabs[o].records) =>
              /\ TableStep(o, n) = "record"
              /\ SLAB_HEADER_LEN + n * DROP_RECORD_LEN + DROP_RECORD_LEN <= Size(o)
         /\ n = Len(Slabs[o].records) => TableStep(o, n) = "complete"
         /\ SLAB_HEADER_LEN <= Size(o)
<1> DEFINE N == Len(Slabs[o].records)
           R == DROP_RECORD_LEN
           H == SLAB_HEADER_LEN
           s == WindowLenSum(o)
           d == N - n
<1>1. /\ N \in Nat /\ H \in Nat /\ R \in Nat /\ R > 0 /\ Slabs[o].total = Size(o) /\ Size(o) \in Nat
      /\ Size(o) = (H + N * R) + s[N]
      /\ s[n] \in Nat /\ s[N] \in Nat /\ s[n] <= s[N] /\ d \in Nat
  <2>1. N \in 0..N /\ n \in 0..N /\ n <= N
    BY SlabFacts
  <2>2. /\ N \in Nat /\ H \in Nat /\ R \in Nat /\ R > 0 /\ Slabs[o].total = Size(o)
        /\ WindowStart(o) = H + N * R /\ Size(o) = WindowStart(o) + s[N]
        /\ s \in [0..N -> Nat] /\ \A i, j \in 0..N : i <= j => s[i] <= s[j]
    BY SlabFacts
  <2>3. Size(o) \in Nat
    BY SizeFacts
  <2> HIDE DEF N, H, R, s
  <2>4. d \in Nat
    BY <2>1, <2>2
  <2>5. s[n] \in Nat /\ s[N] \in Nat /\ s[n] <= s[N]
    BY <2>1, <2>2
  <2> QED
    BY <2>2, <2>3, <2>4, <2>5
<1>2. N * R = n * R + d * R /\ n * R \in Nat /\ d * R \in Nat /\ N * R \in Nat
  <2> HIDE DEF N, R, s
  <2>1. (n + d) * R = n * R + d * R /\ n + d = N
    BY <1>1
  <2> QED
    BY <1>1, <2>1
<1>3. d > 0 => d * R >= R
  <2>1. ASSUME d > 0 PROVE d * R >= R
    <3>1. d - 1 \in Nat /\ d = (d - 1) + 1
      BY <1>1, <2>1
    <3> DEFINE c == d - 1
    <3>2. c \in Nat /\ d = c + 1
      BY <3>1
    <3> HIDE DEF c, d, R
    <3>3. (c + 1) * R = c * R + R /\ c * R \in Nat
      BY <1>1, <3>2
    <3> QED
      BY <1>1, <3>2, <3>3
  <2> QED
    BY <2>1
<1> DEFINE nR == n * R
           dR == d * R
           left == Slabs[o].total - (H + nR)
           sn == s[n]
           sN == s[N]
<1>4. left = dR + sN /\ dR \in Nat /\ nR \in Nat
  BY <1>1, <1>2
<1>5. TableStep(o, n) = IF left < sn \/ (left # sn /\ left - sn < R) THEN "corrupt"
                        ELSE IF left = sn THEN "complete" ELSE "record"
  BY DEF TableStep
<1>6. (d > 0 => dR >= R) /\ (d = 0 => dR = 0) /\ (n < N => d > 0) /\ (n = N => d = 0 /\ sn = sN)
      /\ Size(o) = H + (nR + dR) + sN
  <2>1. d = 0 => dR = 0
    BY <1>1
  <2>2. (n < N => d > 0) /\ (n = N => d = 0 /\ sn = sN)
    BY <1>1
  <2>3. Size(o) = H + (nR + dR) + sN
    BY <1>1, <1>2
  <2> QED
    BY <1>3, <2>1, <2>2, <2>3
<1>7. sn \in Nat /\ sN \in Nat /\ sn <= sN
  BY <1>1
<1> HIDE DEF N, R, H, s, d, nR, dR, left, sn, sN
<1>8. n < N => TableStep(o, n) = "record" /\ H + nR + R <= Size(o)
  BY <1>1, <1>4, <1>5, <1>6, <1>7
<1>9. n = N => TableStep(o, n) = "complete"
  BY <1>1, <1>4, <1>5, <1>6, <1>7
<1>10. H + nR \in Nat /\ H <= Size(o)
  BY <1>1, <1>4, <1>6, <1>7
<1> QED
  BY <1>8, <1>9, <1>10 DEF N, R, H, nR

\* What every operation asks for is inside the slab, but for the plain reads.
LEMMA AsksFacts ==
  ASSUME NEW t, NEW op, NEW o, NEW a, NEW n, NEW e, Asks(t, op, o, a, n, e)
  PROVE  /\ o \in Ordinals /\ a \in Nat /\ n \in Nat
         /\ a + n + P <= MaxU64 \/ a + n > MaxU64
         /\ e.mode = "raw" \/ a + n <= Size(o)
         /\ op[1] = "raw" => e.mode = "raw" /\ o = 1 /\ op[2] = a /\ op[3] = n
         /\ op[1] = "drop" => e.mode = "set" /\ e.opened = Len(Slabs)
         /\ op[1] \in {"raw", "drop", "header", "record"}
<1>0. Len(Slabs) \in Nat /\ Len(Slabs) > 0 /\ MaxU64 \in Nat /\ P \in Nat
  BY PagedAssumption DEF P
<1>1. CASE RawAsks(op, o, a, n, e)
  <2>1. 1 \in Ordinals
    BY <1>0 DEF Ordinals
  <2>2. <<a, n>> \in RawReads /\ o = 1 /\ op = <<"raw", a, n>> /\ e.mode = "raw"
    BY <1>1 DEF RawAsks
  <2>3. a \in Nat /\ n \in Nat /\ (a + n + P <= MaxU64 \/ a + n > MaxU64)
    BY <2>2, PagedAssumption DEF P
  <2> QED
    BY <2>1, <2>2, <2>3
<1>2. CASE OpenAsks(t, op, o, a, n, e)
  <2>1. o \in Ordinals /\ e.mode = "set"
    BY <1>2 DEF OpenAsks
  <2>2. op[1] \in {"header", "record"} /\ a \in Nat /\ n \in Nat /\ a + n <= Size(o)
    <3>1. CASE op = <<"header">> /\ a = 0 /\ n = SLAB_HEADER_LEN
      <4>1. 0 \in 0..Len(Slabs[o].records) /\ SLAB_HEADER_LEN \in Nat
        BY <2>1, SlabFacts
      <4>2. SLAB_HEADER_LEN <= Size(o)
        BY <2>1, <4>1, RecordFacts
      <4> QED
        BY <3>1, <4>1, <4>2
    <3>2. CASE \E k \in 1..Len(Slabs[o].records) :
                 /\ op = <<"record", k>> /\ n = DROP_RECORD_LEN
                 /\ a = SLAB_HEADER_LEN + (k - 1) * DROP_RECORD_LEN
      <4>1. PICK k \in 1..Len(Slabs[o].records) :
                 /\ op = <<"record", k>> /\ n = DROP_RECORD_LEN
                 /\ a = SLAB_HEADER_LEN + (k - 1) * DROP_RECORD_LEN
        BY <3>2
      <4> DEFINE j == k - 1
      <4>2. j \in 0..Len(Slabs[o].records) /\ j < Len(Slabs[o].records) /\ DROP_RECORD_LEN \in Nat
        BY <2>1, SlabFacts
      <4> HIDE DEF j
      <4>3. /\ SLAB_HEADER_LEN + j * DROP_RECORD_LEN \in Nat
            /\ SLAB_HEADER_LEN + j * DROP_RECORD_LEN + DROP_RECORD_LEN <= Size(o)
        BY <2>1, <4>2, RecordFacts
      <4>4. a = SLAB_HEADER_LEN + j * DROP_RECORD_LEN /\ n = DROP_RECORD_LEN
        BY <4>1 DEF j
      <4> QED
        BY <4>1, <4>2, <4>3, <4>4
    <3> QED
      BY <1>2, <3>1, <3>2 DEF OpenAsks
  <2>3. Size(o) + P <= MaxU64 /\ Size(o) \in Nat
    BY <2>1, SizeFacts
  <2> QED
    BY <1>0, <2>1, <2>2, <2>3
<1>3. CASE DropAsks(op, o, a, n, e)
  <2>1. PICK k \in 1..Len(Slabs[o].records) :
          /\ op = <<"drop", Slabs[o].records[k].id>>
          /\ a = WindowStart(o) + Slabs[o].records[k].off /\ n = Slabs[o].records[k].len
    BY <1>3 DEF DropAsks
  <2>2. o \in Ordinals /\ e.mode = "set" /\ e.opened = Len(Slabs) /\ op[1] = "drop"
    BY <1>3, <2>1 DEF DropAsks
  <2> DEFINE r == Slabs[o].records[k]
  <2>3. r.off \in Nat /\ r.len \in Nat /\ WindowStart(o) + r.off + r.len <= Slabs[o].total
    BY <2>2, PagedAssumption
  <2>4. Size(o) + P <= MaxU64 /\ Size(o) \in Nat /\ Slabs[o].total = Size(o) /\ WindowStart(o) \in Nat
    BY <2>2, SizeFacts, SlabFacts
  <2>5. a = WindowStart(o) + r.off /\ n = r.len
    BY <2>1
  <2> HIDE DEF r
  <2>6. a \in Nat /\ n \in Nat /\ a + n <= Size(o) /\ a + n + P <= MaxU64
    BY SMTT(30), <1>0, <2>3, <2>4, <2>5
  <2> QED
    BY <2>2, <2>6
<1> QED
  BY <1>1, <1>2, <1>3 DEF Asks

\* A length that is known but short of what was asked for.
LEMMA KnownFacts ==
  ASSUME NEW o \in Ordinals, NEW e, LenOK(len[o], o, e), NEW x \in Nat, x <= MaxU64
  PROVE  /\ KnownLen(o, x) \in Nat /\ KnownLen(o, x) <= x
         /\ KnownLen(o, x) = x \/ (KnownLen(o, x) = len[o] /\ (len[o] >= Size(o) \/ e.cut))
         /\ KnownLen(o, x) < x => KnownLen(o, x) = len[o] /\ len[o] # UNKNOWN_LEN
<1>1. Size(o) \in Nat /\ MaxU64 \in Nat
  BY SizeFacts
<1>2. len[o] \in Nat /\ (len[o] = UNKNOWN_LEN \/ len[o] >= Size(o) \/ e.cut)
  BY <1>1 DEF LenOK
<1> DEFINE l == len[o]
<1> HIDE DEF l
<1>3. KnownLen(o, x) = IF l = UNKNOWN_LEN THEN x ELSE IF x < l THEN x ELSE l
  BY DEF KnownLen, Least, l
<1>4. l \in Nat /\ (l = UNKNOWN_LEN \/ l >= Size(o) \/ e.cut)
  BY <1>2 DEF l
<1> QED
  BY <1>3, <1>4 DEF l

\* The first half of read_at puts a thread in order, whatever length is known.
LEMMA ReadAtOK ==
  ASSUME NEW e, SharedOK(len, cache, e), NEW t, NEW op, NEW o, NEW a, NEW n, Asks(t, op, o, a, n, e)
  PROVE  ThreadOK(t, ReadAt(op, o, a, n), e)
<1> DEFINE end == KnownLen(o, a + n)
           q == ReadAt(op, o, a, n)
<1>1. /\ o \in Ordinals /\ a \in Nat /\ n \in Nat
      /\ a + n + P <= MaxU64 \/ a + n > MaxU64
      /\ e.mode = "raw" \/ a + n <= Size(o)
      /\ op[1] = "raw" => e.mode = "raw" /\ o = 1 /\ op[2] = a /\ op[3] = n
      /\ op[1] = "drop" => e.mode = "set" /\ e.opened = Len(Slabs)
      /\ op[1] \in {"raw", "drop", "header", "record"}
  BY AsksFacts
<1>2. Size(o) \in Nat /\ Size(o) + P <= MaxU64 /\ P \in Nat /\ P > 0 /\ MaxU64 \in Nat
  BY <1>1, SizeFacts
<1>3. LenOK(len[o], o, e) /\ EnvOK(e)
  BY <1>1 DEF SharedOK
<1>4. Shape(Idle) /\ Idle.at = 1
  BY DEF Shape, Idle
<1>5. CASE a + n > MaxU64
  <2>1. q = Done(op, Err)
    BY <1>5 DEF ReadAt
  <2>2. a + n > Size(o)
    BY <1>1, <1>2, <1>5
  <2>3. MayFail(op, e)
    <3>1. e.mode = "raw" /\ op[1] # "drop"
      BY <1>1, <1>2, <2>2
    <3> QED
      BY <1>1, <2>2, <3>1 DEF MayFail
  <2>4. ~Err.ok
    BY DEF Err
  <2>5. ResultOK(op, Err, e)
    BY <2>3, <2>4, FailOK
  <2> QED
    BY <2>1, <2>5, DoneOK
<1>6. CASE a + n <= MaxU64
  <2>1. /\ end \in Nat /\ end <= a + n
        /\ end = a + n \/ (end = len[o] /\ (len[o] >= Size(o) \/ e.cut))
        /\ end < a + n => end = len[o]
    BY <1>1, <1>3, <1>6, KnownFacts
  <2>2. ~(a + n > MaxU64)
    BY <1>1, <1>2, <1>6
  <2>3. n \in 0..MaxU64
    BY <1>1, <1>2, <1>6
  <2>4. CASE n = 0 \/ end <= a
    <3>1. q = [Idle EXCEPT !.pc = "assemble", !.op = op, !.slab = o, !.offset = a, !.end = a]
      BY <2>2, <2>4 DEF ReadAt
    <3>2. /\ Shape(q) /\ q.pc = "assemble" /\ q.op = op /\ q.slab = o /\ q.offset = a /\ q.end = a
          /\ q.first = 0 /\ q.pages = <<>> /\ q.at = 1
      <4>1. Idle.first = 0 /\ Idle.pages = <<>>
        BY DEF Idle
      <4> HIDE DEF q
      <4> QED
        BY <1>4, <3>1, <4>1 DEF Shape
    <3> HIDE DEF q, end
    <3>3. a = a + n \/ Size(o) <= a \/ e.cut
      BY <1>1, <1>2, <2>1, <2>4
    <3>4. RangeOK(q, n, e)
      BY <1>1, <1>2, <1>6, <3>2, <3>3 DEF RangeOK
    <3>5. Reading(t, q, e)
      BY <1>1, <2>3, <3>2, <3>4 DEF Reading
    <3>6. PagesOK(q.pages, q.slab, q.first, Settled(q), e)
      BY <3>2 DEF PagesOK
    <3>7. ReadOK(t, q, e)
      BY <3>2, <3>5, <3>6 DEF ReadOK
    <3> QED
      BY <3>2, <3>7 DEF ThreadOK, q
  <2>5. CASE ~(n = 0 \/ end <= a)
    <3> DEFINE f == a \div P
               l == (end - 1) \div P
               pages == [k \in 1..(l - f + 1) |-> Missing]
    <3>1. q = [Idle EXCEPT !.pc = "collect", !.op = op, !.slab = o, !.offset = a, !.end = end,
                 !.first = f, !.pages = pages]
      BY <2>2, <2>5 DEF ReadAt, P
    <3>2. /\ Shape(q) /\ q.pc = "collect" /\ q.op = op /\ q.slab = o /\ q.offset = a /\ q.end = end
          /\ q.first = f /\ q.pages = pages /\ q.at = 1
      <4> HIDE DEF q, end, f, pages
      <4> QED
        BY <1>4, <3>1 DEF Shape
    <3> HIDE DEF q, end
    <3>3. a < end /\ end - 1 \in Nat
      BY <1>1, <2>1, <2>5
    <3>4. /\ f \in Nat /\ f * P <= a /\ a < f * P + P
          /\ l \in Nat /\ l * P <= end - 1 /\ end - 1 < l * P + P
      BY <1>1, <3>3, DivP
    <3> HIDE DEF f, l
    <3>5. (f + 1) * P = f * P + P /\ (l + 1) * P = l * P + P /\ f * P \in Nat /\ l * P \in Nat
      BY <3>4, TimesP
    <3>6. f <= l
      <4>1. SUFFICES ASSUME l < f PROVE FALSE
        BY <3>4
      <4>2. l * P + P <= f * P
        BY <3>4, <4>1, TimesPGrows
      <4> QED
        BY <1>1, <1>2, <2>1, <3>3, <3>4, <3>5, <4>2
    <3>7. pages \in Seq(Seq(Byte)) /\ Len(pages) = l - f + 1 /\ \A k \in 1..Len(pages) : pages[k] = Missing
      <4>1. l - f + 1 \in Nat /\ Missing \in Seq(Byte)
        BY <3>4, <3>6 DEF Missing
      <4>2. pages \in [1..(l - f + 1) -> Seq(Byte)]
        BY <4>1
      <4> QED
        BY <4>1, <4>2
    <3> HIDE DEF pages
    <3>8. /\ Len(pages) > 0 /\ f + Len(pages) - 1 = l /\ f + Len(pages) = l + 1
      BY <3>4, <3>6, <3>7
    <3>9. RangeOK(q, n, e)
      <4>1. /\ q.offset \in Nat /\ q.end \in Nat /\ q.first \in Nat
            /\ q.offset <= q.end /\ q.end <= q.offset + n /\ q.offset + n <= MaxU64
        BY <1>1, <1>6, <2>1, <3>2, <3>3, <3>4
      <4>2. q.end = q.offset + n \/ Size(q.slab) <= q.end \/ e.cut
        BY <1>2, <2>1, <3>2
      <4>3. /\ Len(q.pages) > 0 /\ q.first * P <= q.offset /\ q.offset < (q.first + 1) * P
            /\ (q.first + Len(q.pages) - 1) * P < q.end /\ q.end <= (q.first + Len(q.pages)) * P
        <5>1. l * P < end /\ end <= l * P + P
          BY <1>2, <2>1, <3>3, <3>4, <3>5
        <5> QED
          BY <3>2, <3>4, <3>5, <3>8, <5>1
      <4> QED
        BY <3>2, <3>7, <4>1, <4>2, <4>3 DEF RangeOK
    <3>10. Reading(t, q, e)
      <4>1. 1 <= Len(q.pages) + 1
        BY <3>2, <3>4, <3>6, <3>7
      <4> QED
        BY <1>1, <2>3, <3>2, <3>9, <4>1 DEF Reading
    <3>11. PagesOK(q.pages, q.slab, q.first, Settled(q), e)
      <4>1. Settled(q) = 1
        BY <3>2 DEF Settled
      <4>2. \A j \in 1..Len(pages) : ~(j < 1)
        OBVIOUS
      <4> QED
        BY <3>2, <3>7, <4>1, <4>2 DEF PagesOK
    <3>12. ReadOK(t, q, e)
      BY <3>2, <3>10, <3>11 DEF ReadOK
    <3> QED
      BY <3>2, <3>12 DEF ThreadOK, q
  <2> QED
    BY <2>4, <2>5
<1> QED
  BY <1>1, <1>2, <1>5, <1>6

----------------------------------------------------------------------------
(* The steps of a read.                                                    *)

\* A step of a read that leaves its range alone.
LEMMA SameRange ==
  ASSUME NEW t, NEW th, NEW e, Reading(t, th, e), NEW q,
         q.op = th.op, q.slab = th.slab, q.offset = th.offset, q.end = th.end, q.first = th.first,
         q.pages \in Seq(Seq(Byte)), Len(q.pages) = Len(th.pages),
         q.at \in Nat, 1 <= q.at, q.at <= Len(th.pages) + 1
  PROVE  Reading(t, q, e)
<1>1. PICK n \in 0..MaxU64 : Asks(t, th.op, th.slab, th.offset, n, e) /\ RangeOK(th, n, e)
  BY DEF Reading
<1>2. th.pages = <<>> <=> q.pages = <<>>
  <2>1. th.pages \in Seq(Seq(Byte))
    BY <1>1 DEF RangeOK
  <2> QED
    BY <2>1
<1>3. RangeOK(q, n, e)
  BY <1>1, <1>2 DEF RangeOK
<1> QED
  BY <1>1, <1>3 DEF Reading

\* What the actions need of the range.
LEMMA RangeFacts ==
  ASSUME NEW t, NEW th, NEW e, Reading(t, th, e)
  PROVE  /\ th.slab \in Ordinals /\ th.first \in Nat /\ th.offset \in Nat /\ th.end \in Nat
         /\ th.pages \in Seq(Seq(Byte)) /\ Len(th.pages) \in Nat
         /\ th.at \in Nat /\ 1 <= th.at /\ th.at <= Len(th.pages) + 1
         /\ Len(th.pages) > 0 =>
              /\ th.first * P <= th.offset /\ th.offset < (th.first + 1) * P
              /\ (th.first + Len(th.pages) - 1) * P < th.end /\ th.end <= (th.first + Len(th.pages)) * P
<1>1. PICK n \in 0..MaxU64 : Asks(t, th.op, th.slab, th.offset, n, e) /\ RangeOK(th, n, e)
  BY DEF Reading
<1>2. th.pages \in Seq(Seq(Byte))
  BY <1>1 DEF RangeOK
<1>3. Len(th.pages) \in Nat /\ (th.pages = <<>> => ~(Len(th.pages) > 0))
  BY <1>2
<1> QED
  BY <1>1, <1>2, <1>3 DEF RangeOK, Reading

\* Collect
LEMMA CollectOK ==
  ASSUME NEW t, NEW th, NEW e, ThreadOK(t, th, e), th.pc = "collect", NEW c, CacheOK(c, th.slab, e)
  PROVE  /\ CacheOK(Touch(c, th.first, th.first + Len(th.pages) - 1), th.slab, e)
         /\ ThreadOK(t, [th EXCEPT !.pc = "request",
                           !.pages = [k \in DOMAIN th.pages |-> PageIn(c, th.first + k - 1)]], e)
<1> DEFINE L == Len(th.pages)
           new == [k \in DOMAIN th.pages |-> PageIn(c, th.first + k - 1)]
           q == [th EXCEPT !.pc = "request", !.pages = new]
           last == th.first + L - 1
<1>1. Shape(th) /\ ReadOK(t, th, e)
  BY DEF ThreadOK
<1>2. Reading(t, th, e) /\ th.at = 1
  BY <1>1 DEF ReadOK
<1>3. th.slab \in Ordinals /\ th.first \in Nat /\ th.pages \in Seq(Seq(Byte)) /\ L \in Nat
  BY <1>2, RangeFacts
<1>4. CacheOK(Touch(c, th.first, last), th.slab, e)
  <2>1. last \in Int /\ last - th.first + 1 \in Nat
    BY <1>3
  <2> HIDE DEF last
  <2> QED
    BY <1>3, <2>1, TouchKeeps
<1>5. DOMAIN th.pages = 1..L
  BY <1>3
<1>6. ASSUME NEW k \in 1..L
      PROVE  new[k] \in Seq(Byte) /\ (new[k] = Missing \/ (SlotOK(new[k], th.slab, th.first, k, e) /\ e.reach))
  <2> DEFINE i == th.first + k - 1
  <2>1. new[k] = PageIn(c, i)
    BY <1>5
  <2>2. Missing \in Seq(Byte)
    BY DEF Missing
  <2>3. SlotOK(new[k], th.slab, th.first, k, e) <=> Piece(new[k], th.slab, i * P, P, e.cut)
    BY DEF SlotOK
  <2> HIDE DEF i, new
  <2> QED
    BY <2>1, <2>2, <2>3, PageInFacts
<1>7. new \in Seq(Seq(Byte)) /\ Len(new) = L
  <2>1. new \in [1..L -> Seq(Byte)]
    BY <1>5, <1>6
  <2> HIDE DEF new, L
  <2> QED
    BY <1>3, <2>1
<1> HIDE DEF new
<1>8. /\ Shape(q) /\ q.pc = "request" /\ q.op = th.op /\ q.slab = th.slab /\ q.offset = th.offset
      /\ q.end = th.end /\ q.first = th.first /\ q.pages = new /\ q.at = th.at
  BY <1>1 DEF Shape
<1> HIDE DEF q, L
<1>9. Reading(t, q, e)
  <2>1. q.pages \in Seq(Seq(Byte)) /\ Len(q.pages) = Len(th.pages)
    BY <1>7, <1>8 DEF L
  <2>2. q.at \in Nat /\ 1 <= q.at /\ q.at <= Len(th.pages) + 1
    BY <1>2, <1>8, RangeFacts
  <2> QED
    BY <1>2, <1>8, <2>1, <2>2, SameRange
<1>10. PagesOK(q.pages, q.slab, q.first, Settled(q), e)
  <2>1. Settled(q) = 1
    BY <1>2, <1>8 DEF Settled
  <2>2. \A j \in 1..Len(new) : ~(j < 1)
    OBVIOUS
  <2> QED
    BY <1>6, <1>7, <1>8, <2>1, <2>2 DEF PagesOK
<1>11. ReadOK(t, q, e)
  BY <1>8, <1>9, <1>10 DEF ReadOK
<1> QED
  BY <1>4, <1>8, <1>11 DEF ThreadOK, q, L, new

\* u64 subtraction that wraps around.
LEMMA ModWrap ==
  ASSUME NEW M \in Nat, NEW x \in Int, x <= M, -(M + 1) <= x
  PROVE  x % (M + 1) = IF x < 0 THEN x + M + 1 ELSE x
<1>1. CASE x < 0
  BY <1>1
<1>2. CASE x >= 0
  BY <1>2
<1> QED
  BY <1>1, <1>2

\* The scan finds the first missing page, if there is one.
LEMMA RunStartFacts ==
  ASSUME NEW pages, Len(pages) \in Nat, NEW at \in Nat, 1 <= at
  PROVE  /\ RunStart(pages, at) = 0 => \A j \in at..Len(pages) : pages[j] # Missing
         /\ RunStart(pages, at) # 0 =>
              /\ RunStart(pages, at) \in at..Len(pages) /\ pages[RunStart(pages, at)] = Missing
              /\ \A j \in at..Len(pages) : j < RunStart(pages, at) => pages[j] # Missing
<1> DEFINE ks == {k \in at..Len(pages) : pages[k] = Missing}
           m == CHOOSE k \in ks : \A j \in ks : k <= j
<1>1. RunStart(pages, at) = IF ks = {} THEN 0 ELSE m
  BY DEF RunStart
<1>2. ASSUME ks # {} PROVE m \in ks /\ \A j \in ks : m <= j
  <2>1. ks \subseteq Nat
    OBVIOUS
  <2> HIDE DEF ks
  <2>2. \E k \in ks : \A j \in ks : k <= j
    BY <1>2, <2>1, LeastNatural
  <2> QED
    BY <2>2
<1> HIDE DEF m
<1>3. CASE ks = {}
  BY <1>1, <1>3
<1>4. CASE ks # {}
  <2>1. RunStart(pages, at) = m /\ m \in at..Len(pages) /\ pages[m] = Missing /\ m # 0
    BY <1>1, <1>2, <1>4
  <2>2. \A j \in at..Len(pages) : j < m => pages[j] # Missing
    <3>1. ASSUME NEW j \in at..Len(pages), j < m, pages[j] = Missing PROVE FALSE
      <4>1. m <= j
        BY <1>2, <1>4, <3>1
      <4> QED
        BY <2>1, <3>1, <4>1
    <3> QED
      BY <3>1
  <2> QED
    BY <2>1, <2>2
<1> QED
  BY <1>3, <1>4

\* A run of missing pages ends inside the read.
LEMMA RunEndFacts ==
  ASSUME NEW pages, Len(pages) \in Nat, NEW k \in 1..Len(pages), pages[k] = Missing
  PROVE  RunEnd(pages, k) \in k..Len(pages)
<1> DEFINE L == Len(pages)
           T == {e \in k..L : \A j \in k..e : pages[j] = Missing}
           Is(e) == (\A j \in k..e : pages[j] = Missing) /\ (e < L => pages[e + 1] # Missing)
<1>1. T \subseteq 0..L /\ k \in T
  OBVIOUS
<1>2. \A e \in T : e \in k..L /\ \A j \in k..e : pages[j] = Missing
  OBVIOUS
<1>3. \A e \in k..L : e \notin T => ~(\A j \in k..e : pages[j] = Missing)
  OBVIOUS
<1> HIDE DEF T
<1>4. PICK e \in T : \A j \in T : j <= e
  BY <1>1, GreatestNatural
<1>5. e < L => pages[e + 1] # Missing
  <2> SUFFICES ASSUME e < L, pages[e + 1] = Missing PROVE FALSE
    OBVIOUS
  <2>1. e + 1 \in k..L /\ ~(e + 1 <= e)
    BY <1>2, <1>4
  <2>2. e + 1 \notin T
    BY <1>4, <2>1
  <2>3. \A j \in k..(e + 1) : j \in k..e \/ j = e + 1
    BY <1>2, <1>4
  <2> QED
    BY <1>2, <1>3, <1>4, <2>1, <2>2, <2>3
<1>6. \E x \in k..L : Is(x)
  BY <1>2, <1>4, <1>5
<1>7. RunEnd(pages, k) = CHOOSE x \in k..L : Is(x)
  BY DEF RunEnd
<1> HIDE DEF Is
<1> QED
  BY <1>6, <1>7

\* Request when no page is missing.
LEMMA NoRunOK ==
  ASSUME NEW t, NEW th, NEW e, ThreadOK(t, th, e), th.pc = "request", RunStart(th.pages, th.at) = 0
  PROVE  ThreadOK(t, [th EXCEPT !.pc = "assemble"], e)
<1> DEFINE L == Len(th.pages)
           q == [th EXCEPT !.pc = "assemble"]
<1>1. Shape(th) /\ ReadOK(t, th, e)
  BY DEF ThreadOK
<1>2. Reading(t, th, e) /\ PagesOK(th.pages, th.slab, th.first, th.at, e)
  BY <1>1 DEF ReadOK, Settled
<1>3. /\ th.pages \in Seq(Seq(Byte)) /\ L \in Nat /\ th.at \in Nat /\ 1 <= th.at /\ th.at <= L + 1
  BY <1>2, RangeFacts
<1>4. \A j \in th.at..L : th.pages[j] # Missing
  BY <1>3, RunStartFacts
<1>5. /\ Shape(q) /\ q.pc = "assemble" /\ q.op = th.op /\ q.slab = th.slab /\ q.offset = th.offset
      /\ q.end = th.end /\ q.first = th.first /\ q.pages = th.pages /\ q.at = th.at
  BY <1>1 DEF Shape
<1> HIDE DEF q
<1>6. Reading(t, q, e)
  BY <1>2, <1>3, <1>5, SameRange
<1>7. PagesOK(q.pages, q.slab, q.first, Settled(q), e)
  <2>1. \A j \in 1..L : j < th.at \/ j \in th.at..L
    BY <1>3
  <2>2. \A j \in 1..L : SlotOK(th.pages[j], th.slab, th.first, j, e)
    BY <1>2, <1>4, <2>1 DEF PagesOK
  <2> QED
    BY <1>2, <1>5, <2>2 DEF PagesOK
<1>8. ReadOK(t, q, e)
  BY <1>5, <1>6, <1>7 DEF ReadOK
<1> QED
  BY <1>5, <1>8 DEF ThreadOK, q

\* The run that Request asks for.
RunFrom(th) == (th.first + RunStart(th.pages, th.at) - 1) * PAGED_PAGE_SIZE

RunTo(th) ==
  KnownLen(th.slab, (th.first + RunEnd(th.pages, RunStart(th.pages, th.at))) * PAGED_PAGE_SIZE)

Asked(th) ==
  LET k == RunStart(th.pages, th.at) IN
  [th EXCEPT !.pc = "reply", !.k = k, !.at = RunEnd(th.pages, k) + 1, !.fetch = RunFrom(th),
     !.expected = (RunTo(th) - RunFrom(th)) % (MaxU64 + 1)]

\* Request for a run of missing pages.
LEMMA RunAskedOK ==
  ASSUME NEW e, SharedOK(len, cache, e), NEW t, NEW th, ThreadOK(t, th, e), th.pc = "request",
         RunStart(th.pages, th.at) # 0
  PROVE  /\ ThreadOK(t, Asked(th), e)
         /\ RunTo(th) < RunFrom(th) => ThreadOK(t, Done(th.op, Panic), e)
<1> DEFINE L == Len(th.pages)
           k == RunStart(th.pages, th.at)
           z == RunEnd(th.pages, k)
           from == RunFrom(th)
           to == RunTo(th)
           o == th.slab
           x == (to - from) % (MaxU64 + 1)
           full == (th.first + z) * P
           q == [th EXCEPT !.pc = "reply", !.k = k, !.at = z + 1, !.fetch = from, !.expected = x]
<1>1. Shape(th) /\ ReadOK(t, th, e)
  BY DEF ThreadOK
<1>2. Reading(t, th, e) /\ PagesOK(th.pages, th.slab, th.first, th.at, e)
  BY <1>1 DEF ReadOK, Settled
<1>3. /\ th.pages \in Seq(Seq(Byte)) /\ L \in Nat /\ th.at \in Nat /\ 1 <= th.at /\ th.at <= L + 1
      /\ o \in Ordinals /\ th.first \in Nat /\ th.offset \in Nat /\ th.end \in Nat
  BY <1>2, RangeFacts
<1> HIDE DEF from, to
<1>4. k \in th.at..L /\ \A j \in th.at..L : j < k => th.pages[j] # Missing
  BY <1>3, RunStartFacts
<1>5. z \in k..L
  <2>1. k \in 1..L /\ th.pages[k] = Missing
    BY <1>3, <1>4, RunStartFacts
  <2> QED
    BY <1>3, <2>1, RunEndFacts
<1>6. k \in Nat /\ 1 <= k /\ k <= z /\ z \in Nat /\ z <= L /\ L > 0 /\ th.at <= k
  BY <1>3, <1>4, <1>5
<1> HIDE DEF k, z, L
<1>7. PICK n \in 0..MaxU64 : Asks(t, th.op, o, th.offset, n, e) /\ RangeOK(th, n, e)
  BY <1>2 DEF Reading
<1>8. /\ n \in Nat /\ th.end <= th.offset + n /\ th.offset + n <= MaxU64
  BY <1>7, AsksFacts DEF RangeOK
<1>9. /\ th.offset + n + P <= MaxU64
      /\ e.mode = "raw" \/ th.offset + n <= Size(o)
      /\ th.op[1] = "raw" => e.mode = "raw" /\ o = 1 /\ th.op[2] = th.offset /\ th.op[3] = n
      /\ th.op[1] = "drop" => e.mode = "set" /\ e.opened = Len(Slabs)
  <2>1. MaxU64 \in Nat /\ P \in Nat
    BY <1>3, SizeFacts
  <2> QED
    BY <1>3, <1>7, <1>8, <2>1, AsksFacts
<1>10. Size(o) \in Nat /\ MaxU64 \in Nat /\ P \in Nat /\ P > 0 /\ Size(o) + P <= MaxU64
  BY <1>3, SizeFacts
\* Where the run lies.
<1>11. /\ from \in Nat /\ full \in Nat /\ from < full /\ full - from = (z + 1 - k) * P
       /\ from < th.end /\ full <= MaxU64
  <2> DEFINE a == th.first + k - 1
             b == th.first + z
             c == th.first + L - 1
             d == z + 1 - k
  <2>1. a \in Nat /\ b \in Nat /\ c \in Nat /\ d \in Nat /\ a < b /\ a <= c /\ b <= c + 1 /\ b = a + d
    <3>1. th.first \in Nat /\ L \in Nat
      BY <1>3
    <3> QED
      BY <1>6, <3>1
  <2>2. from = a * P /\ full = b * P
    BY DEF P, RunFrom, k, from
  <2>a. c * P < th.end
    BY <1>2, <1>6, RangeFacts DEF L
  <2> HIDE DEF a, b, c, d, full
  <2>3. (a + d) * P = a * P + d * P /\ a * P \in Nat /\ b * P \in Nat /\ c * P \in Nat /\ d * P \in Nat
        /\ (c + 1) * P = c * P + P
    <3>1. a * P \in Nat /\ b * P \in Nat /\ c * P \in Nat /\ d * P \in Nat /\ (c + 1) * P = c * P + P
      BY <2>1, TimesP
    <3>2. (a + d) * P = a * P + d * P
      BY <1>10, <2>1
    <3> QED
      BY <3>1, <3>2
  <2>4. a * P + P <= b * P
    BY <2>1, TimesPGrows
  <2>5. a * P <= c * P
    <3>1. CASE a = c
      BY <2>3, <3>1
    <3>2. CASE a < c
      BY <1>10, <2>1, <2>3, <3>2, TimesPGrows
    <3> QED
      BY <2>1, <3>1, <3>2
  <2>6. b * P <= c * P + P
    <3>1. CASE b = c + 1
      BY <2>3, <3>1
    <3>2. CASE b < c + 1
      <4>1. c + 1 \in Nat
        BY <2>1
      <4>2. b * P + P <= (c + 1) * P
        BY <2>1, <3>2, <4>1, TimesPGrows
      <4> QED
        BY <1>10, <2>3, <4>2
    <3> QED
      BY <2>1, <3>1, <3>2
  <2>7. full - from = d * P
    BY <2>1, <2>2, <2>3
  <2>8. from \in Nat /\ full \in Nat /\ from < full /\ from < th.end /\ full <= MaxU64
    <3>1. th.end \in Nat /\ th.offset \in Nat
      BY <1>3
    <3> DEFINE aP == a * P
               bP == b * P
               cP == c * P
               en == th.end
               of == th.offset
    <3>2. from = aP /\ full = bP /\ cP < en /\ aP \in Nat /\ bP \in Nat /\ cP \in Nat /\ aP + P <= bP /\ aP <= cP
          /\ bP <= cP + P /\ en \in Nat /\ of \in Nat /\ en <= of + n /\ of + n + P <= MaxU64
      BY <1>8, <1>9, <2>2, <2>a, <2>3, <2>4, <2>5, <2>6, <3>1
    <3> HIDE DEF aP, bP, cP, en, of
    <3>3. from < full /\ from < en /\ full <= MaxU64
      BY <1>8, <1>10, <3>2
    <3> QED
      BY <3>2, <3>3 DEF en
  <2> QED
    BY <2>7, <2>8 DEF d
<1>12. LenOK(len[o], o, e) /\ EnvOK(e)
  BY <1>3 DEF SharedOK
<1>13. /\ to \in Nat /\ to <= full
       /\ to = full \/ (to = len[o] /\ (len[o] >= Size(o) \/ e.cut))
       /\ to < full => to = len[o] /\ len[o] # UNKNOWN_LEN
  <2>1. to = KnownLen(o, full)
    BY DEF P, RunTo, k, z, to
  <2> HIDE DEF full
  <2> QED
    BY <1>3, <1>11, <1>12, <2>1, KnownFacts
<1> DEFINE w == (z + 1 - k) * P
<1>14. full = from + w
  <2> HIDE DEF full, w
  <2>1. full - from = w
    BY <1>11 DEF w
  <2>2. w \in Int
    BY <2>1, <1>11
  <2> QED
    BY <1>11, <2>1, <2>2
<1> HIDE DEF full, w
<1>15. x = IF to < from THEN to - from + MaxU64 + 1 ELSE to - from
  <2> DEFINE y == to - from
  <2>1. y \in Int /\ y <= MaxU64 /\ -(MaxU64 + 1) <= y /\ (y < 0 <=> to < from)
    BY <1>10, <1>11, <1>13
  <2> HIDE DEF y
  <2>2. y % (MaxU64 + 1) = IF y < 0 THEN y + MaxU64 + 1 ELSE y
    BY <1>10, <2>1, ModWrap
  <2> QED
    BY <2>1, <2>2 DEF y
<1> HIDE DEF x
<1>16. x \in Nat /\ (from + x = full \/ from + x >= Size(o) \/ e.cut)
  BY <1>10, <1>11, <1>13, <1>15
\* Nothing to from, or less: the length learned since lies before the end of the range.
<1>17. ASSUME to <= from PROVE MayFail(th.op, e)
  <2>1. to < full /\ len[o] = to
    BY <1>11, <1>13, <1>17
  <2>2. len[o] \in Nat /\ len[o] < th.offset + n /\ len[o] # UNKNOWN_LEN
    BY <1>3, <1>8, <1>11, <1>13, <1>17, <2>1
  <2>3. ASSUME th.op[1] = "raw" PROVE e.bad \/ th.op[2] + th.op[3] > Size(1)
    <3>1. e.cut \/ len[o] >= Size(o)
      BY <1>12, <2>2, <1>10 DEF LenOK
    <3>2. e.cut => e.bad
      BY <1>12 DEF EnvOK
    <3>3. o = 1 /\ th.op[2] = th.offset /\ th.op[3] = n
      BY <1>9, <2>3
    <3>4. len[o] >= Size(o) => th.offset + n > Size(o)
      BY <1>3, <1>8, <1>10, <2>2
    <3> QED
      BY <3>1, <3>2, <3>3, <3>4
  <2>4. ASSUME th.op[1] = "drop" PROVE FALSE
    <3>1. e.mode = "set" /\ e.opened = Len(Slabs) /\ th.offset + n <= Size(o)
      BY <1>9, <2>4
    <3>2. o <= e.opened
      BY <1>3, <3>1 DEF Ordinals
    <3>3. len[o] = Size(o)
      BY <1>12, <3>2 DEF LenOK
    <3> QED
      BY <1>3, <1>8, <1>10, <2>2, <3>1, <3>3
  <2> QED
    BY <2>3, <2>4 DEF MayFail
<1>18. /\ Shape(q) /\ q.pc = "reply" /\ q.op = th.op /\ q.slab = th.slab /\ q.offset = th.offset
       /\ q.end = th.end /\ q.first = th.first /\ q.pages = th.pages /\ q.at = z + 1
       /\ q.k = k /\ q.fetch = from /\ q.expected = x
  BY <1>1 DEF Shape
<1>19. q = Asked(th)
  BY DEF x, Asked, k, z, from, to
<1> HIDE DEF q
<1>20. Reading(t, q, e)
  <2>1. q.at \in Nat /\ 1 <= q.at /\ q.at <= Len(th.pages) + 1
    BY <1>6, <1>18 DEF L
  <2> QED
    BY <1>2, <1>3, <1>18, <2>1, SameRange
<1>21. PagesOK(q.pages, q.slab, q.first, Settled(q), e)
  <2>1. Settled(q) = k
    BY <1>18 DEF Settled
  <2>2. \A j \in 1..L : j < k => j < th.at \/ j \in th.at..L
    BY <1>3, <1>6
  <2>3. \A j \in 1..L : j < k => SlotOK(th.pages[j], th.slab, th.first, j, e)
    BY <1>2, <1>4, <2>2 DEF PagesOK, L
  <2> QED
    BY <1>2, <1>18, <2>1, <2>3 DEF PagesOK, L
<1>22. RunOK(q, e)
  <2>1. q.k \in Nat /\ 1 <= q.k /\ q.k < q.at
    BY <1>6, <1>18
  <2>2. q.fetch = (q.first + q.k - 1) * P
    <3>1. from = (th.first + k - 1) * P
      BY DEF from, RunFrom, k, P
    <3> QED
      BY <1>18, <3>1
  <2>3. (q.first + q.at - 1) * P = full
    <3>1. q.first + q.at - 1 = th.first + z
      BY <1>3, <1>6, <1>18
    <3> QED
      BY <3>1 DEF full
  <2>4. (q.at - q.k) * P = w
    <3>1. q.at - q.k = z + 1 - k
      <4>1. q.at = z + 1 /\ q.k = k
        BY <1>18
      <4> QED
        BY <1>6, <4>1
    <3> QED
      BY <3>1 DEF w
  <2>5. \/ x > 0 /\ x <= w /\ from + x <= MaxU64
        \/ MayFail(q.op, e)
    <3>1. CASE to <= from
      BY <1>17, <1>18, <3>1
    <3>2. CASE to > from
      <4>1. x = to - from
        BY <1>11, <1>13, <1>15, <3>2
      <4>2. w \in Nat
        <5>1. w = full - from
          BY <1>11 DEF w
        <5> QED
          BY <5>1, <1>11
      <4> QED
        BY <1>10, <1>11, <1>13, <1>14, <3>2, <4>1, <4>2
    <3> QED
      BY <1>11, <1>13, <3>1, <3>2
  <2> QED
    BY <1>16, <1>18, <2>1, <2>2, <2>3, <2>4, <2>5 DEF RunOK
<1>23. ReadOK(t, q, e)
  BY <1>18, <1>20, <1>21, <1>22 DEF ReadOK
<1>24. ThreadOK(t, q, e)
  BY <1>18, <1>23 DEF ThreadOK
<1>25. ASSUME to < from PROVE ThreadOK(t, Done(th.op, Panic), e)
  <2>1. MayFail(th.op, e)
    BY <1>11, <1>13, <1>17, <1>25
  <2>2. ~Panic.ok
    BY DEF Panic
  <2>3. ResultOK(th.op, Panic, e)
    BY <1>7, <2>1, <2>2, FailOK
  <2> QED
    BY <2>3, DoneOK
<1> QED
  BY <1>19, <1>24, <1>25 DEF from, to

\* The same of a length.
LEMMA LenGrows ==
  ASSUME NEW t, NEW o, NEW l, NEW e, NEW f, Grows(t, e, f), f.opened = e.opened, LenOK(l, o, e)
  PROVE  LenOK(l, o, f)
BY DEF LenOK, Grows

\* Every page of a read begins before the end of its range.
LEMMA SlotBegins ==
  ASSUME NEW t, NEW th, NEW e, Reading(t, th, e), NEW j \in 1..Len(th.pages)
  PROVE  (th.first + j - 1) * P \in Nat /\ (th.first + j - 1) * P < th.end
<1> DEFINE L == Len(th.pages)
           a == th.first + j - 1
           c == th.first + L - 1
<1>1. L \in Nat /\ th.first \in Nat /\ th.end \in Nat
  BY RangeFacts
<1>2. a \in Nat /\ c \in Nat /\ a <= c
  BY <1>1
<1>3. c * P < th.end
  <2>1. L > 0
    BY <1>1
  <2> QED
    BY <2>1, RangeFacts
<1> HIDE DEF a, c, L
<1>4. a * P \in Nat /\ c * P \in Nat /\ P \in Nat
  BY <1>2, TimesP
<1>5. a * P <= c * P
  <2>1. CASE a = c
    BY <1>4, <2>1
  <2>2. CASE a < c
    BY <1>2, <1>4, <2>2, TimesPGrows
  <2> QED
    BY <1>2, <2>1, <2>2
<1>6. a * P < th.end
  BY <1>1, <1>3, <1>4, <1>5
<1> QED
  BY <1>4, <1>6 DEF a

\* What Reply makes of an answer.
Replied(th, ans) ==
  IF ~ans.ok \/ Len(ans.bytes) > th.expected THEN Done(th.op, Err) ELSE [th EXCEPT !.pc = "insert", !.bytes = ans.bytes]

Learned(th, ans, l) ==
  IF ans.ok /\ Len(ans.bytes) < th.expected /\ l = UNKNOWN_LEN THEN th.fetch + Len(ans.bytes) ELSE l

\* The thread after an answer of the transport, and the length it may have learned, are in order.
LEMMA ReplyOK ==
  ASSUME transport \in Transports, NEW e, SharedOK(len, cache, e), e.reach = Reachable,
         NEW t, NEW th, ThreadOK(t, th, e), th.pc = "reply",
         NEW faulty \in BOOLEAN,
         NEW r \in Responses(Contents[th.slab], RangeOf(transport, th.fetch, th.expected), faulty),
         NEW f, Grows(t, e, f), f.opened = e.opened, f.cut = (e.cut \/ CutUnseen(r)), f.bad = (e.bad \/ faulty)
  PROVE  LET ans == AnswerTo(transport, th.slab, th.fetch, th.expected, r) IN
         /\ ThreadOK(t, Replied(th, ans), f)
         /\ LenOK(Learned(th, ans, len[th.slab]), th.slab, f)
         /\ CutUnseen(r) => faulty
<1> DEFINE o == th.slab
           a == th.fetch
           n == th.expected
           ans == AnswerTo(transport, o, a, n, r)
           m == Len(ans.bytes)
<1>1. Shape(th) /\ ReadOK(t, th, e)
  BY DEF ThreadOK
<1>2. Reading(t, th, e) /\ RunOK(th, e)
  BY <1>1 DEF ReadOK
<1>3. /\ o \in Ordinals /\ th.first \in Nat /\ Len(th.pages) \in Nat
      /\ th.at \in Nat /\ th.at <= Len(th.pages) + 1
  BY <1>2, RangeFacts
<1>4. /\ th.k \in 1..Len(th.pages) /\ n \in Nat /\ a = (th.first + th.k - 1) * P
      /\ (n > 0 /\ a + n <= MaxU64) \/ MayFail(th.op, e)
  BY <1>2, <1>3 DEF RunOK
<1>5. a \in Nat /\ a < th.end
  BY <1>2, <1>4, SlotBegins
<1>6. LenOK(len[o], o, e) /\ EnvOK(e)
  BY <1>3 DEF SharedOK
<1>7. /\ Answers(ans, o, a, n, CutUnseen(r), faulty \/ ~Reachable)
      /\ ans.ok => Reachable
      /\ CutUnseen(r) => faulty
  BY <1>3, <1>4, <1>5, TransportAnswers
<1>8. f.reach = e.reach /\ f.mode = e.mode
  BY DEF Grows
<1>9. ThreadOK(t, th, f) /\ LenOK(len[o], o, f)
  BY <1>6, ThreadGrows, LenGrows
<1>10. PICK x \in 0..MaxU64 : Asks(t, th.op, o, th.offset, x, e) /\ RangeOK(th, x, e)
  BY <1>2 DEF Reading
<1>11. /\ x \in Nat /\ th.offset \in Nat /\ th.end \in Nat /\ th.end <= th.offset + x
       /\ e.mode = "raw" \/ th.offset + x <= Size(o)
       /\ th.op[1] = "drop" => e.opened = Len(Slabs)
  BY <1>10, AsksFacts DEF RangeOK
<1>12. Size(o) \in Nat /\ Size(o) + P <= MaxU64 /\ P \in Nat /\ P > 0 /\ MaxU64 \in Nat
  BY <1>3, SizeFacts
<1>13. e.mode = "raw" \/ a < Size(o)
  BY <1>5, <1>11, <1>12
<1> HIDE DEF ans
<1>14. ASSUME ~ans.ok \/ m > n PROVE ThreadOK(t, Replied(th, ans), f)
  <2>1. Replied(th, ans) = Done(th.op, Err)
    BY <1>14 DEF Replied
  <2>2. MayFail(th.op, f)
    <3>1. CASE MayFail(th.op, e)
      BY <3>1, MayFailGrows
    <3>2. CASE n > 0 /\ a + n <= MaxU64
      <4>1. faulty \/ ~e.reach
        <5>1. ~(a + n > MaxU64) /\ n # 0
          BY <1>4, <1>5, <1>12, <3>2
        <5> QED
          BY <1>7, <1>14, <5>1 DEF Answers
      <4>2. ASSUME th.op[1] = "drop" PROVE f.bad
        <5>1. e.opened > 0
          BY <1>11, <4>2, PagedAssumption
        <5>2. e.reach
          BY <1>6, <5>1 DEF EnvOK
        <5> QED
          BY <4>1, <5>2
      <4> QED
        BY <1>8, <4>1, <4>2 DEF MayFail
    <3> QED
      BY <1>4, <3>1, <3>2
  <2>3. Asks(t, th.op, o, th.offset, x, f)
    BY <1>10, AsksGrows
  <2>4. ~Err.ok
    BY DEF Err
  <2>5. ResultOK(th.op, Err, f)
    BY <2>2, <2>3, <2>4, FailOK
  <2> QED
    BY <2>1, <2>5, DoneOK
<1>15. ASSUME ans.ok, ~(m > n) PROVE m \in Nat /\ Piece(ans.bytes, o, a, n, f.cut) /\ f.reach
  <2>1. Piece(ans.bytes, o, a, n, CutUnseen(r))
    BY <1>7, <1>15 DEF Answers
  <2>2. m \in Nat
    BY <2>1 DEF Piece
  <2>3. CutUnseen(r) => f.cut
    OBVIOUS
  <2> QED
    BY <1>7, <1>8, <1>15, <2>1, <2>2, <2>3, PieceGrows
<1>16. ASSUME ans.ok, ~(m > n) PROVE ThreadOK(t, Replied(th, ans), f)
  <2> DEFINE q == [th EXCEPT !.pc = "insert", !.bytes = ans.bytes]
  <2>1. Replied(th, ans) = q
    BY <1>16 DEF Replied
  <2>2. /\ Shape(q) /\ q.pc = "insert" /\ q.op = th.op /\ q.slab = th.slab /\ q.offset = th.offset
        /\ q.end = th.end /\ q.first = th.first /\ q.pages = th.pages /\ q.at = th.at
        /\ q.k = th.k /\ q.fetch = th.fetch /\ q.expected = th.expected /\ q.bytes = ans.bytes
    BY <1>1 DEF Shape
  <2> HIDE DEF q
  <2>3. /\ Reading(t, th, f) /\ RunOK(th, f)
        /\ PagesOK(th.pages, th.slab, th.first, Settled(th), f)
    BY <1>9 DEF ThreadOK, ReadOK
  <2>4. Reading(t, q, f)
    <3>1. /\ q.pages \in Seq(Seq(Byte)) /\ Len(q.pages) = Len(th.pages)
          /\ q.at \in Nat /\ 1 <= q.at /\ q.at <= Len(th.pages) + 1
      BY <2>2, <2>3, RangeFacts
    <3> QED
      BY <2>2, <2>3, <3>1, SameRange
  <2>5. Settled(q) = Settled(th)
    BY <2>2 DEF Settled
  <2>6. RunOK(q, f)
    BY <2>2, <2>3 DEF RunOK
  <2>7. Piece(q.bytes, q.slab, q.fetch, q.expected, f.cut) /\ f.reach
    BY <1>15, <1>16, <2>2
  <2>8. ReadOK(t, q, f)
    BY <2>2, <2>3, <2>4, <2>5, <2>6, <2>7 DEF ReadOK
  <2> QED
    BY <2>1, <2>2, <2>8 DEF ThreadOK
<1>17. LenOK(Learned(th, ans, len[o]), o, f)
  <2>1. CASE ~(ans.ok /\ m < n /\ len[o] = UNKNOWN_LEN)
    <3>1. Learned(th, ans, len[o]) = len[o]
      BY <2>1 DEF Learned
    <3> QED
      BY <1>9, <3>1
  <2>2. CASE ans.ok /\ m < n /\ len[o] = UNKNOWN_LEN
    <3> DEFINE l == a + m
    <3>1. Learned(th, ans, len[o]) = l
      BY <2>2 DEF Learned
    <3>2. m \in Nat /\ Piece(ans.bytes, o, a, n, f.cut)
      <4>1. ~(m > n)
        <5>1. ASSUME m > n PROVE FALSE
          BY <2>2, <5>1, <1>4
        <5> QED
          BY <5>1
      <4> QED
        BY <1>15, <2>2, <4>1
    <3>3. /\ m <= Extent(o, a, n) /\ (~f.cut => m = Extent(o, a, n)) /\ Extent(o, a, n) \in Nat
          /\ (a < Size(o) => a + Extent(o, a, n) <= Size(o))
          /\ (a >= Size(o) => Extent(o, a, n) = 0)
          /\ (Extent(o, a, n) < n => a + Extent(o, a, n) >= Size(o))
      <4> HIDE DEF a, n, m
      <4>1. m <= Extent(o, a, n) /\ (~f.cut => m = Extent(o, a, n))
        BY <3>2 DEF Piece, m
      <4>2. o \in Ordinals /\ a \in Nat /\ n \in Nat
        BY <1>3, <1>4, <1>5
      <4> HIDE DEF o
      <4>3. /\ Extent(o, a, n) \in Nat
            /\ (a < Size(o) => a + Extent(o, a, n) <= Size(o))
            /\ (a >= Size(o) => Extent(o, a, n) = 0)
            /\ (Extent(o, a, n) < n => a + Extent(o, a, n) >= Size(o))
        BY <4>2, ExtentFacts
      <4> QED
        BY <4>1, <4>3
    <3>4. l \in Nat /\ (l = Size(o) \/ (f.cut /\ l < Size(o)) \/ (e.mode = "raw" /\ l > Size(o)))
      <4> DEFINE x1 == Extent(o, a, n)
      <4> HIDE DEF m, x1
      <4>1. /\ m <= x1 /\ (~f.cut => m = x1) /\ x1 \in Nat /\ m \in Nat /\ m < n
            /\ (a < Size(o) => a + x1 <= Size(o)) /\ (a >= Size(o) => x1 = 0)
            /\ (x1 < n => a + x1 >= Size(o))
        BY <2>2, <3>2, <3>3 DEF x1, m
      <4> QED
        BY SMTT(30), <1>4, <1>5, <1>12, <1>13, <4>1
    <3>5. ~(o <= f.opened)
      <4>1. UNKNOWN_LEN # Size(o)
        BY <1>12 DEF UNKNOWN_LEN
      <4> QED
        BY <1>9, <2>2, <4>1 DEF LenOK
    <3> HIDE DEF l
    <3> QED
      BY <1>8, <3>1, <3>4, <3>5 DEF LenOK
  <2> QED
    BY <2>1, <2>2
<1> QED
  BY <1>7, <1>14, <1>16, <1>17 DEF ans

\* What InsertPages makes of an answer.
Room(th) == Len(th.pages) - th.k + 1

Stored(th) ==
  LET pages == Chunks(th.bytes) IN
  IF Len(pages) > Room(th) THEN Done(th.op, Panic)
  ELSE [th EXCEPT !.pc = "request", !.at = th.at, !.k = 0, !.fetch = 0, !.expected = 0, !.bytes = <<>>,
          !.pages = [j \in DOMAIN th.pages |->
              IF j \in th.k..(th.k + Len(pages) - 1) THEN pages[j - th.k + 1] ELSE th.pages[j]]]

\* The pages of an answer leave the cache and the thread in order, also when the answer is longer than the read.
LEMMA StoreOK ==
  ASSUME NEW e, EnvOK(e), NEW t, NEW th, ThreadOK(t, th, e), th.pc = "insert", NEW c, CacheOK(c, th.slab, e)
  PROVE  /\ CacheOK(InsertAll(c, th.first + th.k - 1, Chunks(th.bytes), Least(Len(Chunks(th.bytes)), Room(th) + 1)),
                    th.slab, e)
         /\ ThreadOK(t, Stored(th), e)
<1> DEFINE L == Len(th.pages)
           o == th.slab
           i == th.first + th.k - 1
           z == th.first + th.at - 1
           n == th.expected
           pages == Chunks(th.bytes)
           np == Len(pages)
           room == Room(th)
           f == th.first
           k == th.k
           at == th.at
<1>1. Shape(th) /\ ReadOK(t, th, e)
  BY DEF ThreadOK
<1>2. /\ Reading(t, th, e) /\ RunOK(th, e) /\ PagesOK(th.pages, o, f, k, e)
      /\ Piece(th.bytes, o, th.fetch, n, e.cut) /\ e.reach
  BY <1>1 DEF ReadOK, Settled
<1>3. /\ o \in Ordinals /\ f \in Nat /\ th.pages \in Seq(Seq(Byte)) /\ L \in Nat
      /\ at \in Nat /\ 1 <= at /\ at <= L + 1
  BY <1>2, RangeFacts
<1>4. k \in Nat /\ 1 <= k /\ k < at /\ n \in Nat
  BY <1>2 DEF RunOK
<1>a. /\ th.fetch = i * P
      /\ i * P + n = z * P \/ i * P + n >= Size(o) \/ e.cut
      /\ n <= (at - k) * P \/ MayFail(th.op, e)
  BY <1>2 DEF RunOK
<1>5. i \in Nat /\ z \in Nat /\ room \in Nat /\ room = L - k + 1 /\ at - k \in Nat /\ at - k <= room
  <2>1. f \in Nat /\ L \in Nat /\ at \in Nat /\ 1 <= at /\ at <= L + 1 /\ room = L - k + 1
    BY <1>3 DEF Room
  <2> HIDE DEF L, f, at, k, room
  <2>2. i = f + k - 1 /\ z = f + at - 1
    BY DEF f, k, at
  <2> HIDE DEF i, z
  <2> QED
    BY <1>4, <2>1, <2>2
<1>6. e.cut \in BOOLEAN
  BY DEF EnvOK
<1> HIDE DEF i, z, room, pages, o, n
<1>7. /\ pages \in Seq(Seq(Byte)) /\ np \in Nat
      /\ \A j \in 1..np : pages[j] \in Seq(Byte) /\ Piece(pages[j], o, (i + j - 1) * P, P, e.cut)
      /\ \A x \in Nat : i + np <= x /\ x < z => Piece(<<>>, o, x * P, P, e.cut)
      /\ \A x \in Nat : np > x => n > x * P
  <2>1. Piece(th.bytes, o, i * P, n, e.cut)
    BY <1>2, <1>a
  <2>2. o \in Ordinals /\ i \in Nat /\ z \in Nat /\ n \in Nat
    BY <1>3, <1>4, <1>5
  <2>3. i * P + n = z * P \/ i * P + n >= Size(o) \/ e.cut
    BY <1>a
  <2>4. IsRun(pages, o, i, z, n, e.cut)
    BY <1>6, <2>1, <2>2, <2>3, ChunkFacts DEF pages
  <2> QED
    BY <2>4 DEF IsRun
<1> HIDE DEF L, f, k, at
<1>8. CacheOK(InsertAll(c, i, pages, Least(np, room + 1)), o, e)
  <2> DEFINE g == Least(np, room + 1)
  <2>1. g \in Nat /\ g <= np
    BY <1>5, <1>7 DEF Least
  <2> HIDE DEF g
  <2>2. \A j \in 1..g : pages[j] \in Seq(Byte) /\ Piece(pages[j], o, (i + j - 1) * P, P, e.cut)
    <3>1. \A j \in 1..g : j \in 1..np
      BY <1>7, <2>1
    <3> QED
      BY <1>7, <3>1
  <2>3. CacheOK(c, o, e)
    BY DEF o
  <2>4. CacheOK(InsertAll(c, i, pages, g), o, e)
    BY <1>2, <1>3, <1>5, <2>1, <2>2, <2>3, InsertAllKeeps
  <2> QED
    BY <2>4 DEF g
<1>9. ASSUME np > room PROVE ThreadOK(t, Stored(th), e)
  <2>1. Stored(th) = Done(th.op, Panic)
    BY <1>9 DEF Stored, room, pages
  <2>2. MayFail(th.op, e)
    <3> DEFINE d == at - k
    <3>1. n > room * P
      BY <1>5, <1>7, <1>9
    <3> HIDE DEF d
    <3>2. d \in Nat /\ d <= room /\ (n <= d * P \/ MayFail(th.op, e))
      BY <1>a, <1>5 DEF d
    <3>3. d * P <= room * P /\ d * P \in Nat /\ room * P \in Nat
      <4>1. d * P \in Nat /\ room * P \in Nat /\ P \in Nat
        BY <1>5, <3>2, TimesP
      <4>2. CASE d = room
        BY <4>1, <4>2
      <4>3. CASE d < room
        BY <1>5, <3>2, <4>1, <4>3, TimesPGrows
      <4> QED
        BY <1>5, <3>2, <4>1, <4>2, <4>3
    <3> QED
      BY <1>4, <3>1, <3>2, <3>3
  <2>3. PICK x \in 0..MaxU64 : Asks(t, th.op, th.slab, th.offset, x, e)
    BY <1>2 DEF Reading
  <2>4. ~Panic.ok
    BY DEF Panic
  <2>5. ResultOK(th.op, Panic, e)
    BY <2>2, <2>3, <2>4, FailOK
  <2> QED
    BY <2>1, <2>5, DoneOK
<1>10. ASSUME ~(np > room) PROVE ThreadOK(t, Stored(th), e)
  <2> DEFINE new == [j \in DOMAIN th.pages |-> IF j \in k..(k + np - 1) THEN pages[j - k + 1] ELSE th.pages[j]]
             q == [th EXCEPT !.pc = "request", !.at = th.at, !.k = 0, !.fetch = 0, !.expected = 0, !.bytes = <<>>,
                     !.pages = new]
  <2>1. Stored(th) = q
    BY <1>10 DEF Stored, room, pages, k
  <2>2. DOMAIN th.pages = 1..L
    BY <1>3 DEF L
  <2>3. ASSUME NEW j \in 1..L
        PROVE  /\ new[j] \in Seq(Byte)
               /\ new[j] = Missing \/ SlotOK(new[j], o, f, j, e)
               /\ j < at => SlotOK(new[j], o, f, j, e)
    <3> DEFINE x == f + j - 1
    <3>1. x \in Nat
      BY <1>3
    <3>2. \A s : SlotOK(s, o, f, j, e) <=> Piece(s, o, x * P, P, e.cut)
      BY DEF SlotOK
    <3> HIDE DEF x
    <3>3. CASE j \in k..(k + np - 1)
      <4> DEFINE y == j - k + 1
      <4>1. y \in 1..np /\ i + y - 1 = x
        <5>1. i = f + k - 1 /\ x = f + j - 1
          BY DEF i, x, f, k
        <5>2. f \in Nat /\ k \in Nat /\ np \in Nat /\ j \in Nat
          BY <1>3, <1>4, <1>7
        <5> QED
          BY <3>3, <5>1, <5>2
      <4>2. new[j] = pages[y]
        BY <2>2, <3>3
      <4> HIDE DEF y, new
      <4>3. pages[y] \in Seq(Byte) /\ Piece(pages[y], o, (i + y - 1) * P, P, e.cut)
        BY <1>7, <4>1
      <4> QED
        BY <3>2, <4>1, <4>2, <4>3
    <3>4. CASE j \notin k..(k + np - 1)
      <4>1. new[j] = th.pages[j]
        BY <2>2, <3>4
      <4> HIDE DEF new
      <4>2. th.pages[j] \in Seq(Byte)
        BY <1>3 DEF L
      <4>3. /\ th.pages[j] = Missing \/ SlotOK(th.pages[j], o, f, j, e)
            /\ j < k => SlotOK(th.pages[j], o, f, j, e)
        BY <1>2 DEF PagesOK, L
      <4>4. ASSUME j < at, ~(j < k), th.pages[j] = Missing PROVE Piece(<<>>, o, x * P, P, e.cut)
        <5>1. i + np <= x /\ x < z
          <6>1. j >= k + np
            BY <1>4, <1>7, <3>4, <4>4
          <6>2. i = f + k - 1 /\ x = f + j - 1 /\ z = f + at - 1
            BY DEF i, x, z, f, k, at
          <6> QED
            BY <1>3, <1>4, <1>7, <4>4, <6>1, <6>2
        <5> QED
          BY <1>7, <3>1, <5>1
      <4>5. j < at => SlotOK(th.pages[j], o, f, j, e)
        BY <3>2, <4>3, <4>4 DEF Missing
      <4> QED
        BY <4>1, <4>2, <4>3, <4>5
    <3> QED
      BY <3>3, <3>4
  <2>4. new \in Seq(Seq(Byte)) /\ Len(new) = L
    <3>1. new \in [1..L -> Seq(Byte)]
      BY <2>2, <2>3
    <3> HIDE DEF new
    <3> QED
      BY <1>3, <3>1
  <2> HIDE DEF new
  <2>5. /\ Shape(q) /\ q.pc = "request" /\ q.op = th.op /\ q.slab = th.slab /\ q.offset = th.offset
        /\ q.end = th.end /\ q.first = th.first /\ q.pages = new /\ q.at = th.at
    BY <1>1 DEF Shape
  <2> HIDE DEF q
  <2>6. Reading(t, q, e)
    <3>1. /\ q.pages \in Seq(Seq(Byte)) /\ Len(q.pages) = Len(th.pages)
          /\ q.at \in Nat /\ 1 <= q.at /\ q.at <= Len(th.pages) + 1
      BY <1>3, <2>4, <2>5 DEF L, at
    <3> QED
      BY <1>2, <2>5, <3>1, SameRange
  <2>7. PagesOK(q.pages, q.slab, q.first, Settled(q), e)
    <3>1. Settled(q) = at /\ q.pages = new /\ q.slab = o /\ q.first = f
      BY <2>5 DEF Settled, at, o, f
    <3> QED
      BY <1>2, <2>3, <2>4, <3>1 DEF PagesOK
  <2>8. ReadOK(t, q, e)
    BY <2>5, <2>6, <2>7 DEF ReadOK
  <2> QED
    BY <2>1, <2>5, <2>8 DEF ThreadOK
<1> QED
  BY <1>8, <1>9, <1>10 DEF i, pages, room, o

\* The bytes up to Reached are in the pages, and without a cut Reached is the end of the range or of the object.
LEMMA ReachedFacts ==
  ASSUME NEW t, NEW th, NEW e, Reading(t, th, e), Len(th.pages) > 0,
         \A j \in 1..Len(th.pages) : SlotOK(th.pages[j], th.slab, th.first, j, e)
  PROVE  /\ Reached(th) \in Nat /\ Reached(th) <= th.end
         /\ \A p \in Nat : th.offset <= p /\ p < Reached(th) =>
              \E k \in 1..Len(th.pages) : p \div P = th.first + k - 1 /\ p - (p \div P) * P < Len(th.pages[k])
         /\ ~e.cut => Reached(th) >= Size(th.slab) \/ Reached(th) = th.end
<1> DEFINE L == Len(th.pages)
           o == th.slab
           f == th.first
           E == th.end
           S(k) == (f + k - 1) * PAGED_PAGE_SIZE
           W(k) == Len(th.pages[k])
           short == {k \in 1..L : W(k) < Least(E, S(k + 1)) - S(k)}
           k0 == CHOOSE k \in short : \A j \in short : k <= j
           R == Reached(th)
<1>1. /\ o \in Ordinals /\ f \in Nat /\ L \in Nat /\ E \in Nat /\ th.offset \in Nat
  BY RangeFacts
<1>2. f * P <= th.offset /\ E <= (f + L) * P
  BY RangeFacts
<1>3. Size(o) \in Nat /\ P \in Nat /\ P > 0
  BY <1>1, SizeFacts
<1>4. R = IF short = {} THEN E ELSE S(k0) + W(k0)
  BY DEF Reached
<1>5. short \subseteq 1..L /\ \A k \in 1..L : k \in short <=> W(k) < Least(E, S(k + 1)) - S(k)
  OBVIOUS
<1>6. ASSUME short # {} PROVE k0 \in short /\ \A j \in short : k0 <= j
  <2>1. short \subseteq Nat
    BY <1>1, <1>5
  <2> HIDE DEF short
  <2>2. \E k \in short : \A j \in short : k <= j
    BY <1>6, <2>1, LeastNatural
  <2> QED
    BY <2>2
<1> HIDE DEF short, k0, R, L, f, E
<1>7. ASSUME NEW k \in 1..L
      PROVE  /\ S(k) \in Nat /\ S(k + 1) = S(k) + P /\ W(k) \in Nat /\ S(k) < E
             /\ ~e.cut /\ W(k) < P => S(k) + W(k) >= Size(o)
  <2> DEFINE x == f + k - 1
  <2>1. x \in Nat /\ x + 1 = f + (k + 1) - 1
    BY <1>1
  <2>2. S(k) = x * P /\ S(k + 1) = (x + 1) * P
    BY <2>1 DEF P
  <2>3. Piece(th.pages[k], o, x * P, P, e.cut)
    BY DEF SlotOK, L, f
  <2>6. x * P < E
    BY SlotBegins DEF L, f, E
  <2> HIDE DEF x
  <2>4. x * P \in Nat /\ (x + 1) * P = x * P + P
    BY <2>1, TimesP
  <2>5. W(k) \in Nat /\ (~e.cut => W(k) = Extent(o, x * P, P))
    BY <2>3 DEF Piece
  <2>7. ASSUME ~e.cut, W(k) < P PROVE x * P + W(k) >= Size(o)
    <3> DEFINE y == x * P
    <3>1. y \in Nat /\ W(k) = Extent(o, y, P)
      BY <2>4, <2>5, <2>7
    <3> HIDE DEF y
    <3>2. y + Extent(o, y, P) >= Size(o)
      BY <1>1, <1>3, <2>7, <3>1, ExtentFacts
    <3> QED
      BY <3>1, <3>2 DEF y
  <2> HIDE DEF S, W
  <2> QED
    BY <2>2, <2>4, <2>5, <2>6, <2>7
\* The number of a page of the range.
<1>8. ASSUME NEW p \in Nat, th.offset <= p, p < E
      PROVE  \E k \in 1..L : p \div P = f + k - 1 /\ S(k) <= p /\ p < S(k) + P /\ p - (p \div P) * P = p - S(k)
  <2> DEFINE i == p \div P
             k == i - f + 1
  <2>1. i \in Nat /\ i * P <= p /\ p < i * P + P
    BY DivP
  <2> HIDE DEF i
  <2>2. i * P \in Nat /\ f * P \in Nat /\ (f + L) * P \in Nat /\ f + L \in Nat
    <3> DEFINE g == f + L
    <3>1. f \in Nat /\ g \in Nat
      BY <1>1
    <3> HIDE DEF g
    <3>2. g * P \in Nat /\ f * P \in Nat /\ i * P \in Nat
      BY <2>1, <3>1, TimesP
    <3> QED
      BY <3>1, <3>2 DEF g
  <2>3. ~(i < f)
    <3>1. ASSUME i < f PROVE FALSE
      <4>1. i * P + P <= f * P
        BY <1>1, <2>1, <3>1, TimesPGrows
      <4> QED
        BY <1>1, <1>2, <1>3, <1>8, <2>1, <2>2, <4>1
    <3> QED
      BY <3>1
  <2>4. i < f + L
    <3>1. ASSUME ~(i < f + L) PROVE FALSE
      <4> DEFINE g == f + L
      <4>1. g \in Nat /\ g <= i /\ g * P \in Nat /\ E <= g * P
        BY <1>1, <1>2, <2>1, <2>2, <3>1
      <4> HIDE DEF g
      <4>2. g * P <= i * P
        <5>1. CASE g = i
          BY <2>2, <5>1
        <5>2. CASE g < i
          <6>1. g * P + P <= i * P
            BY <2>1, <4>1, <5>2, TimesPGrows
          <6> QED
            BY <1>3, <2>2, <4>1, <6>1
        <5> QED
          BY <2>1, <4>1, <5>1, <5>2
      <4> QED
        BY <1>1, <1>8, <2>1, <2>2, <4>1, <4>2
    <3> QED
      BY <3>1
  <2>5. k \in 1..L /\ f + k - 1 = i
    BY <1>1, <2>1, <2>3, <2>4
  <2> HIDE DEF k
  <2>6. S(k) = i * P
    BY <2>5 DEF P
  <2> HIDE DEF S
  <2> QED
    BY <2>1, <2>5, <2>6 DEF i
<1>9. CASE short = {}
  <2>1. R = E
    BY <1>4, <1>9
  <2>2. ASSUME NEW p \in Nat, th.offset <= p, p < R
        PROVE  \E k \in 1..L : p \div P = f + k - 1 /\ p - (p \div P) * P < W(k)
    <3>1. PICK k \in 1..L : p \div P = f + k - 1 /\ S(k) <= p /\ p < S(k) + P /\ p - (p \div P) * P = p - S(k)
      BY <1>8, <2>1, <2>2
    <3>2. S(k) \in Nat /\ S(k + 1) = S(k) + P /\ W(k) \in Nat
      BY <1>7
    <3>3. ~(W(k) < Least(E, S(k + 1)) - S(k))
      BY <1>5, <1>9
    <3> HIDE DEF S, W
    <3>4. Least(E, S(k + 1)) = IF E < S(k) + P THEN E ELSE S(k) + P
      BY <3>2 DEF Least
    <3>5. p - S(k) < W(k)
      BY <1>1, <1>3, <2>1, <2>2, <3>1, <3>2, <3>3, <3>4
    <3> QED
      BY <3>1, <3>5
  <2> QED
    BY <1>1, <2>1, <2>2 DEF R, L, f, E
<1>10. CASE short # {}
  <2>1. k0 \in 1..L /\ R = S(k0) + W(k0) /\ W(k0) < Least(E, S(k0 + 1)) - S(k0) /\ \A j \in short : k0 <= j
    BY <1>4, <1>5, <1>6, <1>10
  <2>2. /\ S(k0) \in Nat /\ S(k0 + 1) = S(k0) + P /\ W(k0) \in Nat
        /\ ~e.cut /\ W(k0) < P => S(k0) + W(k0) >= Size(o)
    BY <1>7, <2>1
  <2>3. Least(E, S(k0 + 1)) = IF E < S(k0) + P THEN E ELSE S(k0) + P
    BY <2>2 DEF Least
  <2> HIDE DEF S, W
  <2>4. R \in Nat /\ R < E /\ R < S(k0) + P /\ W(k0) < P
    BY <1>1, <1>3, <2>1, <2>2, <2>3
  <2>5. ASSUME NEW p \in Nat, th.offset <= p, p < R
        PROVE  \E k \in 1..L : p \div P = f + k - 1 /\ p - (p \div P) * P < W(k)
    <3>1. PICK k \in 1..L : p \div P = f + k - 1 /\ S(k) <= p /\ p < S(k) + P /\ p - (p \div P) * P = p - S(k)
      <4>1. p < E
        BY <1>1, <2>4, <2>5
      <4> QED
        BY <1>8, <2>5, <4>1
    <3>2. S(k) \in Nat /\ S(k + 1) = S(k) + P /\ W(k) \in Nat
      BY <1>7
    <3>3. k <= k0
      <4>1. ASSUME k0 < k PROVE FALSE
        <5> DEFINE x == f + k0 - 1
                   y == f + k - 1
        <5>1. x \in Nat /\ y \in Nat /\ x < y
          BY <1>1, <2>1, <4>1
        <5>2. S(k0) = x * P /\ S(k) = y * P
          BY DEF S, P
        <5> HIDE DEF x, y
        <5>3. x * P + P <= y * P
          BY <5>1, TimesPGrows
        <5>4. S(k0) + P <= S(k)
          BY <5>2, <5>3
        <5> QED
          BY <1>3, <2>2, <2>4, <2>5, <3>1, <3>2, <5>4
      <4> QED
        BY <1>1, <2>1, <4>1
    <3>4. CASE k = k0
      BY <2>1, <2>2, <2>5, <3>1, <3>4
    <3>5. CASE k < k0
      <4>1. k \notin short
        BY <1>1, <2>1, <3>5
      <4>2. ~(W(k) < Least(E, S(k + 1)) - S(k))
        BY <1>5, <4>1 DEF S, W
      <4>3. Least(E, S(k + 1)) = IF E < S(k) + P THEN E ELSE S(k) + P
        BY <3>2 DEF Least
      <4>4. p - S(k) < W(k)
        BY <1>1, <1>3, <2>4, <2>5, <3>1, <3>2, <4>2, <4>3
      <4> QED
        BY <3>1, <4>4
    <3> QED
      BY <1>1, <2>1, <3>3, <3>4, <3>5
  <2>6. ~e.cut => R >= Size(o)
    BY <2>1, <2>2, <2>4
  <2>7. R <= E
    BY <1>1, <2>4
  <2> QED
    BY <2>4, <2>5, <2>6, <2>7 DEF R, L, f, E, W
<1> QED
  BY <1>9, <1>10

\* What a read assembles is what the object has of the range it was asked for.
LEMMA AssembledOK ==
  ASSUME NEW t, NEW th, NEW e, Reading(t, th, e), NEW n \in Nat, RangeOK(th, n, e),
         \A j \in 1..Len(th.pages) : SlotOK(th.pages[j], th.slab, th.first, j, e)
  PROVE  /\ Piece(Assembled(th), th.slab, th.offset, n, e.cut)
         /\ Len(Assembled(th)) > 0 => \E j \in 1..Len(th.pages) : th.pages[j] # Missing
<1> DEFINE L == Len(th.pages)
           o == th.slab
           a == th.offset
           R == Reached(th)
           m == IF R > a THEN R - a ELSE 0
           out == Assembled(th)
           B == Bytes(o, a, m)
<1>1. /\ o \in Ordinals /\ th.first \in Nat /\ L \in Nat /\ th.end \in Nat /\ a \in Nat
  BY RangeFacts
<1>2. Size(o) \in Nat /\ P \in Nat /\ P > 0
  BY <1>1, SizeFacts
<1>3. /\ a <= th.end /\ th.end <= a + n /\ (th.end = a + n \/ Size(o) <= th.end \/ e.cut)
      /\ th.pages \in Seq(Seq(Byte)) /\ (th.pages = <<>> => th.end = a)
  BY DEF RangeOK
<1>4. out = [i \in 1..(R - a) |->
               LET p == a + i - 1
                   index == p \div PAGED_PAGE_SIZE
               IN th.pages[index - th.first + 1][p - index * PAGED_PAGE_SIZE + 1]]
  BY DEF Assembled
<1>5. /\ R \in Nat /\ R <= th.end /\ (~e.cut => R >= Size(o) \/ R = a + n)
      /\ \A p \in Nat : a <= p /\ p < R =>
           \E k \in 1..L : p \div P = th.first + k - 1 /\ p - (p \div P) * P < Len(th.pages[k])
  <2>1. CASE L > 0
    <3>1. /\ R \in Nat /\ R <= th.end
          /\ \A p \in Nat : a <= p /\ p < R =>
               \E k \in 1..L : p \div P = th.first + k - 1 /\ p - (p \div P) * P < Len(th.pages[k])
          /\ ~e.cut => R >= Size(o) \/ R = th.end
      BY <2>1, ReachedFacts
    <3> HIDE DEF R
    <3>2. ~e.cut => R >= Size(o) \/ R = a + n
      BY <1>1, <1>2, <1>3, <3>1
    <3> QED
      BY <3>1, <3>2
  <2>2. CASE L = 0
    <3>1. 1..L = {} /\ th.pages = <<>>
      BY <1>3, <2>2
    <3>2. R = th.end /\ th.end = a
      BY <1>3, <3>1 DEF Reached
    <3> HIDE DEF R
    <3>3. \A p \in Nat : ~(a <= p /\ p < R)
      BY <1>1, <3>2
    <3> QED
      BY <1>1, <1>2, <1>3, <3>2, <3>3
  <2> QED
    BY <1>1, <2>1, <2>2
<1> HIDE DEF R, out
\* Every byte of it.
<1>6. ASSUME NEW i \in 1..(R - a)
      PROVE  /\ out[i] = Contents[o][a + i] /\ a + i <= Size(o)
             /\ \E j \in 1..L : th.pages[j] # Missing
  <2> DEFINE p == a + i - 1
             index == p \div P
  <2>1. p \in Nat /\ a <= p /\ p < R /\ p + 1 = a + i
    BY <1>1, <1>5
  <2>2. out[i] = th.pages[index - th.first + 1][p - index * P + 1]
    BY <1>4 DEF P
  <2>4. index \in Nat /\ index * P <= p
    BY <2>1, DivP
  <2> HIDE DEF p
  <2>3. PICK k \in 1..L : index = th.first + k - 1 /\ p - index * P < Len(th.pages[k])
    BY <1>5, <2>1
  <2> HIDE DEF index
  <2> DEFINE y == index * P
             w == p - y + 1
             pg == th.pages[k]
  <2>5. y \in Nat
    BY <2>4, TimesP
  <2>6. Piece(pg, o, y, P, e.cut)
    BY <2>3 DEF SlotOK
  <2>7. index - th.first + 1 = k
    BY <1>1, <2>3, <2>4
  <2> HIDE DEF y, pg
  <2>8. pg \in Seq(Byte) /\ Len(pg) \in Nat /\ (Len(pg) = 0 \/ y + Len(pg) <= Size(o))
        /\ \A x \in 1..Len(pg) : pg[x] = Contents[o][y + x]
    BY <1>1, <1>2, <2>5, <2>6, PieceFacts
  <2>9. w \in 1..Len(pg) /\ y + w = a + i /\ Len(pg) > 0
    <3>1. p - y < Len(pg) /\ y <= p
      BY <2>3, <2>4 DEF y, pg
    <3> QED
      BY <1>1, <2>1, <2>5, <2>8, <3>1
  <2>10. out[i] = pg[w]
    BY <2>2, <2>7 DEF y, pg
  <2>11. a + i <= Size(o)
    BY <1>1, <1>2, <2>5, <2>8, <2>9
  <2>12. pg # Missing
    BY <2>8, <2>9 DEF Missing
  <2>13. out[i] = Contents[o][a + i]
    BY <2>8, <2>9, <2>10
  <2> QED
    BY <2>11, <2>12, <2>13 DEF pg
<1>7. m \in Nat /\ 1..(R - a) = 1..m
  BY <1>1, <1>5
<1>8. m > 0 => a + m = R /\ R <= Size(o)
  <2>1. ASSUME m > 0 PROVE a + m = R /\ R <= Size(o)
    <3>1. a + m = R /\ m \in 1..(R - a)
      BY <1>1, <1>5, <1>7, <2>1
    <3> HIDE DEF m
    <3>2. a + m <= Size(o)
      BY <1>6, <3>1
    <3> QED
      BY <3>1, <3>2
  <2> QED
    BY <2>1
<1>9. m <= Extent(o, a, n) /\ (~e.cut => m = Extent(o, a, n))
  <2>1. (m > 0 => a + m = R) /\ (m = 0 => R <= a)
    BY <1>1, <1>5
  <2> HIDE DEF m, a, o
  <2>2. Extent(o, a, n) = IF a >= Size(o) THEN 0 ELSE IF n < Size(o) - a THEN n ELSE Size(o) - a
    BY DEF Extent, Least
  <2> QED
    BY <1>1, <1>2, <1>3, <1>5, <1>7, <1>8, <2>1, <2>2
<1>10. out = B
  <2>1. out = [i \in 1..m |-> out[i]]
    BY <1>4, <1>7
  <2>2. \A i \in 1..m : out[i] = Contents[o][a + i]
    BY <1>6, <1>7
  <2>3. B = [i \in 1..m |-> Contents[o][a + i]]
    BY DEF Bytes
  <2> HIDE DEF m, B
  <2> QED
    BY <2>1, <2>2, <2>3
<1> HIDE DEF m
<1>11. Piece(B, o, a, n, e.cut) /\ Len(B) = m
  BY <1>1, <1>7, <1>9, PieceOf
<1>12. ASSUME Len(out) > 0 PROVE \E j \in 1..L : th.pages[j] # Missing
  <2>1. m \in 1..(R - a)
    <3>1. Len(out) = m
      BY <1>10, <1>11
    <3>2. m \in 1..m
      BY <1>7, <1>12, <3>1
    <3> QED
      BY <1>7, <3>2
  <2> QED
    BY <1>6, <2>1
<1> QED
  BY <1>10, <1>11, <1>12 DEF out

\* The range of a finished read, and what it has of it.
LEMMA FinishedFacts ==
  ASSUME NEW t, NEW th, NEW e, EnvOK(e), ThreadOK(t, th, e), th.pc = "assemble"
  PROVE  \E n \in Nat :
           /\ Asks(t, th.op, th.slab, th.offset, n, e)
           /\ Piece(Assembled(th), th.slab, th.offset, n, e.cut)
           /\ Len(Assembled(th)) \in Nat
           /\ Len(Assembled(th)) > 0 => e.reach
           /\ e.mode = "set" /\ Len(Assembled(th)) # n => e.bad
<1> DEFINE out == Assembled(th)
           o == th.slab
           a == th.offset
<1>1. ReadOK(t, th, e)
  BY DEF ThreadOK
<1>2. Reading(t, th, e) /\ PagesOK(th.pages, o, th.first, Len(th.pages) + 1, e)
  BY <1>1 DEF ReadOK, Settled
<1>3. PICK n \in 0..MaxU64 : Asks(t, th.op, o, a, n, e) /\ RangeOK(th, n, e)
  BY <1>2 DEF Reading
<1>4. /\ n \in Nat /\ o \in Ordinals /\ a \in Nat /\ (e.mode = "raw" \/ a + n <= Size(o))
  BY <1>3, AsksFacts
<1>5. \A j \in 1..Len(th.pages) : SlotOK(th.pages[j], o, th.first, j, e)
  <2>1. Len(th.pages) \in Nat
    BY <1>2, RangeFacts
  <2>2. \A j \in 1..Len(th.pages) : j < Len(th.pages) + 1
    BY <2>1
  <2> QED
    BY <1>2, <2>2 DEF PagesOK
<1>6. Piece(out, o, a, n, e.cut) /\ (Len(out) > 0 => \E j \in 1..Len(th.pages) : th.pages[j] # Missing)
  BY <1>2, <1>3, <1>4, <1>5, AssembledOK
<1> HIDE DEF out
<1>7. Len(out) > 0 => e.reach
  BY <1>2, <1>6 DEF PagesOK
<1>8. Len(out) \in Nat /\ (~e.cut => Len(out) = Extent(o, a, n))
  BY <1>6 DEF Piece
<1>9. ASSUME e.mode = "set", Len(out) # n PROVE e.bad
  <2>1. a + n <= Size(o)
    BY <1>4, <1>9
  <2>2. Extent(o, a, n) = n
    BY <1>4, <2>1, ExtentFacts
  <2> QED
    BY <1>8, <1>9, <2>2 DEF EnvOK
<1> QED
  BY <1>3, <1>4, <1>6, <1>7, <1>8, <1>9 DEF out

\* The result of a plain read.
LEMMA RawDoneOK ==
  ASSUME NEW t, NEW th, NEW e, EnvOK(e), ThreadOK(t, th, e), th.pc = "assemble", th.op[1] = "raw"
  PROVE  ThreadOK(t, Done(th.op, Ok(Assembled(th))), e)
<1> DEFINE out == Assembled(th)
<1>1. PICK n \in Nat : Asks(t, th.op, th.slab, th.offset, n, e) /\ Piece(out, th.slab, th.offset, n, e.cut)
  BY FinishedFacts
<1>2. th.slab = 1 /\ th.op[2] = th.offset /\ th.op[3] = n /\ th.slab \in Ordinals /\ th.offset \in Nat
  BY <1>1, AsksFacts
<1> HIDE DEF out
<1> DEFINE exact == ClampedSlice(Contents[1], th.op[2], th.op[3])
<1>3. (~e.cut => out = exact) /\ IsPrefix(out, exact)
  BY <1>1, <1>2, PieceIsPrefix
<1>4. Ok(out).ok /\ Ok(out).bytes = out
  BY DEF Ok
<1> HIDE DEF exact
<1>5. Ok(out).ok => Ok(out).bytes = exact \/ (e.cut /\ IsPrefix(Ok(out).bytes, exact))
  BY <1>3, <1>4
<1>6. th.op[1] # "drop" /\ th.op[1] # "failed"
  OBVIOUS
<1>7. ResultOK(th.op, Ok(out), e)
  BY <1>4, <1>5, <1>6 DEF ResultOK, exact
<1> QED
  BY <1>7, DoneOK DEF out

\* The result of plaintext_for.
LEMMA DropDoneOK ==
  ASSUME NEW t, NEW th, NEW e, EnvOK(e), ThreadOK(t, th, e), th.pc = "assemble", th.op[1] = "drop"
  PROVE  LET r == find_record(th.slab, th.op[2]) IN
         ThreadOK(t, Done(th.op, IF Len(Assembled(th)) = r.len /\ Decodable(r) THEN Ok(Assembled(th)) ELSE Err), e)
<1> DEFINE out == Assembled(th)
           o == th.slab
           r == find_record(o, th.op[2])
           good == Len(out) = r.len /\ Decodable(r)
           res == IF good THEN Ok(out) ELSE Err
<1>1. PICK n \in Nat : /\ Asks(t, th.op, o, th.offset, n, e) /\ Piece(out, o, th.offset, n, e.cut)
                       /\ e.mode = "set" /\ Len(out) # n => e.bad
  BY FinishedFacts
<1>2. DropAsks(th.op, o, th.offset, n, e)
  <2>1. ~RawAsks(th.op, o, th.offset, n, e)
    BY DEF RawAsks
  <2>2. ~OpenAsks(t, th.op, o, th.offset, n, e)
    BY DEF OpenAsks
  <2> QED
    BY <1>1, <2>1, <2>2 DEF Asks
<1>3. PICK k \in 1..Len(Slabs[o].records) :
        /\ th.op = <<"drop", Slabs[o].records[k].id>>
        /\ find_record(o, Slabs[o].records[k].id) = Slabs[o].records[k]
        /\ th.offset = WindowStart(o) + Slabs[o].records[k].off /\ n = Slabs[o].records[k].len
  BY <1>2 DEF DropAsks
<1>4. r = Slabs[o].records[k] /\ n = r.len /\ th.offset = WindowStart(o) + r.off
  BY <1>3
<1>5. \E j \in 1..Len(Slabs[o].records) : Slabs[o].records[j].id = th.op[2]
  BY <1>3
<1>6. o \in Ordinals /\ th.offset \in Nat /\ e.mode = "set" /\ th.offset + n <= Size(o)
  <2>1. e.mode = "set"
    BY <1>2 DEF DropAsks
  <2> QED
    BY <1>1, <2>1, AsksFacts
<1>7. ASSUME good PROVE res.ok /\ Decodable(r) /\ res.bytes = ClampedSlice(Contents[o], WindowStart(o) + r.off, r.len)
  <2>1. res = Ok(out)
    BY <1>7
  <2>2. res.ok /\ res.bytes = out
    BY <2>1 DEF Ok
  <2>3. Len(out) = n
    BY <1>4, <1>7
  <2>4. out = Bytes(o, th.offset, n)
    BY <1>1, <2>3 DEF Piece
  <2>5. ClampedSlice(Contents[o], th.offset, n) = Bytes(o, th.offset, Extent(o, th.offset, n))
    BY <1>6, ClampIs
  <2>6. Extent(o, th.offset, n) = n
    BY <1>6, ExtentFacts
  <2> HIDE DEF out, res, r
  <2> QED
    BY <1>4, <1>7, <2>2, <2>4, <2>5, <2>6
<1>8. ASSUME ~good PROVE ~res.ok /\ (e.bad \/ ~Decodable(r))
  <2>1. ~res.ok
    BY <1>8 DEF Err
  <2> HIDE DEF out, res, r
  <2> QED
    BY <1>1, <1>4, <1>6, <1>8, <2>1
<1>9. ResultOK(th.op, res, e)
  <2> HIDE DEF good, res
  <2>1. th.op[1] # "raw" /\ th.op[1] # "failed"
    OBVIOUS
  <2>2. /\ res.ok => Decodable(r) /\ res.bytes = ClampedSlice(Contents[o], WindowStart(o) + r.off, r.len)
        /\ ~res.ok => e.bad \/ ~Decodable(r)
    BY <1>7, <1>8
  <2> QED
    BY <1>5, <1>6, <2>1, <2>2 DEF ResultOK
<1> QED
  BY <1>9, DoneOK

\* The opener's reads come back whole, or the slab fails to open for a reason.
LEMMA OpenFacts ==
  ASSUME NEW t, NEW th, NEW e, EnvOK(e), ThreadOK(t, th, e), th.pc = "assemble", th.op[1] \in {"header", "record"}
  PROVE  /\ t = Opener /\ e.mode = "set" /\ th.slab = e.opened + 1 /\ th.slab \in Ordinals
         /\ th.op[1] = "record" => th.op[2] \in 1..Len(Slabs[th.slab].records)
         /\ LET n == IF th.op[1] = "header" THEN SLAB_HEADER_LEN ELSE DROP_RECORD_LEN IN
            IF Len(Assembled(th)) = n THEN e.reach ELSE ThreadOK(t, Done(<<"failed">>, Err), e)
<1> DEFINE out == Assembled(th)
           o == th.slab
           len0 == IF th.op[1] = "header" THEN SLAB_HEADER_LEN ELSE DROP_RECORD_LEN
<1>1. PICK n \in Nat : /\ Asks(t, th.op, o, th.offset, n, e)
                       /\ Len(out) > 0 => e.reach
                       /\ e.mode = "set" /\ Len(out) # n => e.bad
  BY FinishedFacts
<1>2. OpenAsks(t, th.op, o, th.offset, n, e)
  <2>1. ~RawAsks(th.op, o, th.offset, n, e)
    BY DEF RawAsks
  <2>2. ~DropAsks(th.op, o, th.offset, n, e)
    BY DEF DropAsks
  <2> QED
    BY <1>1, <2>1, <2>2 DEF Asks
<1>3. t = Opener /\ e.mode = "set" /\ o = e.opened + 1 /\ o \in Ordinals
  BY <1>2 DEF OpenAsks
<1>4. n = len0 /\ (th.op[1] = "record" => th.op[2] \in 1..Len(Slabs[o].records))
  <2>1. CASE th.op = <<"header">> /\ n = SLAB_HEADER_LEN
    BY <2>1
  <2>2. CASE \E k \in 1..Len(Slabs[o].records) : th.op = <<"record", k>> /\ n = DROP_RECORD_LEN
    BY <2>2
  <2> QED
    BY <1>2, <2>1, <2>2 DEF OpenAsks
<1>5. n > 0
  <2>1. SLAB_HEADER_LEN > 0 /\ DROP_RECORD_LEN > 0
    BY <1>3, SlabFacts
  <2> QED
    BY <1>4, <2>1
<1> HIDE DEF out, len0
<1>6. ASSUME Len(out) # n PROVE ThreadOK(t, Done(<<"failed">>, Err), e)
  <2>1. e.bad
    BY <1>1, <1>3, <1>6
  <2>2. ResultOK(<<"failed">>, Err, e)
    BY <2>1 DEF ResultOK
  <2> QED
    BY <2>2, DoneOK
<1> QED
  BY <1>1, <1>3, <1>4, <1>5, <1>6 DEF out, len0

\* parse_slab_record_table goes on to the next record or is complete; a well-formed slab is never corrupt.
LEMMA NextRecordOK ==
  ASSUME NEW e, SharedOK(len, cache, e), NEW t, t = Opener, e.mode = "set", NEW o \in Ordinals, o = e.opened + 1,
         NEW n \in 0..Len(Slabs[o].records)
  PROVE  /\ TableStep(o, n) \in {"record", "complete"}
         /\ TableStep(o, n) = "record" =>
              ThreadOK(t, ReadAt(<<"record", n + 1>>, o, SLAB_HEADER_LEN + n * DROP_RECORD_LEN, DROP_RECORD_LEN), e)
<1> DEFINE N == Len(Slabs[o].records)
           a == SLAB_HEADER_LEN + n * DROP_RECORD_LEN
           op == <<"record", n + 1>>
<1>1. N \in Nat
  BY SlabFacts
<1>2. (n < N => TableStep(o, n) = "record") /\ (n = N => TableStep(o, n) = "complete")
  BY RecordFacts
<1>3. TableStep(o, n) \in {"record", "complete"}
  BY <1>1, <1>2
<1>4. ASSUME TableStep(o, n) = "record" PROVE ThreadOK(t, ReadAt(op, o, a, DROP_RECORD_LEN), e)
  <2>1. n + 1 \in 1..N /\ (n + 1) - 1 = n
    <3>1. n # N
      BY <1>2, <1>4
    <3> QED
      BY <1>1, <3>1
  <2>2. \E k \in 1..N : op = <<"record", k>> /\ a = SLAB_HEADER_LEN + (k - 1) * DROP_RECORD_LEN
    BY <2>1
  <2> HIDE DEF a, op
  <2>3. OpenAsks(t, op, o, a, DROP_RECORD_LEN, e)
    BY <2>2 DEF OpenAsks
  <2>4. Asks(t, op, o, a, DROP_RECORD_LEN, e)
    BY <2>3 DEF Asks
  <2> QED
    BY <2>4, ReadAtOK
<1> QED
  BY <1>3, <1>4

\* The slab whose records are complete is open.
LEMMA OpenedOK ==
  ASSUME NEW e, SharedOK(len, cache, e), e.mode = "set", e.reach, NEW o \in Ordinals, o = e.opened + 1,
         NEW f, f.mode = e.mode, f.reach = e.reach, f.cut = e.cut, f.bad = e.bad, f.opened = o
  PROVE  /\ SharedOK([len EXCEPT ![o] = Slabs[o].total], cache, f)
         /\ \A u : u # Opener => Grows(u, e, f)
<1>1. EnvOK(e) /\ DOMAIN len = Ordinals /\ DOMAIN cache = Ordinals
  BY DEF SharedOK
<1>2. Len(Slabs) \in Nat /\ Slabs[o].total = Size(o) /\ Size(o) \in Nat
  BY PagedAssumption, SlabFacts, SizeFacts
<1>3. e.opened \in Nat /\ e.opened < Len(Slabs) /\ o \in 0..Len(Slabs)
  BY <1>1, <1>2 DEF EnvOK, Ordinals
<1>4. EnvOK(f)
  BY <1>1, <1>3 DEF EnvOK
<1>5. ASSUME NEW p \in Ordinals PROVE LenOK([len EXCEPT ![o] = Slabs[o].total][p], p, f)
  <2>1. LenOK(len[p], p, e)
    BY DEF SharedOK
  <2>2. CASE p = o
    <3>1. [len EXCEPT ![o] = Slabs[o].total][p] = Size(o)
      BY <1>1, <1>2, <2>2
    <3> QED
      BY <1>2, <2>2, <3>1 DEF LenOK
  <2>3. CASE p # o
    <3>1. [len EXCEPT ![o] = Slabs[o].total][p] = len[p]
      BY <1>1, <2>3
    <3>2. p <= f.opened => p <= e.opened
      BY <1>2, <1>3, <2>3 DEF Ordinals
    <3> QED
      BY <2>1, <3>1, <3>2 DEF LenOK
  <2> QED
    BY <2>2, <2>3
<1>6. \A p \in Ordinals : CacheOK(cache[p], p, f)
  BY DEF SharedOK, CacheOK
<1>7. \A u : u # Opener => Grows(u, e, f)
  BY <1>3 DEF Grows
<1> QED
  BY <1>1, <1>4, <1>5, <1>6, <1>7 DEF SharedOK

----------------------------------------------------------------------------
(* The invariant.                                                          *)

LEMMA ReachableStays == ASSUME transport' = transport PROVE Reachable' = Reachable
BY DEF Reachable, Remote

\* A step of thread t that leaves what is shared, and the other threads, in order.
LEMMA StepOK ==
  ASSUME PagedInv, NEW t \in Threads, NEW q, thread' = [thread EXCEPT ![t] = q],
         transport' = transport, faults' \in Nat, SharedOK(len', cache', Env'), ThreadOK(t, q, Env'),
         \A u \in Threads : u # t => Grows(u, Env, Env')
  PROVE  PagedInv'
<1>1. /\ transport \in Transports /\ DOMAIN thread = Threads
      /\ \A u \in Threads : ThreadOK(u, thread[u], Env)
  BY DEF PagedInv
<1>2. ASSUME NEW u \in Threads PROVE ThreadOK(u, thread'[u], Env')
  <2>1. CASE u = t
    BY <1>1, <2>1
  <2>2. CASE u # t
    <3>1. thread'[u] = thread[u]
      BY <1>1, <2>2
    <3>2. ThreadOK(u, thread[u], Env) /\ Grows(u, Env, Env')
      BY <1>1, <2>2
    <3> QED
      BY <3>1, <3>2, ThreadGrows
  <2> QED
    BY <2>1, <2>2
<1>3. transport' \in Transports /\ DOMAIN thread' = Threads
  BY <1>1
<1> QED
  BY <1>2, <1>3 DEF PagedInv

\* A step that changes the thread only, or the thread and the cache.
LEMMA QuietStepOK ==
  ASSUME PagedInv, NEW t \in Threads, NEW q, thread' = [thread EXCEPT ![t] = q], ThreadOK(t, q, Env),
         UNCHANGED <<mode, transport, len, opened, faults, cuts>>, SharedOK(len, cache', Env)
  PROVE  PagedInv'
<1>1. Env' = Env
  BY ReachableStays DEF Env
<1>2. \A u \in Threads : Grows(u, Env, Env)
  BY DEF Grows
<1>3. faults' \in Nat
  BY DEF PagedInv
<1>4. SharedOK(len', cache', Env')
  BY <1>1
<1> QED
  BY <1>1, <1>2, <1>3, <1>4, StepOK

LEMMA CacheStepOK ==
  ASSUME NEW lens, NEW caches, NEW e, SharedOK(lens, caches, e), NEW o \in Ordinals, NEW c, CacheOK(c, o, e)
  PROVE  SharedOK(lens, [caches EXCEPT ![o] = c], e)
BY DEF SharedOK

LEMMA InvFacts ==
  ASSUME PagedInv, NEW t \in Threads
  PROVE  /\ SharedOK(len, cache, Env) /\ EnvOK(Env) /\ ThreadOK(t, thread[t], Env)
         /\ transport \in Transports /\ faults \in Nat
BY DEF PagedInv, SharedOK

\* The invariant holds at first.
LEMMA InitOK == Init => PagedInv
<1> SUFFICES ASSUME Init PROVE PagedInv
  OBVIOUS
<1> DEFINE e == Env
<1>1. mode \in {"raw", "set"} /\ transport \in Transports /\ faults = 0 /\ cuts = FALSE /\ opened = 0
  BY PagedAssumption DEF Init
<1>2. Reachable \in BOOLEAN
  BY DEF Reachable
<1>3. e.mode = mode /\ e.opened = opened /\ e.cut = cuts /\ e.bad = (faults > 0) /\ e.reach = Reachable
  BY DEF Env
<1> HIDE DEF e
<1>9. e.cut \in BOOLEAN /\ e.bad \in BOOLEAN /\ e.reach \in BOOLEAN /\ ~e.cut /\ e.opened = 0
  <2>1. (faults > 0) \in BOOLEAN
    OBVIOUS
  <2> QED
    BY <1>1, <1>2, <1>3, <2>1, Zenon
<1>4. EnvOK(e)
  <2>1. Len(Slabs) \in Nat
    BY PagedAssumption
  <2> QED
    BY <1>1, <1>3, <1>9, <2>1 DEF EnvOK
<1>5. ASSUME NEW o \in Ordinals PROVE LenOK(len[o], o, e) /\ CacheOK(cache[o], o, e)
  <2>1. len[o] = UNKNOWN_LEN /\ cache[o] = <<>>
    BY DEF Init
  <2>2. UNKNOWN_LEN \in Nat /\ CachePages \in Nat
    BY PagedAssumption DEF UNKNOWN_LEN
  <2>3. ~(o <= e.opened)
    BY <1>9, PagedAssumption DEF Ordinals
  <2>4. LenOK(len[o], o, e)
    BY <2>1, <2>2, <2>3 DEF LenOK
  <2>5. CacheOK(<<>>, o, e)
    BY <2>2 DEF CacheOK, PagesHold
  <2> QED
    BY <2>1, <2>4, <2>5
<1>6. SharedOK(len, cache, e)
  <2>1. DOMAIN len = Ordinals /\ DOMAIN cache = Ordinals
    BY DEF Init
  <2> QED
    BY <1>4, <1>5, <2>1 DEF SharedOK
<1>7. ASSUME NEW t \in Threads PROVE ThreadOK(t, thread[t], e)
  <2>1. thread[t] = Idle
    BY DEF Init
  <2>2. Shape(Idle) /\ Idle.pc = "idle" /\ Idle.op = <<"none">>
    BY DEF Shape, Idle
  <2>3. ResultOK(Idle.op, Idle.res, e)
    BY <2>2 DEF ResultOK
  <2> QED
    BY <2>1, <2>2, <2>3 DEF ThreadOK
<1>8. DOMAIN thread = Threads
  BY DEF Init
<1> QED
  BY <1>1, <1>6, <1>7, <1>8 DEF PagedInv, e

\* One lemma per action: the invariant is kept.
LEMMA RawReadKeeps == ASSUME PagedInv, NEW t \in Threads, RawRead(t) PROVE PagedInv'
<1>1. PICK q \in RawReads : thread' = [thread EXCEPT ![t] = ReadAt(<<"raw", q[1], q[2]>>, 1, q[1], q[2])]
  BY DEF RawRead
<1>2. SharedOK(len, cache, Env)
  BY InvFacts
<1>3. ThreadOK(t, ReadAt(<<"raw", q[1], q[2]>>, 1, q[1], q[2]), Env)
  <2>1. Env.mode = "raw"
    BY DEF RawRead, Env
  <2>2. Asks(t, <<"raw", q[1], q[2]>>, 1, q[1], q[2], Env)
    <3>1. q = <<q[1], q[2]>>
      BY PagedAssumption
    <3> QED
      BY <2>1, <3>1 DEF RawAsks, Asks
  <2> QED
    BY <1>2, <2>2, ReadAtOK
<1> QED
  BY <1>1, <1>2, <1>3, QuietStepOK DEF RawRead

LEMMA OpenSlabKeeps == ASSUME PagedInv, NEW t \in Threads, OpenSlab(t) PROVE PagedInv'
<1> DEFINE q == ReadAt(<<"header">>, opened + 1, 0, SLAB_HEADER_LEN)
<1>1. thread' = [thread EXCEPT ![t] = q]
  BY DEF OpenSlab
<1>2. SharedOK(len, cache, Env) /\ EnvOK(Env)
  BY InvFacts
<1>3. Env.mode = "set" /\ Env.opened = opened /\ t = Opener
  BY DEF OpenSlab, Env
<1>4. opened + 1 \in Ordinals
  BY <1>2, <1>3, PagedAssumption DEF EnvOK, Ordinals, OpenSlab
<1>5. Asks(t, <<"header">>, opened + 1, 0, SLAB_HEADER_LEN, Env)
  BY <1>3, <1>4 DEF OpenAsks, Asks
<1>6. ThreadOK(t, q, Env)
  BY <1>2, <1>5, ReadAtOK
<1> QED
  BY <1>1, <1>2, <1>6, QuietStepOK DEF OpenSlab

\* find_record gives a record with the id, if the slab has one.
LEMMA FoundFacts ==
  ASSUME NEW o \in Ordinals, NEW id, \E k \in 1..Len(Slabs[o].records) : Slabs[o].records[k].id = id
  PROVE  \E k \in 1..Len(Slabs[o].records) : Slabs[o].records[k].id = id /\ find_record(o, id) = Slabs[o].records[k]
<1> DEFINE N == Len(Slabs[o].records)
           ks == {k \in 1..N : Slabs[o].records[k].id = id}
           m == CHOOSE k \in ks : \A j \in ks : k <= j
<1>1. N \in Nat
  BY SlabFacts
<1>2. ks \subseteq Nat /\ ks # {} /\ \A k \in ks : k \in 1..N /\ Slabs[o].records[k].id = id
  BY <1>1
<1>3. find_record(o, id) = Slabs[o].records[m]
  BY DEF find_record
<1> HIDE DEF ks
<1>4. \E k \in ks : \A j \in ks : k <= j
  BY <1>2, LeastNatural
<1>5. m \in ks
  BY <1>4
<1> HIDE DEF m
<1> QED
  BY <1>2, <1>3, <1>5

LEMMA ReadDropKeeps == ASSUME PagedInv, NEW t \in Threads, ReadDrop(t) PROVE PagedInv'
<1>1. SharedOK(len, cache, Env)
  BY InvFacts
<1>2. mode = "set" /\ opened = Len(Slabs) /\ Env.mode = "set" /\ Env.opened = Len(Slabs)
  BY DEF ReadDrop, Env
<1>3. ASSUME NEW id \in DropIds,
             LET o == CHOOSE x \in HoldersOf(id) : \A y \in HoldersOf(id) : y <= x
                 r == find_record(o, id)
                 start == WindowStart(o) + r.off
                 op == <<"drop", id>>
             IN thread' = [thread EXCEPT ![t] =
                  IF ~r.readable \/ start + r.len > Slabs[o].total THEN Done(op, Err) ELSE ReadAt(op, o, start, r.len)]
      PROVE  PagedInv'
  <2> DEFINE H == HoldersOf(id)
             o == CHOOSE x \in H : \A y \in H : y <= x
             r == find_record(o, id)
             start == WindowStart(o) + r.off
             op == <<"drop", id>>
             q == IF ~r.readable \/ start + r.len > Slabs[o].total THEN Done(op, Err) ELSE ReadAt(op, o, start, r.len)
  <2>1. thread' = [thread EXCEPT ![t] = q]
    BY <1>3
  <2>2. H = {x \in Ordinals : \E k \in 1..Len(Slabs[x].records) : Slabs[x].records[k].id = id}
    BY <1>2 DEF HoldersOf, Ordinals
  <2>3. H # {}
    BY <2>2 DEF DropIds
  <2>4. Len(Slabs) \in Nat /\ H \subseteq 0..Len(Slabs)
    BY <2>2, PagedAssumption DEF Ordinals
  <2> HIDE DEF H
  <2>5. \E x \in H : \A y \in H : y <= x
    BY <2>3, <2>4, GreatestNatural
  <2>6. o \in H
    BY <2>5
  <2> HIDE DEF o
  <2>7. o \in Ordinals /\ \E k \in 1..Len(Slabs[o].records) : Slabs[o].records[k].id = id
    BY <2>2, <2>6
  <2>8. PICK k \in 1..Len(Slabs[o].records) : Slabs[o].records[k].id = id /\ r = Slabs[o].records[k]
    BY <2>7, FoundFacts
  <2> HIDE DEF r
  <2>9. r.off \in Nat /\ r.len \in Nat /\ WindowStart(o) + r.off + r.len <= Slabs[o].total
    BY <2>7, <2>8, PagedAssumption
  <2>10. WindowStart(o) \in Nat /\ Slabs[o].total \in Nat
    <3>1. Slabs[o].total = Size(o) /\ Size(o) \in Nat
      BY <2>7, SlabFacts, SizeFacts
    <3> QED
      BY <2>7, <3>1, SlabFacts
  <2>11. ~(start + r.len > Slabs[o].total)
    BY <2>9, <2>10
  <2>12. CASE ~r.readable
    <3>1. q = Done(op, Err)
      BY <2>12
    <3>2. ResultOK(op, Err, Env)
      <4>1. op[1] = "drop" /\ op[2] = id /\ ~Err.ok /\ ~Decodable(r)
        BY <2>12 DEF Err, Decodable
      <4>2. find_record(o, op[2]) = r
        BY DEF r
      <4> HIDE DEF op
      <4> QED
        BY <2>7, <4>1, <4>2 DEF ResultOK
    <3>3. ThreadOK(t, q, Env)
      BY <3>1, <3>2, DoneOK
    <3> HIDE DEF q
    <3> QED
      BY <1>1, <2>1, <3>3, QuietStepOK DEF ReadDrop
  <2>13. CASE r.readable
    <3>1. q = ReadAt(op, o, start, r.len)
      BY <2>11, <2>13
    <3>2. DropAsks(op, o, start, r.len, Env)
      <4>1. find_record(o, Slabs[o].records[k].id) = Slabs[o].records[k]
        BY <2>8 DEF r
      <4> QED
        BY <1>2, <2>7, <2>8, <2>13, <4>1 DEF DropAsks
    <3>3. Asks(t, op, o, start, r.len, Env)
      BY <3>2 DEF Asks
    <3>4. ThreadOK(t, q, Env)
      BY <1>1, <3>1, <3>3, ReadAtOK
    <3> HIDE DEF q
    <3> QED
      BY <1>1, <2>1, <3>4, QuietStepOK DEF ReadDrop
  <2> QED
    BY <2>12, <2>13
<1> QED
  BY <1>3 DEF ReadDrop

LEMMA CollectKeeps == ASSUME PagedInv, NEW t \in Threads, Collect(t) PROVE PagedInv'
<1> DEFINE th == thread[t]
           o == th.slab
           new == [k \in DOMAIN th.pages |-> PageIn(cache[o], th.first + k - 1)]
           q == [th EXCEPT !.pc = "request", !.pages = new]
           c == Touch(cache[o], th.first, th.first + Len(th.pages) - 1)
<1>1. SharedOK(len, cache, Env) /\ ThreadOK(t, th, Env) /\ th.pc = "collect"
  BY InvFacts DEF Collect
<1>2. thread' = [thread EXCEPT ![t] = q] /\ cache' = [cache EXCEPT ![o] = c]
  BY DEF Collect
<1> HIDE DEF th
<1>3. o \in Ordinals
  BY <1>1, RangeFacts DEF ThreadOK, ReadOK
<1>4. CacheOK(cache[o], o, Env)
  BY <1>1, <1>3 DEF SharedOK
<1>5. CacheOK(c, o, Env) /\ ThreadOK(t, q, Env)
  BY ZenonT(30), <1>1, <1>4, CollectOK
<1> HIDE DEF q, c
<1>6. SharedOK(len, cache', Env)
  BY <1>1, <1>2, <1>3, <1>5, CacheStepOK
<1> QED
  BY <1>2, <1>5, <1>6, QuietStepOK DEF Collect

LEMMA RequestKeeps == ASSUME PagedInv, NEW t \in Threads, Request(t) PROVE PagedInv'
<1> DEFINE th == thread[t]
           k == RunStart(th.pages, th.at)
<1>1. SharedOK(len, cache, Env) /\ ThreadOK(t, th, Env) /\ th.pc = "request"
  BY InvFacts DEF Request
<1>2. CASE k = 0
  <2> DEFINE q == [th EXCEPT !.pc = "assemble"]
  <2>1. thread' = [thread EXCEPT ![t] = q]
    BY <1>2 DEF Request
  <2> HIDE DEF th
  <2>2. ThreadOK(t, q, Env)
    BY <1>1, <1>2, NoRunOK
  <2> HIDE DEF q
  <2>3. SharedOK(len, cache', Env)
    BY <1>1 DEF Request
  <2> QED
    BY <2>1, <2>2, <2>3, QuietStepOK DEF Request
<1>3. CASE k # 0
  <2>1. \/ thread' = [thread EXCEPT ![t] = Asked(th)]
        \/ RunTo(th) < RunFrom(th) /\ thread' = [thread EXCEPT ![t] = Done(th.op, Panic)]
    BY <1>3 DEF Request, Asked, RunTo, RunFrom
  <2> HIDE DEF th
  <2>2. /\ ThreadOK(t, Asked(th), Env)
        /\ RunTo(th) < RunFrom(th) => ThreadOK(t, Done(th.op, Panic), Env)
    BY <1>1, <1>3, RunAskedOK
  <2>3. SharedOK(len, cache', Env)
    BY <1>1 DEF Request
  <2>4. PICK q : thread' = [thread EXCEPT ![t] = q] /\ ThreadOK(t, q, Env)
    BY <2>1, <2>2
  <2> QED
    BY <2>3, <2>4, QuietStepOK DEF Request
<1> QED
  BY <1>2, <1>3

LEMMA InsertKeepsInv == ASSUME PagedInv, NEW t \in Threads, InsertPages(t) PROVE PagedInv'
<1> DEFINE th == thread[t]
           o == th.slab
           c == InsertAll(cache[o], th.first + th.k - 1, Chunks(th.bytes), Least(Len(Chunks(th.bytes)), Room(th) + 1))
<1>1. SharedOK(len, cache, Env) /\ EnvOK(Env) /\ ThreadOK(t, th, Env) /\ th.pc = "insert"
  BY InvFacts DEF InsertPages, StorePages
<1>2. thread' = [thread EXCEPT ![t] = Stored(th)] /\ cache' = [cache EXCEPT ![o] = c]
  BY DEF InsertPages, StorePages, Stored, Room
<1> HIDE DEF th
<1>3. o \in Ordinals
  BY <1>1, RangeFacts DEF ThreadOK, ReadOK
<1>4. CacheOK(cache[o], o, Env)
  BY <1>1, <1>3 DEF SharedOK
<1>5. CacheOK(c, o, Env) /\ ThreadOK(t, Stored(th), Env)
  BY <1>1, <1>4, StoreOK
<1> HIDE DEF c
<1>6. SharedOK(len, cache', Env)
  BY <1>1, <1>2, <1>3, <1>5, CacheStepOK
<1> QED
  BY <1>2, <1>5, <1>6, QuietStepOK DEF InsertPages, StorePages

LEMMA ReplyKeeps == ASSUME PagedInv, NEW t \in Threads, Reply(t) PROVE PagedInv'
<1> DEFINE th == thread[t]
           o == th.slab
           range == RangeOf(transport, th.fetch, th.expected)
<1>1. /\ SharedOK(len, cache, Env) /\ EnvOK(Env) /\ ThreadOK(t, th, Env) /\ th.pc = "reply"
      /\ transport \in Transports /\ faults \in Nat
  BY InvFacts DEF Reply
<1>2. PICK faulty \in BOOLEAN : \E r \in Responses(Contents[o], range, faulty) :
        /\ faults' = IF faulty THEN faults + 1 ELSE faults
        /\ cuts' = (cuts \/ CutUnseen(r))
        /\ thread' = [thread EXCEPT ![t] = Replied(th, AnswerTo(transport, o, th.fetch, th.expected, r))]
        /\ len' = [len EXCEPT ![o] = Learned(th, AnswerTo(transport, o, th.fetch, th.expected, r), len[o])]
  BY DEF Reply, RangeOf, CutUnseen, Replied, Learned, AnswerTo
<1> HIDE DEF th
<1>3. PICK r \in Responses(Contents[o], range, faulty) :
        /\ faults' = IF faulty THEN faults + 1 ELSE faults
        /\ cuts' = (cuts \/ CutUnseen(r))
        /\ thread' = [thread EXCEPT ![t] = Replied(th, AnswerTo(transport, o, th.fetch, th.expected, r))]
        /\ len' = [len EXCEPT ![o] = Learned(th, AnswerTo(transport, o, th.fetch, th.expected, r), len[o])]
  BY <1>2
<1> DEFINE ans == AnswerTo(transport, o, th.fetch, th.expected, r)
           e == Env
           f == Env'
<1>4. UNCHANGED <<mode, transport, cache, opened, reads>>
  BY DEF Reply
<1>5. /\ e.mode = mode /\ e.opened = opened /\ e.cut = cuts /\ e.bad = (faults > 0) /\ e.reach = Reachable
      /\ f.mode = mode /\ f.opened = opened /\ f.cut = (cuts \/ CutUnseen(r)) /\ f.bad = (faults' > 0)
      /\ f.reach = Reachable
  <2>1. Reachable' = Reachable
    BY <1>4, ReachableStays
  <2>2. e.mode = mode /\ e.opened = opened /\ e.cut = cuts /\ e.bad = (faults > 0) /\ e.reach = Reachable
    BY DEF Env
  <2>3. f.mode = mode' /\ f.opened = opened' /\ f.cut = cuts' /\ f.bad = (faults' > 0) /\ f.reach = Reachable'
    BY DEF Env
  <2> HIDE DEF e, f
  <2> QED
    BY <1>3, <1>4, <2>1, <2>2, <2>3
<1>6. (faults' > 0) = ((faults > 0) \/ faulty) /\ faults' \in Nat
  BY <1>1, <1>3
<1> HIDE DEF ans, range
<1> DEFINE g == f
<1> HIDE DEF g, e
<1>7. /\ g.opened = e.opened /\ g.cut = (e.cut \/ CutUnseen(r)) /\ g.bad = (e.bad \/ faulty)
      /\ g.mode = e.mode /\ g.reach = e.reach /\ e.reach = Reachable
  BY <1>5, <1>6 DEF g
<1>8. \A u : Grows(u, e, g)
  BY <1>7 DEF Grows
<1>9. SharedOK(len, cache, e) /\ EnvOK(e) /\ ThreadOK(t, th, e)
  BY <1>1 DEF e
<1>10. o \in Ordinals
  BY <1>1, <1>9, RangeFacts DEF ThreadOK, ReadOK
<1>11. /\ ThreadOK(t, Replied(th, ans), g) /\ LenOK(Learned(th, ans, len[o]), o, g) /\ (CutUnseen(r) => faulty)
  <2>1. r \in Responses(Contents[th.slab], RangeOf(transport, th.fetch, th.expected), faulty)
    BY DEF range
  <2> QED
    BY <1>1, <1>7, <1>8, <1>9, <2>1, ReplyOK DEF ans
<1>12. SharedOK(len', cache', g)
  <2>1. EnvOK(g)
    <3>1. g.cut \in BOOLEAN /\ g.bad \in BOOLEAN /\ (g.cut => g.bad)
      BY <1>7, <1>9, <1>11 DEF EnvOK
    <3> QED
      BY <1>7, <1>9, <3>1 DEF EnvOK
  <2>2. DOMAIN len = Ordinals /\ DOMAIN cache = Ordinals
    BY <1>9 DEF SharedOK
  <2>3. ASSUME NEW p \in Ordinals PROVE LenOK(len'[p], p, g)
    <3>1. CASE p = o
      BY <1>3, <1>11, <2>2, <3>1 DEF ans
    <3>2. CASE p # o
      <4>1. len'[p] = len[p]
        BY <1>3, <2>2, <3>2
      <4>2. LenOK(len[p], p, e)
        BY <1>9 DEF SharedOK
      <4> QED
        BY <1>7, <1>8, <4>1, <4>2, LenGrows
    <3> QED
      BY <3>1, <3>2
  <2>4. \A p \in Ordinals : CacheOK(cache[p], p, g)
    BY <1>8, <1>9, CacheGrows DEF SharedOK
  <2>5. DOMAIN len' = Ordinals
    BY <1>3, <2>2
  <2> QED
    BY <1>4, <2>1, <2>2, <2>3, <2>4, <2>5 DEF SharedOK
<1>13. thread' = [thread EXCEPT ![t] = Replied(th, ans)]
  BY <1>3 DEF ans
<1> QED
  BY <1>4, <1>6, <1>8, <1>11, <1>12, <1>13, StepOK DEF g, e

LEMMA AssembleKeeps == ASSUME PagedInv, NEW t \in Threads, Assemble(t) PROVE PagedInv'
<1> DEFINE th == thread[t]
           o == th.slab
           out == Assembled(th)
           Failed == thread' = [thread EXCEPT ![t] = Done(<<"failed">>, Err)] /\ UNCHANGED <<len, opened>>
           More(n) ==
             /\ thread' = [thread EXCEPT ![t] =
                  ReadAt(<<"record", n + 1>>, o, SLAB_HEADER_LEN + n * DROP_RECORD_LEN, DROP_RECORD_LEN)]
             /\ UNCHANGED <<len, opened>>
           Complete ==
             /\ thread' = [thread EXCEPT ![t] = Done(<<"opened">>, Ok(<<>>))]
             /\ len' = [len EXCEPT ![o] = Slabs[o].total]
             /\ opened' = o
<1>1. SharedOK(len, cache, Env) /\ EnvOK(Env) /\ ThreadOK(t, th, Env) /\ th.pc = "assemble" /\ faults \in Nat
  BY InvFacts DEF Assemble
<1>2. UNCHANGED <<mode, transport, cache, reads, faults, cuts>>
  BY DEF Assemble
<1>3. ASSUME NEW q, thread' = [thread EXCEPT ![t] = q], UNCHANGED <<len, opened>>, ThreadOK(t, q, Env) PROVE PagedInv'
  BY <1>1, <1>2, <1>3, QuietStepOK
\* The four kinds of reads.
<1>4. \/ /\ th.op[1] = "raw"
         /\ thread' = [thread EXCEPT ![t] = Done(th.op, Ok(out))] /\ UNCHANGED <<len, opened>>
      \/ /\ th.op[1] = "header"
         /\ \/ Len(out) # SLAB_HEADER_LEN /\ Failed
            \/ Len(out) = SLAB_HEADER_LEN /\ TableStep(o, 0) = "record" /\ More(0)
            \/ Len(out) = SLAB_HEADER_LEN /\ TableStep(o, 0) = "complete" /\ Complete
            \/ Len(out) = SLAB_HEADER_LEN /\ TableStep(o, 0) \notin {"record", "complete"}
      \/ /\ th.op[1] = "record"
         /\ \/ Len(out) # DROP_RECORD_LEN /\ Failed
            \/ Len(out) = DROP_RECORD_LEN /\ TableStep(o, th.op[2]) = "record" /\ More(th.op[2])
            \/ Len(out) = DROP_RECORD_LEN /\ TableStep(o, th.op[2]) = "complete" /\ Complete
            \/ Len(out) = DROP_RECORD_LEN /\ TableStep(o, th.op[2]) \notin {"record", "complete"}
      \/ /\ th.op[1] = "drop"
         /\ LET r == find_record(o, th.op[2]) IN
            thread' = [thread EXCEPT ![t] = Done(th.op, IF Len(out) = r.len /\ Decodable(r) THEN Ok(out) ELSE Err)]
         /\ UNCHANGED <<len, opened>>
  <2>1. th.op[1] \in {"raw", "drop", "header", "record"}
    <3>1. Reading(t, th, Env)
      BY <1>1 DEF ThreadOK, ReadOK
    <3>2. \E n \in 0..MaxU64 : Asks(t, th.op, th.slab, th.offset, n, Env)
      BY <3>1 DEF Reading
    <3> QED
      BY <3>2, AsksFacts
  <2>2. CASE th.op[1] = "raw"
    BY <2>2 DEF Assemble
  <2>3. CASE th.op[1] = "drop"
    BY <2>3 DEF Assemble
  <2>4. CASE th.op[1] = "header"
    BY <2>4 DEF Assemble
  <2>5. CASE th.op[1] = "record"
    BY <2>5 DEF Assemble
  <2> QED
    BY <2>1, <2>2, <2>3, <2>4, <2>5
<1> HIDE DEF th
<1>5. CASE th.op[1] = "raw"
  <2>1. thread' = [thread EXCEPT ![t] = Done(th.op, Ok(out))] /\ UNCHANGED <<len, opened>>
    BY <1>4, <1>5
  <2>2. ThreadOK(t, Done(th.op, Ok(out)), Env)
    BY <1>1, <1>5, RawDoneOK
  <2> QED
    BY <1>3, <2>1, <2>2
<1>6. CASE th.op[1] = "drop"
  <2> DEFINE r == find_record(o, th.op[2])
             q == Done(th.op, IF Len(out) = r.len /\ Decodable(r) THEN Ok(out) ELSE Err)
  <2>1. thread' = [thread EXCEPT ![t] = q] /\ UNCHANGED <<len, opened>>
    BY <1>4, <1>6
  <2>2. ThreadOK(t, q, Env)
    BY <1>1, <1>6, DropDoneOK
  <2> HIDE DEF q
  <2> QED
    BY <1>3, <2>1, <2>2
<1>7. ASSUME th.op[1] \in {"header", "record"}, Failed, ThreadOK(t, Done(<<"failed">>, Err), Env) PROVE PagedInv'
  BY <1>3, <1>7
<1>8. ASSUME NEW n \in 0..Len(Slabs[o].records), t = Opener, Env.mode = "set", o \in Ordinals, o = Env.opened + 1,
             TableStep(o, n) = "record", More(n)
      PROVE  PagedInv'
  <2> DEFINE q == ReadAt(<<"record", n + 1>>, o, SLAB_HEADER_LEN + n * DROP_RECORD_LEN, DROP_RECORD_LEN)
  <2>1. thread' = [thread EXCEPT ![t] = q] /\ UNCHANGED <<len, opened>>
    BY <1>8
  <2>2. ThreadOK(t, q, Env)
    BY <1>1, <1>8, NextRecordOK
  <2> HIDE DEF q
  <2> QED
    BY <1>3, <2>1, <2>2
<1>9. ASSUME t = Opener, Env.mode = "set", o \in Ordinals, o = Env.opened + 1, Env.reach, Complete PROVE PagedInv'
  <2> DEFINE e == Env
             f == Env'
             q == Done(<<"opened">>, Ok(<<>>))
  <2>1. f.mode = e.mode /\ f.reach = e.reach /\ f.cut = e.cut /\ f.bad = e.bad /\ f.opened = o
    <3>1. Reachable' = Reachable
      BY <1>2, ReachableStays
    <3>2. opened' = o
      BY <1>9
    <3> QED
      BY <1>2, <3>1, <3>2 DEF Env
  <2> HIDE DEF e, f
  <2>2. /\ SharedOK([len EXCEPT ![o] = Slabs[o].total], cache, f)
        /\ \A u : u # Opener => Grows(u, e, f)
    <3>1. SharedOK(len, cache, e) /\ e.mode = "set" /\ e.reach /\ o = e.opened + 1
      BY <1>1, <1>9 DEF e
    <3> QED
      BY <1>9, <2>1, <3>1, OpenedOK
  <2>3. SharedOK(len', cache', f)
    BY <1>2, <1>9, <2>2
  <2>4. ResultOK(<<"opened">>, Ok(<<>>), f)
    BY DEF ResultOK
  <2>5. ThreadOK(t, q, f)
    BY <2>4, DoneOK
  <2>6. thread' = [thread EXCEPT ![t] = q] /\ transport' = transport /\ faults' \in Nat
    BY <1>1, <1>2, <1>9
  <2>7. \A u \in Threads : u # t => Grows(u, e, f)
    BY <1>9, <2>2
  <2> HIDE DEF q
  <2> QED
    BY <2>3, <2>5, <2>6, <2>7, StepOK DEF e, f
<1>10. CASE th.op[1] = "header"
  <2>1. /\ t = Opener /\ Env.mode = "set" /\ o = Env.opened + 1 /\ o \in Ordinals
        /\ IF Len(out) = SLAB_HEADER_LEN THEN Env.reach ELSE ThreadOK(t, Done(<<"failed">>, Err), Env)
    BY <1>1, <1>10, OpenFacts
  <2>2. 0 \in 0..Len(Slabs[o].records)
    BY <2>1, SlabFacts
  <2>3. TableStep(o, 0) \in {"record", "complete"}
    BY <1>1, <2>1, <2>2, NextRecordOK
  <2> HIDE DEF Failed, More, Complete, out, o
  <2>4. \/ Len(out) # SLAB_HEADER_LEN /\ Failed
        \/ Len(out) = SLAB_HEADER_LEN /\ TableStep(o, 0) = "record" /\ More(0)
        \/ Len(out) = SLAB_HEADER_LEN /\ TableStep(o, 0) = "complete" /\ Complete
    BY <1>4, <1>10, <2>3
  <2> QED
    BY <1>7, <1>8, <1>9, <1>10, <2>1, <2>2, <2>4
<1>11. CASE th.op[1] = "record"
  <2> DEFINE n == th.op[2]
  <2>1. /\ t = Opener /\ Env.mode = "set" /\ o = Env.opened + 1 /\ o \in Ordinals
        /\ IF Len(out) = DROP_RECORD_LEN THEN Env.reach ELSE ThreadOK(t, Done(<<"failed">>, Err), Env)
        /\ n \in 1..Len(Slabs[o].records)
    BY <1>1, <1>11, OpenFacts
  <2>2. n \in 0..Len(Slabs[o].records)
    BY <2>1, SlabFacts
  <2>3. TableStep(o, n) \in {"record", "complete"}
    BY <1>1, <2>1, <2>2, NextRecordOK
  <2> HIDE DEF Failed, More, Complete, out, o
  <2>4. \/ Len(out) # DROP_RECORD_LEN /\ Failed
        \/ Len(out) = DROP_RECORD_LEN /\ TableStep(o, n) = "record" /\ More(n)
        \/ Len(out) = DROP_RECORD_LEN /\ TableStep(o, n) = "complete" /\ Complete
    BY <1>4, <1>11, <2>3
  <2> QED
    BY <1>7, <1>8, <1>9, <1>11, <2>1, <2>2, <2>4
<1> QED
  BY <1>4, <1>5, <1>6, <1>10, <1>11

\* The invariant is inductive.
LEMMA NextKeeps == PagedInv /\ [Next]_vars => PagedInv'
<1> SUFFICES ASSUME PagedInv, [Next]_vars PROVE PagedInv'
  OBVIOUS
<1>1. CASE UNCHANGED vars
  <2>1. UNCHANGED <<mode, transport, len, cache, opened, thread, faults, cuts>>
    BY <1>1 DEF vars
  <2>2. Env' = Env
    BY <2>1, ReachableStays DEF Env
  <2> QED
    BY <2>1, <2>2 DEF PagedInv
<1>2. ASSUME NEW t \in Threads, RawRead(t) \/ OpenSlab(t) \/ ReadDrop(t) \/ Step(t) PROVE PagedInv'
  <2>1. CASE RawRead(t)
    BY <2>1, RawReadKeeps
  <2>2. CASE OpenSlab(t)
    BY <2>2, OpenSlabKeeps
  <2>3. CASE ReadDrop(t)
    BY <2>3, ReadDropKeeps
  <2>4. CASE Collect(t)
    BY <2>4, CollectKeeps
  <2>5. CASE Request(t)
    BY <2>5, RequestKeeps
  <2>6. CASE Reply(t)
    BY <2>6, ReplyKeeps
  <2>7. CASE InsertPages(t)
    BY <2>7, InsertKeepsInv
  <2>8. CASE Assemble(t)
    BY <2>8, AssembleKeeps
  <2> QED
    BY <1>2, <2>1, <2>2, <2>3, <2>4, <2>5, <2>6, <2>7, <2>8 DEF Step
<1> QED
  BY <1>1, <1>2 DEF Next

\* PagedInv holds in every reachable state.
LEMMA InvHolds == Spec => []PagedInv
BY InitOK, NextKeeps, PTL DEF Spec

\* Whatever the threads interleave, however the server fails, and whatever the page size and the cache's capacity
\* are, the pages in the cache are the object's and the length is the object's: only a reply that was cut without the
\* reader noticing leaves a short page or a short length behind (paged_slab.rs PageCache, learn_len).
THEOREM CacheIsTheSlab == Spec => []CacheHoldsTheSlab
<1>1. ASSUME PagedInv PROVE CacheHoldsTheSlab
  <2>1. SharedOK(len, cache, Env)
    BY <1>1 DEF PagedInv
  <2>2. Env.cut = cuts /\ Env.mode = mode
    BY DEF Env
  <2>3. ASSUME NEW o \in Ordinals
        PROVE  LET size == Len(Contents[o])
                   page(i) == ClampedSlice(Contents[o], i * PAGED_PAGE_SIZE, PAGED_PAGE_SIZE)
               IN /\ Len(cache[o]) <= CachePages
                  /\ \A j, k \in 1..Len(cache[o]) : cache[o][j][1] = cache[o][k][1] => j = k
                  /\ \A k \in 1..Len(cache[o]) :
                       IF cuts THEN IsPrefix(cache[o][k][2], page(cache[o][k][1]))
                       ELSE cache[o][k][2] = page(cache[o][k][1])
                  /\ \/ len[o] \in {UNKNOWN_LEN, size}
                     \/ cuts /\ len[o] < size
                     \/ mode = "raw" /\ len[o] > size
    <3> DEFINE c == cache[o]
               page(i) == ClampedSlice(Contents[o], i * PAGED_PAGE_SIZE, PAGED_PAGE_SIZE)
    <3>1. CacheOK(c, o, Env) /\ LenOK(len[o], o, Env)
      BY <2>1 DEF SharedOK
    <3>2. Len(c) <= CachePages /\ \A j, k \in 1..Len(c) : c[j][1] = c[k][1] => j = k
      BY <3>1 DEF CacheOK, PagesHold
    <3>3. \/ len[o] \in {UNKNOWN_LEN, Size(o)}
          \/ cuts /\ len[o] < Size(o)
          \/ mode = "raw" /\ len[o] > Size(o)
      BY <2>2, <3>1 DEF LenOK
    <3> HIDE DEF c
    <3>4. ASSUME NEW k \in 1..Len(c)
          PROVE  IF cuts THEN IsPrefix(c[k][2], page(c[k][1])) ELSE c[k][2] = page(c[k][1])
      <4> DEFINE a == c[k][1] * P
      <4>1. c \in Seq(Entry) /\ Piece(c[k][2], o, a, P, Env.cut)
        BY <3>1 DEF CacheOK, PagesHold
      <4>2. c[k][1] \in Nat
        BY <4>1 DEF Entry
      <4>3. a \in Nat /\ P \in Nat
        BY <4>2, TimesP
      <4>4. page(c[k][1]) = ClampedSlice(Contents[o], a, P)
        BY DEF P
      <4> HIDE DEF a, page
      <4>5. /\ ~Env.cut => c[k][2] = ClampedSlice(Contents[o], a, P)
            /\ IsPrefix(c[k][2], ClampedSlice(Contents[o], a, P))
        BY <4>1, <4>3, PieceIsPrefix
      <4> QED
        BY <2>2, <4>4, <4>5
    <3> HIDE DEF page
    <3> QED
      BY <3>2, <3>3, <3>4 DEF Size, c, page
  <2> QED
    BY <2>3 DEF CacheHoldsTheSlab
<1> QED
  BY <1>1, InvHolds, PTL

\* A finished read has the bytes that reading the whole object gives, for every interleaving of the threads, every
\* page size and every number of faults; it fails only after a fault, through a transport that cannot name the object,
\* or past the object's end (paged_slab.rs PagedBytes::read_at, PagedSlabSet::plaintext_for).
THEOREM PagedReadsAreExact == Spec => []PagedReadIsExact
<1>1. ASSUME PagedInv PROVE PagedReadIsExact
  <2>1. Env.cut = cuts /\ Env.bad = (faults > 0) /\ Env.reach = Reachable
    BY DEF Env
  <2> DEFINE e == Env
  <2>2. \A t \in Threads : thread[t].pc = "idle" => ResultOK(thread[t].op, thread[t].res, e)
    BY <1>1 DEF PagedInv, ThreadOK
  <2> HIDE DEF e
  <2>3. e.cut = cuts /\ e.bad = (faults > 0) /\ e.reach = Reachable
    BY <2>1 DEF e
  <2> QED
    BY <2>2, <2>3 DEF PagedReadIsExact, ResultOK
<1> QED
  BY <1>1, InvHolds, PTL
============================================================================
