------------------------- MODULE SieveCacheProofs -------------------------
(***************************************************************************)
(* Theorems about SieveCache, for every set of keys, sizes and bounds.     *)
(***************************************************************************)
EXTENDS SieveCache, SumLemmas

Slot == [key: Keys, visited: BOOLEAN]

CacheShape ==
  /\ entries \subseteq Keys
  /\ IsFiniteSet(entries)
  /\ order \in Seq(Slot)
  /\ evicting \in BOOLEAN

\* BytesAreSum, in the form the lemmas about sums use.
SumInv == bytes = SumOver(Size, entries)

LimitInv == evicting <=> OverLimit(entries, bytes)

\* The inductive invariant.  SumInv is what keeps `bytes` a natural number
\* when evict_until_fits subtracts; LimitInv carries the bounds from the end
\* of an eviction to the next insert.
CacheInv == CacheShape /\ OrderListsEntries /\ SumInv /\ LimitInv

----------------------------------------------------------------------------
(* What the queue operations do to the queued keys.                        *)

KeysOf(q) == {q[i].key : i \in DOMAIN q}
Injective(q) == \A i, j \in DOMAIN q : q[i].key = q[j].key => i = j

LEMMA VisitLemma ==
  ASSUME order \in Seq(Slot), NEW k
  PROVE  /\ Visit(k) \in Seq(Slot)
         /\ KeysOf(Visit(k)) = KeysOf(order)
         /\ Injective(order) => Injective(Visit(k))
<1> DEFINE v == Visit(k)
<1>1. \A i \in DOMAIN order : order[i] \in Slot
  OBVIOUS
<1>2. /\ DOMAIN v = DOMAIN order
      /\ \A i \in DOMAIN order : v[i] \in Slot /\ v[i].key = order[i].key
  BY <1>1 DEF Visit, Slot
<1>3. v \in Seq(Slot)
  <2>1. DOMAIN order = 1..Len(order) /\ Len(order) \in Nat
    OBVIOUS
  <2>2. v = [i \in 1..Len(order) |-> v[i]]
    BY <2>1 DEF Visit
  <2> QED
    BY <1>2, <2>1, <2>2
<1>4. KeysOf(v) = KeysOf(order)
  BY <1>2 DEF KeysOf
<1>5. Injective(order) => Injective(v)
  BY <1>2 DEF Injective
<1> QED
  BY <1>3, <1>4, <1>5

LEMMA AppendLemma ==
  ASSUME NEW q \in Seq(Slot), NEW s \in Slot
  PROVE  /\ Append(q, s) \in Seq(Slot)
         /\ KeysOf(Append(q, s)) = KeysOf(q) \cup {s.key}
         /\ Injective(q) /\ s.key \notin KeysOf(q) => Injective(Append(q, s))
<1> DEFINE a == Append(q, s)
           n == Len(q)
<1>1. /\ n \in Nat /\ DOMAIN q = 1..n /\ DOMAIN a = 1..(n + 1)
      /\ \A i \in 1..n : a[i] = q[i]
      /\ a[n + 1] = s
      /\ a \in Seq(Slot)
  OBVIOUS
<1> HIDE DEF a, n
<1>2. KeysOf(a) = KeysOf(q) \cup {s.key}
  BY <1>1 DEF KeysOf
<1>3. ASSUME Injective(q), s.key \notin KeysOf(q) PROVE Injective(a)
  BY <1>1, <1>3 DEF Injective, KeysOf
<1> QED
  BY <1>1, <1>2, <1>3 DEF a

LEMMA TailLemma ==
  ASSUME NEW q \in Seq(Slot), q # <<>>, Injective(q)
  PROVE  /\ Head(q) \in Slot
         /\ Tail(q) \in Seq(Slot)
         /\ KeysOf(Tail(q)) = KeysOf(q) \ {Head(q).key}
         /\ Head(q).key \in KeysOf(q)
         /\ Injective(Tail(q))
<1> DEFINE tl == Tail(q)
           n == Len(q)
<1>1. /\ n \in Nat \ {0} /\ DOMAIN q = 1..n
      /\ tl \in Seq(Slot) /\ DOMAIN tl = 1..(n - 1)
      /\ \A i \in 1..(n - 1) : tl[i] = q[i + 1]
      /\ Head(q) = q[1] /\ q[1] \in Slot
  OBVIOUS
<1> HIDE DEF tl, n
<1>2. KeysOf(tl) \subseteq KeysOf(q) \ {Head(q).key}
  <2> SUFFICES ASSUME NEW i \in 1..(n - 1)
               PROVE  q[i + 1].key \in KeysOf(q) /\ q[i + 1].key # q[1].key
    BY <1>1 DEF KeysOf
  <2>1. i + 1 \in DOMAIN q /\ 1 \in DOMAIN q /\ i + 1 # 1
    BY <1>1
  <2> QED
    BY <2>1 DEF KeysOf, Injective
<1>3. KeysOf(q) \ {Head(q).key} \subseteq KeysOf(tl)
  <2> SUFFICES ASSUME NEW i \in 1..n, q[i].key # q[1].key
               PROVE  q[i].key \in KeysOf(tl)
    BY <1>1 DEF KeysOf
  <2>1. i - 1 \in 1..(n - 1) /\ tl[i - 1] = q[i]
    BY <1>1
  <2> QED
    BY <1>1, <2>1 DEF KeysOf
<1>4. Injective(tl)
  <2> SUFFICES ASSUME NEW i \in 1..(n - 1), NEW j \in 1..(n - 1),
                      q[i + 1].key = q[j + 1].key
               PROVE  i = j
    BY ZenonT(30), <1>1 DEF Injective
  <2>1. i + 1 \in DOMAIN q /\ j + 1 \in DOMAIN q
    BY <1>1
  <2>2. i + 1 = j + 1
    BY <2>1 DEF Injective
  <2> QED
    BY <2>2
<1>5. Head(q).key \in KeysOf(q)
  BY <1>1 DEF KeysOf
<1> QED
  BY <1>1, <1>2, <1>3, <1>4, <1>5 DEF tl

----------------------------------------------------------------------------
LEMMA CacheInvInit == CacheInit => CacheInv
<1> SUFFICES ASSUME CacheInit PROVE CacheInv
  OBVIOUS
<1>1. IsFiniteSet({}) /\ Cardinality({}) = 0
  BY FS_EmptySet
<1>2. <<>> \in Seq(Slot) /\ DOMAIN <<>> = {}
  OBVIOUS
<1>3. CacheShape
  BY <1>1, <1>2 DEF CacheInit, CacheShape
<1>4. OrderListsEntries
  BY <1>2 DEF CacheInit, OrderListsEntries
<1>5. ~ (0 > ByteBudget) /\ ~ (0 > EntryCapacity)
  BY CacheAssumption
<1>6. LimitInv
  BY <1>1, <1>5 DEF CacheInit, LimitInv, OverLimit
<1>7. SumInv
  BY SumOverEmpty DEF CacheInit, SumInv
<1> QED
  BY <1>3, <1>4, <1>6, <1>7 DEF CacheInv

\* The weights of what is cached, and what adding or dropping a key does to
\* the running byte count.
LEMMA BytesLemma ==
  ASSUME CacheInv
  PROVE  /\ bytes \in Nat
         /\ \A k \in entries : /\ bytes - Size[k] \in Nat
                               /\ bytes - Size[k] = SumOver(Size, entries \ {k})
         /\ \A k \in Keys \ entries :
              bytes + Size[k] = SumOver(Size, entries \cup {k})
<1> USE CacheAssumption
<1>1. /\ IsFiniteSet(entries) /\ bytes = SumOver(Size, entries)
      /\ \A k \in entries : Size[k] \in Nat
  BY DEF CacheInv, CacheShape, SumInv
<1>2. bytes \in Nat
  BY <1>1, SumOverType
<1>3. ASSUME NEW k \in entries
      PROVE  /\ bytes - Size[k] \in Nat
             /\ bytes - Size[k] = SumOver(Size, entries \ {k})
  <2> DEFINE rest == SumOver(Size, entries \ {k})
  <2>1. bytes = Size[k] + rest
    BY <1>1, SumOverRemove
  <2>2. rest \in Nat
    <3>1. IsFiniteSet(entries \ {k}) /\ \A j \in entries \ {k} : Size[j] \in Nat
      BY <1>1, FS_RemoveElement
    <3> QED
      BY <3>1, SumOverType
  <2> HIDE DEF rest
  <2>3. Size[k] \in Nat
    BY <1>1
  <2>4. bytes - Size[k] = rest
    BY <2>1, <2>2, <2>3
  <2> QED
    BY <2>2, <2>4 DEF rest
<1>4. ASSUME NEW k \in Keys \ entries
      PROVE  bytes + Size[k] = SumOver(Size, entries \cup {k})
  <2>1. Size[k] \in Nat
    OBVIOUS
  <2>2. SumOver(Size, entries \cup {k}) = SumOver(Size, entries) + Size[k]
    BY <1>1, <2>1, SumOverAdd
  <2> QED
    BY <1>1, <2>2
<1> QED
  BY <1>2, <1>3, <1>4

LEMMA CacheInvStep ==
  ASSUME CacheInv, [CacheNext]_cacheVars
  PROVE  CacheInv'
<1> USE CacheAssumption
<1>a. /\ CacheShape /\ SumInv /\ LimitInv
      /\ KeysOf(order) = entries /\ Injective(order)
  BY DEF CacheInv, OrderListsEntries, KeysOf, Injective
<1>b. SUFFICES CacheShape' /\ KeysOf(order') = entries' /\ Injective(order')
               /\ SumInv' /\ LimitInv'
  BY DEF CacheInv, OrderListsEntries, KeysOf, Injective
<1>1. ASSUME NEW k \in Keys, Hit(k) PROVE CacheInv'
  <2>1. order' \in Seq(Slot) /\ KeysOf(order') = entries' /\ Injective(order')
    BY <1>1, <1>a, VisitLemma DEF Hit, CacheShape
  <2> QED
    BY <1>1, <1>a, <2>1 DEF Hit, CacheShape, SumInv, LimitInv, OverLimit,
                           CacheInv, OrderListsEntries, KeysOf, Injective
<1>2. ASSUME NEW k \in Keys, Insert(k) PROVE CacheInv'
  <2>1. entries' \subseteq Keys /\ IsFiniteSet(entries')
    BY <1>2, <1>a, FS_AddElement DEF Insert, CacheShape
  <2>2. order' \in Seq(Slot) /\ KeysOf(order') = entries' /\ Injective(order')
    <3>1. CASE k \in entries
      BY <1>2, <3>1, <1>a, VisitLemma DEF Insert, CacheShape
    <3>2. CASE k \notin entries
      <4> DEFINE s == [key |-> k, visited |-> FALSE]
      <4>1. s \in Slot /\ s.key = k /\ order' = Append(order, s)
        BY <1>2, <3>2 DEF Insert, Slot
      <4> HIDE DEF s
      <4> QED
        BY <1>2, <3>2, <4>1, <1>a, AppendLemma DEF Insert, CacheShape
    <3> QED
      BY <3>1, <3>2
  <2>3. SumInv'
    <3>1. CASE k \in entries
      <4>1. entries' = entries /\ bytes' = bytes
        BY <1>2, <3>1 DEF Insert
      <4> QED
        BY <1>a, <4>1 DEF SumInv
    <3>2. CASE k \notin entries
      <4>1. entries' = entries \cup {k} /\ bytes' = bytes + Size[k]
        BY <1>2, <3>2 DEF Insert
      <4>2. bytes + Size[k] = SumOver(Size, entries \cup {k})
        BY <3>2, BytesLemma
      <4> QED
        BY <4>1, <4>2, Zenon DEF SumInv
    <3> QED
      BY <3>1, <3>2
  <2>4. LimitInv' /\ evicting' \in BOOLEAN
    BY <1>2 DEF Insert, LimitInv, OverLimit
  <2> QED
    BY <2>1, <2>2, <2>3, <2>4
       DEF CacheShape, CacheInv, OrderListsEntries, KeysOf, Injective
<1>3. ASSUME Evict PROVE CacheInv'
  <2> DEFINE h == Head(order)
             r == [h EXCEPT !.visited = FALSE]
  <2>1. /\ order \in Seq(Slot) /\ order # <<>>
        /\ h \in Slot /\ Tail(order) \in Seq(Slot)
        /\ KeysOf(Tail(order)) = entries \ {h.key}
        /\ h.key \in entries
        /\ Injective(Tail(order))
    BY <1>3, <1>a, TailLemma DEF Evict, CacheShape
  <2>2. r \in Slot /\ r.key = h.key
    BY <2>1 DEF Slot
  <2> HIDE DEF h, r
  <2>3. CASE h.visited
    <3>1. order' = Append(Tail(order), r) /\ entries' = entries /\ bytes' = bytes
      BY <1>3, <2>3 DEF Evict, h, r
    <3>2. order' \in Seq(Slot) /\ KeysOf(order') = entries' /\ Injective(order')
      <4>1. r.key \notin KeysOf(Tail(order))
        BY <2>1, <2>2
      <4>2. /\ Append(Tail(order), r) \in Seq(Slot)
            /\ KeysOf(Append(Tail(order), r)) = KeysOf(Tail(order)) \cup {r.key}
            /\ Injective(Append(Tail(order), r))
        BY <2>1, <2>2, <4>1, AppendLemma
      <4>3. (entries \ {h.key}) \cup {h.key} = entries
        BY <2>1
      <4> QED
        BY <2>1, <2>2, <3>1, <4>2, <4>3
    <3>3. LimitInv' /\ evicting' \in BOOLEAN
      BY <1>3, <3>1 DEF Evict, LimitInv, OverLimit
    <3>4. SumInv'
      BY <1>a, <3>1 DEF SumInv
    <3> QED
      BY <1>a, <3>1, <3>2, <3>3, <3>4
         DEF CacheShape, CacheInv, OrderListsEntries, KeysOf, Injective
  <2>4. CASE ~ h.visited
    <3>1. /\ order' = Tail(order) /\ entries' = entries \ {h.key}
          /\ bytes' = bytes - Size[h.key]
      BY <1>3, <2>4 DEF Evict, h
    <3>2. order' \in Seq(Slot) /\ KeysOf(order') = entries' /\ Injective(order')
      BY <2>1, <3>1
    <3>3. IsFiniteSet(entries') /\ entries' \subseteq Keys
      BY <1>a, <3>1, FS_RemoveElement DEF CacheShape
    <3>4. SumInv'
      <4>1. bytes - Size[h.key] = SumOver(Size, entries \ {h.key})
        BY <2>1, BytesLemma
      <4> QED
        BY <3>1, <4>1, Zenon DEF SumInv
    <3>5. LimitInv' /\ evicting' \in BOOLEAN
      BY <1>3 DEF Evict, LimitInv, OverLimit
    <3> QED
      BY <3>2, <3>3, <3>4, <3>5
         DEF CacheShape, CacheInv, OrderListsEntries, KeysOf, Injective
  <2> QED
    BY <2>3, <2>4
<1>4. ASSUME UNCHANGED cacheVars PROVE CacheInv'
  BY <1>4 DEF cacheVars, CacheInv, CacheShape, OrderListsEntries, SumInv,
              LimitInv, OverLimit
<1> QED
  BY <1>1, <1>2, <1>3, <1>4
     DEF CacheNext, Miss, Bypass, CacheInv, OrderListsEntries, KeysOf, Injective

\* What the invariant says of the state between two steps.
LEMMA CacheInvImplies ==
  ASSUME CacheInv
  PROVE  CacheTypeOK /\ OrderListsEntries /\ BytesAreSum /\ WithinBounds
<1>1. CacheTypeOK
  BY BytesLemma DEF CacheInv, CacheShape, CacheTypeOK, Slot
<1>2. OrderListsEntries
  BY DEF CacheInv
<1>3. BytesAreSum
  BY DEF CacheInv, SumInv, BytesAreSum, SumOver
<1>4. WithinBounds
  <2> SUFFICES ASSUME ~ evicting
               PROVE  bytes <= ByteBudget /\ Cardinality(entries) <= EntryCapacity
    BY DEF WithinBounds
  <2>1. Cardinality(entries) \in Nat /\ bytes \in Nat
    BY FS_CardinalityType, BytesLemma DEF CacheInv, CacheShape
  <2>2. ~ (bytes > ByteBudget) /\ ~ (Cardinality(entries) > EntryCapacity)
    BY DEF CacheInv, LimitInv, OverLimit
  <2> QED
    BY <2>1, <2>2, CacheAssumption
<1> QED
  BY <1>1, <1>2, <1>3, <1>4

\* Whatever is hit, inserted again or evicted, in any order, every cached key
\* is queued exactly once (get, insert_entry and evict_until_fits keep the
\* map and the queue in step).
THEOREM QueueMatchesMap == CacheSpec => []OrderListsEntries
BY CacheInvInit, CacheInvStep, CacheInvImplies, PTL DEF CacheSpec

\* Both bounds of the cache hold whenever its mutex is free.
THEOREM BoundsHold == CacheSpec => []WithinBounds
BY CacheInvInit, CacheInvStep, CacheInvImplies, PTL DEF CacheSpec

\* The running byte count is the size of what is cached after any sequence of
\* inserts, hits and evictions, so `bytes -= len` never underflows.
THEOREM ByteCountIsExact == CacheSpec => [](CacheTypeOK /\ BytesAreSum)
BY CacheInvInit, CacheInvStep, CacheInvImplies, PTL DEF CacheSpec

\* evict_until_fits never runs out of queue: while the cache is over one of
\* its bounds there is an entry to look at, so the loop ends because the
\* cache fits and not because order is empty.
THEOREM EvictionHasACandidate == CacheSpec => [](evicting => order # <<>>)
<1>1. CacheInv /\ [CacheNext]_cacheVars => CacheInv'
  BY CacheInvStep
<1>2. CacheInv => (evicting => order # <<>>)
  <2> SUFFICES ASSUME CacheInv, evicting, order = <<>> PROVE FALSE
    OBVIOUS
  <2>1. entries = {}
    BY DEF CacheInv, OrderListsEntries
  <2>2. bytes = 0 /\ Cardinality(entries) = 0
    BY <2>1, SumOverEmpty, FS_EmptySet DEF CacheInv, SumInv
  <2> QED
    BY <2>2, CacheAssumption DEF CacheInv, LimitInv, OverLimit
<1> QED
  BY CacheInvInit, <1>1, <1>2, PTL DEF CacheSpec
============================================================================
