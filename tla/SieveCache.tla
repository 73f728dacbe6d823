---------------------------- MODULE SieveCache ----------------------------
(***************************************************************************)
(* The SIEVE cache of limnifs-core/src/slab_cache.rs: a map from keys to   *)
(* decoded plaintexts and a FIFO of the keys with a visited bit each,      *)
(* bounded by a number of entries and by a number of bytes.                *)
(*                                                                         *)
(* A cache lives behind a mutex.  get and insert are one step each, taken  *)
(* when the mutex is free; an insert that leaves the cache over its bounds *)
(* keeps the mutex while evict_until_fits runs, one step per iteration.    *)
(* The values are content-addressed, so a key determines its value and the *)
(* value's size; the hit/miss counters are left out.                       *)
(***************************************************************************)
EXTENDS Naturals, Sequences, FiniteSets, FiniteSetsExt

CONSTANTS
  Keys,
  Size,            \* Size[k]: bytes of k's plaintext
  EntryCapacity,
  ByteBudget

ASSUME CacheAssumption ==
  /\ Size \in [Keys -> Nat]
  /\ EntryCapacity \in Nat \ {0}     \* SieveCache::new: entry_capacity.max(1)
  /\ ByteBudget \in Nat

VARIABLES
  entries,    \* the keys of the map
  order,      \* front = oldest; [key, visited]
  bytes,
  evicting    \* an insert holds the mutex and has not finished evicting

cacheVars == <<entries, order, bytes, evicting>>

CacheInit ==
  /\ entries = {}
  /\ order = <<>>
  /\ bytes = 0
  /\ evicting = FALSE

----------------------------------------------------------------------------
\* The order with k's visited bit set.
Visit(k) ==
  [i \in DOMAIN order |->
     IF order[i].key = k THEN [order[i] EXCEPT !.visited = TRUE] ELSE order[i]]

OverLimit(e, b) == b > ByteBudget \/ Cardinality(e) > EntryCapacity

Hit(k) ==
  /\ ~ evicting
  /\ k \in entries
  /\ order' = Visit(k)
  /\ UNCHANGED <<entries, bytes, evicting>>

Miss(k) ==
  /\ ~ evicting
  /\ k \notin entries
  /\ UNCHANGED cacheVars

\* Faulty: a key that is present (two readers missed on it together) is
\* queued a second time.
InsertAlwaysQueues(k) ==
  /\ ~ evicting
  /\ Size[k] <= ByteBudget
  /\ entries' = entries \cup {k}
  /\ order' = Append(order, [key |-> k, visited |-> FALSE])
  /\ bytes' = IF k \in entries THEN bytes ELSE bytes + Size[k]
  /\ evicting' = OverLimit(entries', bytes')

Insert(k) ==
  /\ ~ evicting
  /\ Size[k] <= ByteBudget
  /\ entries' = entries \cup {k}
  /\ IF k \in entries
     THEN order' = Visit(k) /\ bytes' = bytes
     ELSE /\ order' = Append(order, [key |-> k, visited |-> FALSE])
          /\ bytes' = bytes + Size[k]
  /\ evicting' = OverLimit(entries', bytes')

\* A value larger than the whole budget never enters.
Bypass(k) ==
  /\ ~ evicting
  /\ Size[k] > ByteBudget
  /\ UNCHANGED cacheVars

\* Faulty: the branches are swapped.
EvictSwapped ==
  /\ evicting
  /\ order # <<>>
  /\ IF Head(order).visited
     THEN /\ order' = Tail(order)
          /\ entries' = entries \ {Head(order).key}
          /\ bytes' = bytes - Size[Head(order).key]
     ELSE /\ order' = Append(Tail(order), [Head(order) EXCEPT !.visited = FALSE])
          /\ UNCHANGED <<entries, bytes>>
  /\ evicting' = OverLimit(entries', bytes')

\* One iteration of evict_until_fits.
Evict ==
  /\ evicting
  /\ order # <<>>
  /\ IF Head(order).visited
     THEN /\ order' = Append(Tail(order), [Head(order) EXCEPT !.visited = FALSE])
          /\ UNCHANGED <<entries, bytes>>
     ELSE /\ order' = Tail(order)
          /\ entries' = entries \ {Head(order).key}
          /\ bytes' = bytes - Size[Head(order).key]
  /\ evicting' = OverLimit(entries', bytes')

CacheNext ==
  \/ \E k \in Keys : Hit(k) \/ Miss(k) \/ Insert(k) \/ Bypass(k)
  \/ Evict

CacheSpec == CacheInit /\ [][CacheNext]_cacheVars

----------------------------------------------------------------------------
CacheTypeOK ==
  /\ entries \subseteq Keys
  /\ order \in Seq([key: Keys, visited: BOOLEAN])
  /\ bytes \in Nat
  /\ evicting \in BOOLEAN

\* Every cached key is queued exactly once and nothing else is: the two
\* structures of SieveCache that get, insert_entry and evict_until_fits
\* update separately stay in step.
OrderListsEntries ==
  /\ {order[i].key : i \in DOMAIN order} = entries
  /\ \A i, j \in DOMAIN order : order[i].key = order[j].key => i = j

\* The running byte count is the size of what is cached, so `bytes -= len`
\* cannot underflow and evict_until_fits cannot run out of queue.
BytesAreSum == bytes = MapThenSumSet(LAMBDA k : Size[k], entries)

\* When the mutex is free both bounds hold.
WithinBounds ==
  ~ evicting => bytes <= ByteBudget /\ Cardinality(entries) <= EntryCapacity
============================================================================
