----------------------------- MODULE PagedSlab -----------------------------
(***************************************************************************)
(* Slabs read a page at a time over a locator (paged_slab.rs,               *)
(* slab_source.rs).  PagedBytes keeps the object's length, unknown at       *)
(* first, and an LRU of pages; threads share it and hold its lock only to   *)
(* look pages up and to insert them, so other reads run while one waits for *)
(* the network.  A PagedSlabSet opens its slabs one after another (header,  *)
(* then one record at a time), pins each length and only then serves drops. *)
(* In mode "raw" the threads share one PagedBytes whose length is unknown.  *)
(*                                                                          *)
(* Byte n of a slab is any value that tells it from the others; what the    *)
(* header and the records say is in Slabs.                                  *)
(***************************************************************************)
EXTENDS Locators, FiniteSets, SequencesExt

CONSTANTS
    Threads, Opener,     \* reading threads; Opener, one of them, runs PagedSlabSet::open
    PAGED_PAGE_SIZE, CachePages, SLAB_HEADER_LEN, DROP_RECORD_LEN,
    Slabs,               \* ordinal -> [total, records]; a record is [id, off, len, readable, dict]
    Contents,            \* ordinal -> the slab's bytes
    Dictionaries,        \* the dictionary ids of set_dictionaries
    Transports,          \* [locs, multi, uri]
    RawReads,            \* offsets and lengths read in mode "raw"
    Modes,               \* subset of {"raw", "set"}
    MaxReads, MaxFaults  \* bounds: reads per thread, replies that are lost, cut or refused

Ordinals == 1..Len(Slabs)

\* SlabRecordTable::solid_window_start
WindowStart(o) == SLAB_HEADER_LEN + Len(Slabs[o].records) * DROP_RECORD_LEN

\* window_len_sum after n records.
WindowLenSum(o) ==
    LET sum[n \in 0..Len(Slabs[o].records)] == IF n = 0 THEN 0 ELSE sum[n - 1] + Slabs[o].records[n].len IN sum

\* The slabs are as encode_slab writes them: the records, then a window that the records' payloads fill.  No object
\* and no plain read reaches into the last page below 2^64, where the end of a page is not a u64.
ASSUME PagedAssumption ==
    /\ MaxU64 \in Nat /\ CachePages \in Nat
    /\ PAGED_PAGE_SIZE \in Nat \ {0} /\ SLAB_HEADER_LEN \in Nat \ {0} /\ DROP_RECORD_LEN \in Nat \ {0}
    /\ Len(Slabs) \in Nat \ {0} /\ Modes \subseteq {"raw", "set"}
    /\ CutPoints \subseteq Nat /\ \A tr \in Transports : tr.multi \/ tr.locs # <<>>
    /\ \A o \in Ordinals :
        /\ Contents[o] \in Seq(ToSet(Contents[o])) /\ Len(Contents[o]) + PAGED_PAGE_SIZE <= MaxU64
        /\ Slabs[o].total = Len(Contents[o])
        /\ Len(Slabs[o].records) \in Nat
        /\ Slabs[o].total = WindowStart(o) + WindowLenSum(o)[Len(Slabs[o].records)]
        /\ \A k \in 1..Len(Slabs[o].records) :
            LET r == Slabs[o].records[k] IN
            r.off \in Nat /\ r.len \in Nat /\ WindowStart(o) + r.off + r.len <= Slabs[o].total
    /\ RawReads \subseteq Nat \X Nat
    /\ \A q \in RawReads : q[1] + q[2] + PAGED_PAGE_SIZE <= MaxU64 \/ q[1] + q[2] > MaxU64

VARIABLES mode, transport, len, cache, opened, thread, reads, faults, cuts

vars == <<mode, transport, len, cache, opened, thread, reads, faults, cuts>>

UNKNOWN_LEN == MaxU64
NO_DICT == 255
Missing == <<>>   \* a page that is present has at least one byte

----------------------------------------------------------------------------
(* PageCache: pairs <<index, bytes>>, least recently used first.            *)

PositionsOf(c, index) == {k \in 1..Len(c) : c[k][1] = index}

PositionOf(c, index) == CHOOSE k \in PositionsOf(c, index) : TRUE

CacheGet(c, index) ==
    IF PositionsOf(c, index) = {} THEN c
    ELSE Append(RemoveAt(c, PositionOf(c, index)), c[PositionOf(c, index)])

\* The while loop of insert: the cache is one page over its capacity at most.
Evict(c) == IF Len(c) > CachePages THEN Tail(c) ELSE c

CacheInsert(c, index, bytes) ==
    LET others == IF PositionsOf(c, index) = {} THEN c ELSE RemoveAt(c, PositionOf(c, index))
    IN Evict(Append(others, <<index, bytes>>))

PageIn(c, index) == IF PositionsOf(c, index) = {} THEN Missing ELSE c[PositionOf(c, index)][2]

\* LRU order after looking up first..last.
Touch(c, first, last) == FoldLeft(CacheGet, c, [k \in 1..(last - first + 1) |-> first + k - 1])

\* The first n of pages are inserted, from index on.
InsertAll(c, index, pages, n) ==
    FoldLeft(LAMBDA x, j : CacheInsert(x, index + j - 1, pages[j]), c, [j \in 1..n |-> j])

----------------------------------------------------------------------------
(* The records of a slab and what a thread does with the bytes it reads.     *)

\* parse_slab_record_table's loop after n records.
TableStep(o, n) ==
    LET pos == SLAB_HEADER_LEN + n * DROP_RECORD_LEN
        left == Slabs[o].total - pos
        sum == WindowLenSum(o)[n]
    IN IF left < sum \/ (left # sum /\ left - sum < DROP_RECORD_LEN) THEN "corrupt"
       ELSE IF left = sum THEN "complete" ELSE "record"

\* drop_index: a later slab replaces an earlier one.
HoldersOf(id) == {o \in 1..opened : \E k \in 1..Len(Slabs[o].records) : Slabs[o].records[k].id = id}

find_record(o, id) ==
    LET ks == {k \in 1..Len(Slabs[o].records) : Slabs[o].records[k].id = id}
    IN Slabs[o].records[CHOOSE k \in ks : \A j \in ks : k <= j]

DropIds == UNION {{Slabs[o].records[k].id : k \in 1..Len(Slabs[o].records)} : o \in Ordinals}

\* check_drop_readable and decode_drop_bytes
Decodable(r) == r.readable /\ (r.dict = NO_DICT \/ r.dict \in Dictionaries)

----------------------------------------------------------------------------
(* A thread: the operation it is in (op), its result, and read_at's locals:  *)
(* the pages, the slot the scan is at, and of the run that is being fetched  *)
(* its first slot k, its offset, the length asked for and the answer.        *)

Idle == [pc |-> "idle", op |-> <<"none">>, res |-> Ok(<<>>), slab |-> 1, offset |-> 0, end |-> 0, first |-> 0,
         pages |-> <<>>, at |-> 1, k |-> 0, fetch |-> 0, expected |-> 0, bytes |-> <<>>]

Init ==
    /\ mode \in Modes
    /\ transport \in Transports
    /\ len = [o \in Ordinals |-> UNKNOWN_LEN]
    /\ cache = [o \in Ordinals |-> <<>>]
    /\ opened = 0
    /\ thread = [t \in Threads |-> Idle]
    /\ reads = [t \in Threads |-> 0]
    /\ faults = 0
    /\ cuts = FALSE

\* PagedBytes::len
KnownLen(o, n) == IF len[o] = UNKNOWN_LEN THEN n ELSE Least(n, len[o])

\* A thread that has its answer.
Done(op, res) == [Idle EXCEPT !.op = op, !.res = res]

Panic == [ok |-> FALSE, bytes |-> <<-2>>]

\* The first half of PagedBytes::read_at: the range is clamped to the length known now.
ReadAt(op, o, offset, n) ==
    LET end == KnownLen(o, offset + n) IN
    IF offset + n > MaxU64 THEN Done(op, Err)
    ELSE IF n = 0 \/ end <= offset
    THEN [Idle EXCEPT !.pc = "assemble", !.op = op, !.slab = o, !.offset = offset, !.end = offset]
    ELSE [Idle EXCEPT !.pc = "collect", !.op = op, !.slab = o, !.offset = offset, !.end = end,
              !.first = offset \div PAGED_PAGE_SIZE,
              !.pages = [k \in 1..((end - 1) \div PAGED_PAGE_SIZE - offset \div PAGED_PAGE_SIZE + 1) |-> Missing]]

\* PagedBytes::read_at on a shared PagedBytes.
RawRead(t) ==
    /\ mode = "raw" /\ thread[t].pc = "idle" /\ reads[t] < MaxReads
    /\ \E q \in RawReads : thread' = [thread EXCEPT ![t] = ReadAt(<<"raw", q[1], q[2]>>, 1, q[1], q[2])]
    /\ reads' = [reads EXCEPT ![t] = @ + 1]
    /\ UNCHANGED <<mode, transport, len, cache, opened, faults, cuts>>

\* PagedSlabSet::open: the next slab's header.
OpenSlab(t) ==
    /\ mode = "set" /\ t = Opener /\ thread[t].pc = "idle" /\ opened < Len(Slabs)
    /\ thread[t].op[1] \in {"none", "opened"}
    /\ thread' = [thread EXCEPT ![t] = ReadAt(<<"header">>, opened + 1, 0, SLAB_HEADER_LEN)]
    /\ UNCHANGED <<mode, transport, len, cache, opened, reads, faults, cuts>>

\* PagedSlabSet::plaintext_for; the range form cuts the plaintext (SlabSource::decoded_range_into).
ReadDrop(t) ==
    /\ mode = "set" /\ opened = Len(Slabs) /\ thread[t].pc = "idle" /\ reads[t] < MaxReads
    /\ \E id \in DropIds :
        LET o == CHOOSE x \in HoldersOf(id) : \A y \in HoldersOf(id) : y <= x
            r == find_record(o, id)
            start == WindowStart(o) + r.off
            op == <<"drop", id>>
        IN thread' = [thread EXCEPT ![t] =
                IF ~r.readable \/ start + r.len > Slabs[o].total THEN Done(op, Err) ELSE ReadAt(op, o, start, r.len)]
    /\ reads' = [reads EXCEPT ![t] = @ + 1]
    /\ UNCHANGED <<mode, transport, len, cache, opened, faults, cuts>>

\* The cached pages of the range, under the lock.
Collect(t) ==
    LET th == thread[t]
        last == th.first + Len(th.pages) - 1
    IN /\ th.pc = "collect"
       /\ thread' = [thread EXCEPT ![t] =
            [th EXCEPT !.pc = "request",
                !.pages = [k \in DOMAIN th.pages |-> PageIn(cache[th.slab], th.first + k - 1)]]]
       /\ cache' = [cache EXCEPT ![th.slab] = Touch(@, th.first, last)]
       /\ UNCHANGED <<mode, transport, len, opened, reads, faults, cuts>>

\* The next run of missing pages not asked for yet.
RunStart(pages, from) == LET ks == {k \in from..Len(pages) : pages[k] = Missing} IN
    IF ks = {} THEN 0 ELSE CHOOSE k \in ks : \A j \in ks : k <= j

RunEnd(pages, k) == CHOOSE e \in k..Len(pages) :
    (\A j \in k..e : pages[j] = Missing) /\ (e < Len(pages) => pages[e + 1] # Missing)

\* The length is looked at again.  When another thread has learned a length before the run since the read began,
\* fetch_end - fetch_offset underflows: a panic with overflow checks, 2^64 less without.
Request(t) ==
    LET th == thread[t]
        k == RunStart(th.pages, th.at)
        e == RunEnd(th.pages, k)
        fetch_offset == (th.first + k - 1) * PAGED_PAGE_SIZE
        fetch_end == KnownLen(th.slab, (th.first + e) * PAGED_PAGE_SIZE)
        Asks(n) == [th EXCEPT !.pc = "reply", !.k = k, !.at = e + 1, !.fetch = fetch_offset, !.expected = n]
    IN /\ th.pc = "request"
       /\ IF k = 0 THEN thread' = [thread EXCEPT ![t] = [th EXCEPT !.pc = "assemble"]]
          ELSE \/ thread' = [thread EXCEPT ![t] = Asks((fetch_end - fetch_offset) % (MaxU64 + 1))]
               \/ /\ fetch_end < fetch_offset
                  /\ thread' = [thread EXCEPT ![t] = Done(th.op, Panic)]
       /\ UNCHANGED <<mode, transport, len, cache, opened, reads, faults, cuts>>

\* The transport speaks HTTP to a server it can name.
Remote ==
    LET loc == IF transport.multi THEN Registered(transport.locs, transport.uri) ELSE transport.locs
    IN loc # <<>> /\ UsesHttp(loc[1]) /\ parse_http_url(HttpUri(loc[1], transport.uri))

Reachable ==
    LET loc == IF transport.multi THEN Registered(transport.locs, transport.uri) ELSE transport.locs
    IN loc # <<>> /\ (Remote \/ (~UsesHttp(loc[1]) /\ resolve(transport.uri)))

\* The reader's answer for the run, and what is learned from its length.
Reply(t) ==
    LET th == thread[t]
        data == Contents[th.slab]
        range == IF transport.multi THEN NoRange ELSE RangeHeader(th.fetch, th.expected)
        Answer(r) ==
            IF transport.multi THEN multi_fetch_range(transport.locs, transport.uri, data, th.fetch, th.expected, r)
            ELSE fetch_range(transport.locs[1], transport.uri, data, th.fetch, th.expected, r)
        short(a) == Len(a.bytes) < th.expected
    IN /\ th.pc = "reply"
       /\ \E faulty \in BOOLEAN : \E r \in Responses(data, range, faulty) :
            /\ faulty => Remote /\ faults < MaxFaults
            /\ faults' = IF faulty THEN faults + 1 ELSE faults
            /\ cuts' = (cuts \/ (~Whole(r) /\ r.frame = "close"))
            /\ LET a == Answer(r) IN
               /\ thread' = [thread EXCEPT ![t] =
                    IF ~a.ok \/ Len(a.bytes) > th.expected THEN Done(th.op, Err)
                    ELSE [th EXCEPT !.pc = "insert", !.bytes = a.bytes]]
               /\ len' = [len EXCEPT ![th.slab] =
                    IF a.ok /\ short(a) /\ @ = UNKNOWN_LEN THEN th.fetch + Len(a.bytes) ELSE @]
       /\ UNCHANGED <<mode, transport, cache, opened, reads>>

\* bytes.chunks(PAGED_PAGE_SIZE)
Chunks(bytes) ==
    [j \in 1..((Len(bytes) + PAGED_PAGE_SIZE - 1) \div PAGED_PAGE_SIZE) |->
        SubSeq(bytes, (j - 1) * PAGED_PAGE_SIZE + 1, Least(j * PAGED_PAGE_SIZE, Len(bytes)))]

\* The state after the pages of an answer are stored; "at" is the slot the loop goes on with.  An answer to a length
\* that wrapped around may have more pages than the read has slots: the first of them goes to the cache, and
\* pages[run_start + j] panics.
StorePages(t, at) ==
    LET th == thread[t]
        pages == Chunks(th.bytes)
        room == Len(th.pages) - th.k + 1
    IN /\ th.pc = "insert"
       /\ cache' = [cache EXCEPT ![th.slab] =
            InsertAll(@, th.first + th.k - 1, pages, Least(Len(pages), room + 1))]
       /\ thread' = [thread EXCEPT ![t] =
            IF Len(pages) > room THEN Done(th.op, Panic)
            ELSE [th EXCEPT !.pc = "request", !.at = at, !.k = 0, !.fetch = 0, !.expected = 0, !.bytes = <<>>,
                    !.pages = [j \in DOMAIN th.pages |->
                        IF j \in th.k..(th.k + Len(pages) - 1) THEN pages[j - th.k + 1] ELSE th.pages[j]]]]
       /\ UNCHANGED <<mode, transport, len, opened, reads, faults, cuts>>

\* Mutant: after an answer the scan for missing pages starts over.
InsertPagesRescan(t) == StorePages(t, 1)

\* The answer becomes pages of the cache and of the read, under the lock.
InsertPages(t) == StorePages(t, thread[t].at)

\* Where the bytes end that the pages give: at the first gap or short page, or at the end of the range.
Reached(th) ==
    LET Start(k) == (th.first + k - 1) * PAGED_PAGE_SIZE
        short == {k \in 1..Len(th.pages) : Len(th.pages[k]) < Least(th.end, Start(k + 1)) - Start(k)}
        k0 == CHOOSE k \in short : \A j \in short : k <= j
    IN IF short = {} THEN th.end ELSE Start(k0) + Len(th.pages[k0])

Assembled(th) ==
    [i \in 1..(Reached(th) - th.offset) |->
        LET p == th.offset + i - 1
            index == p \div PAGED_PAGE_SIZE
        IN th.pages[index - th.first + 1][p - index * PAGED_PAGE_SIZE + 1]]

\* The end of read_at, and what its caller does with the bytes.
Assemble(t) ==
    LET th == thread[t]
        out == Assembled(th)
        o == th.slab
        \* parse_slab_record_table: the next record, or the table is complete and its length pinned.
        NextRecord(n) ==
            CASE TableStep(o, n) = "record" ->
                    thread' = [thread EXCEPT ![t] =
                        ReadAt(<<"record", n + 1>>, o, SLAB_HEADER_LEN + n * DROP_RECORD_LEN, DROP_RECORD_LEN)]
                    /\ UNCHANGED <<len, opened>>
              [] TableStep(o, n) = "complete" ->
                    /\ thread' = [thread EXCEPT ![t] = Done(<<"opened">>, Ok(<<>>))]
                    /\ len' = [len EXCEPT ![o] = Slabs[o].total]
                    /\ opened' = o
              [] OTHER -> thread' = [thread EXCEPT ![t] = Done(<<"failed">>, Err)] /\ UNCHANGED <<len, opened>>
        Fails == thread' = [thread EXCEPT ![t] = Done(<<"failed">>, Err)] /\ UNCHANGED <<len, opened>>
        Returns(a) == thread' = [thread EXCEPT ![t] = Done(th.op, a)] /\ UNCHANGED <<len, opened>>
    IN /\ th.pc = "assemble"
       /\ CASE th.op[1] = "raw" -> Returns(Ok(out))
            [] th.op[1] = "header" -> IF Len(out) = SLAB_HEADER_LEN THEN NextRecord(0) ELSE Fails
            [] th.op[1] = "record" -> IF Len(out) = DROP_RECORD_LEN THEN NextRecord(th.op[2]) ELSE Fails
            [] th.op[1] = "drop" ->
                  LET r == find_record(o, th.op[2])
                  IN Returns(IF Len(out) = r.len /\ Decodable(r) THEN Ok(out) ELSE Err)
       /\ UNCHANGED <<mode, transport, cache, reads, faults, cuts>>

Step(t) == Collect(t) \/ Request(t) \/ Reply(t) \/ InsertPages(t) \/ Assemble(t)

Next == \E t \in Threads : RawRead(t) \/ OpenSlab(t) \/ ReadDrop(t) \/ Step(t)

\* A thread in a read keeps going, and a request ends in an answer or a timeout (HTTP_TIMEOUT).
Spec == Init /\ [][Next]_vars /\ \A t \in Threads : WF_vars(Step(t))
----------------------------------------------------------------------------
\* A paged read gives the bytes that reading the whole object gives: a drop is exact or an error, a plain read is
\* short only at the object's end or after an uncounted reply was cut, and neither fails while the network works and
\* the range is inside the object (PagedBytes::read_at, PagedSlabSet::plaintext_for).
PagedReadIsExact ==
    \A t \in Threads : thread[t].pc = "idle" =>
        LET op == thread[t].op
            res == thread[t].res
        IN /\ op[1] = "raw" =>
                LET exact == ClampedSlice(Contents[1], op[2], op[3]) IN
                /\ res.ok => res.bytes = exact \/ (cuts /\ IsPrefix(res.bytes, exact))
                /\ ~res.ok => faults > 0 \/ ~Reachable \/ op[2] + op[3] > Len(Contents[1])
           /\ op[1] = "drop" =>
                \E o \in Ordinals :
                    /\ \E k \in 1..Len(Slabs[o].records) : Slabs[o].records[k].id = op[2]
                    /\ LET r == find_record(o, op[2]) IN
                       /\ res.ok => Decodable(r) /\ res.bytes = ClampedSlice(Contents[o], WindowStart(o) + r.off, r.len)
                       /\ ~res.ok => faults > 0 \/ ~Decodable(r)
           /\ op[1] = "failed" => faults > 0 \/ ~Reachable

\* Whatever the threads interleave, the cache holds at most its capacity, each page once and with the object's bytes,
\* no short page but the last, and the length is the object's or, learned past its end, more: only a cut, uncounted
\* reply leaves a short page or a short length behind (PageCache, learn_len, read_response).
CacheHoldsTheSlab ==
    \A o \in Ordinals :
        LET size == Len(Contents[o])
            page(i) == ClampedSlice(Contents[o], i * PAGED_PAGE_SIZE, PAGED_PAGE_SIZE)
        IN /\ Len(cache[o]) <= CachePages
           /\ \A j, k \in 1..Len(cache[o]) : cache[o][j][1] = cache[o][k][1] => j = k
           /\ \A k \in 1..Len(cache[o]) :
                IF cuts THEN IsPrefix(cache[o][k][2], page(cache[o][k][1])) ELSE cache[o][k][2] = page(cache[o][k][1])
           /\ \/ len[o] \in {UNKNOWN_LEN, size}
              \/ cuts /\ len[o] < size
              \/ mode = "raw" /\ len[o] > size   \* learned from an empty answer past the end

\* A read that starts returns, whatever the other threads do and however the server fails (paged_slab.rs read_at).
EveryPagedReadReturns == \A t \in Threads : thread[t].pc # "idle" ~> thread[t].pc = "idle"
=============================================================================
