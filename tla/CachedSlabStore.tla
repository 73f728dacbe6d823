-------------------------- MODULE CachedSlabStore --------------------------
(***************************************************************************)
(* The read path of limnifs-core: threads that share one CachedSlabStore   *)
(* (slab_cache.rs) and read whole drops, ranges of drops, and windows of   *)
(* files (read.rs), seekable drops frame by frame (seekable.rs).           *)
(*                                                                         *)
(* The keys of the extended SieveCache are the drops of the image; the     *)
(* frame cache of seekable drops is a second instance.  Decompression runs *)
(* outside both mutexes, so other threads' steps fall between a miss and   *)
(* the insert that follows it.  Byte k of drop d is the pair <<d, k>>, so  *)
(* that a read of a wrong byte is told from a read of the right one.       *)
(* The footer memo and the counters change no result and are left out, and *)
(* so are drops that do not decode or are in no slab.                      *)
(***************************************************************************)
EXTENDS SieveCache

CONSTANTS
  Threads,
  FrameLens,        \* FrameLens[d]: frame lengths of a seekable d, else <<>>
  FrameCapacity,    \* entries of the frame cache
  FrameBudget,      \* bytes of the frame cache
  Files,            \* slice maps: sequences of drops
  Offsets, Wants,   \* arguments of ranged reads
  MaxCalls          \* bound: calls per thread

Drops == Keys

ASSUME StoreAssumption ==
  /\ FrameLens \in [Drops -> Seq(Nat \ {0})]
  /\ FrameCapacity \in Nat \ {0}
  /\ FrameBudget \in Nat
  /\ Files \subseteq Seq(Drops)
  /\ Offsets \subseteq Nat /\ Wants \subseteq Nat
  /\ MaxCalls \in Nat

Seekable(d) == FrameLens[d] # <<>>

FrameKeys == UNION {{<<d, i>> : i \in DOMAIN FrameLens[d]} : d \in Drops}

VARIABLES
  fentries, forder, fbytes, fevicting,   \* the frame cache
  th,       \* th[t]: what thread t is doing
  calls     \* calls started by each thread

frameVars == <<fentries, forder, fbytes, fevicting>>
storeVars == <<cacheVars, frameVars, th, calls>>

F == INSTANCE SieveCache WITH
       Keys <- FrameKeys,
       Size <- [k \in FrameKeys |-> FrameLens[k[1]][k[2]]],
       EntryCapacity <- FrameCapacity, ByteBudget <- FrameBudget,
       entries <- fentries, order <- forder, bytes <- fbytes,
       evicting <- fevicting

----------------------------------------------------------------------------
Smaller(a, b) == IF a < b THEN a ELSE b
Larger(a, b)  == IF a < b THEN b ELSE a
SatSub(a, b)  == IF a < b THEN 0 ELSE a - b

\* decode_drop: the whole plaintext.
Plaintext(d) == [k \in 1..Size[d] |-> <<d, k>>]

Slice(s, from, to) == SubSeq(s, from + 1, to)

\* SeekFooter.starts: the offset at which each frame begins, then the total.
Starts(d) ==
  LET n == Len(FrameLens[d])
      start[i \in 1..(n + 1)] ==
        IF i = 1 THEN 0 ELSE start[i - 1] + FrameLens[d][i - 1]
  IN  start

TotalUncomp(d) == Starts(d)[Len(FrameLens[d]) + 1]

\* encode_seekable cuts the whole plaintext into frames.
ASSUME FramesAssumption ==
  \A d \in Drops : Seekable(d) => TotalUncomp(d) = Size[d]

\* partition_point over the starts (frames are numbered from 1).
FrameContaining(d, off) ==
  Cardinality({i \in DOMAIN Starts(d) : Starts(d)[i] <= off})

\* The bytes frame i of d decompresses to.
FramePlaintext(d, i) ==
  [k \in 1..FrameLens[d][i] |-> <<d, Starts(d)[i] + k>>]

\* file_byte_end of slice s (file_byte_start of the next).
SliceEnd(file) ==
  LET end[s \in 0..Len(file)] ==
        IF s = 0 THEN 0 ELSE end[s - 1] + Size[file[s]]
  IN  end

----------------------------------------------------------------------------
(* Calls.  `drop`, `off`, `want` are the ranged read in progress; a window *)
(* read goes through the slices `slice` of `file` and collects in `out`.   *)

Idle == [pc |-> "idle", kind |-> "none", file |-> <<>>, slice |-> 0,
         woff |-> 0, wlen |-> 0, drop |-> CHOOSE d \in Drops : TRUE,
         off |-> 0, want |-> 0, frame |-> 0, got |-> <<>>, out |-> <<>>,
         ok |-> TRUE]

StoreInit ==
  /\ CacheInit
  /\ F!CacheInit
  /\ th = [t \in Threads |-> Idle]
  /\ calls = [t \in Threads |-> 0]

Set(t, rec) == th' = [th EXCEPT ![t] = rec]

Call(t, rec) ==
  /\ th[t].pc \in {"idle", "done"}
  /\ calls[t] < MaxCalls
  /\ calls' = [calls EXCEPT ![t] = @ + 1]
  /\ Set(t, rec)
  /\ UNCHANGED <<cacheVars, frameVars>>

\* CachedSlabStore::decoded
CallDecoded(t, d) ==
  Call(t, [Idle EXCEPT !.pc = "lookup", !.kind = "decoded", !.drop = d])

\* CachedSlabStore::plaintext_for goes straight to decoded_fetch_insert.
CallPlaintext(t, d) ==
  Call(t, [Idle EXCEPT !.pc = "decode", !.kind = "plaintext", !.drop = d])

\* CachedSlabStore::decoded_range
CallRange(t, d, off, len) ==
  Call(t, [Idle EXCEPT !.pc = "lookup", !.kind = "range", !.drop = d,
                       !.off = off, !.want = len])

\* CachedSlabStore::decoded_range_into (an empty buffer returns at once)
CallInto(t, d, off, want) ==
  /\ want > 0
  /\ Call(t, [Idle EXCEPT !.pc = "lookup", !.kind = "into", !.drop = d,
                          !.off = off, !.want = want])

\* read_window_into on a slice-backed file
CallWindow(t, file, off, want) ==
  /\ want > 0
  /\ Call(t, [Idle EXCEPT !.pc = "slice", !.kind = "window", !.file = file,
                          !.slice = 1, !.woff = off, !.wlen = want])

----------------------------------------------------------------------------
\* What a ranged read makes of the whole plaintext.
OfWhole(r) ==
  LET d == r.drop
  IN  CASE r.kind \in {"decoded", "plaintext"} -> Plaintext(d)
        [] r.kind = "range" -> Slice(Plaintext(d), r.off, r.off + r.want)
        [] r.kind \in {"into", "window"} ->
             Slice(Plaintext(d), r.off,
                   r.off + Smaller(SatSub(Size[d], r.off), r.want))

OutOfRange(r) == r.kind = "range" /\ r.off + r.want > Size[r.drop]

\* Thread state after the read of one drop returned `bs`.  A window read
\* stops when the buffer is full or the slice reaches the window's end.
Returned(r, bs) ==
  LET out == r.out \o bs
      full == \/ Len(out) = r.wlen
              \/ SliceEnd(r.file)[r.slice] >= r.woff + r.wlen
  IN  IF r.kind # "window" THEN [r EXCEPT !.pc = "done", !.out = bs]
      ELSE IF full THEN [r EXCEPT !.pc = "done", !.out = out]
      ELSE [r EXCEPT !.pc = "slice", !.out = out, !.slice = @ + 1]

Failed(r) == [r EXCEPT !.pc = "done", !.ok = FALSE, !.out = <<>>]

FromWhole(r) == IF OutOfRange(r) THEN Failed(r) ELSE Returned(r, OfWhole(r))

\* The loop head of read_window_into: skip slices outside the window, and
\* ask the next one for its part.
NextSlice(t) ==
  LET r == th[t]
      start == SliceEnd(r.file)[r.slice - 1]
      end == SliceEnd(r.file)[r.slice]
      from == Larger(r.woff, start)
      to == Smaller(r.woff + r.wlen, end)
  IN  /\ r.pc = "slice"
      /\ \/ r.slice > Len(r.file) /\ Set(t, [r EXCEPT !.pc = "done"])
         \/ /\ r.slice <= Len(r.file)
            /\ IF end <= r.woff \/ start >= r.woff + r.wlen \/ to = from
               THEN Set(t, [r EXCEPT !.slice = @ + 1])
               ELSE Set(t, [r EXCEPT !.pc = "lookup", !.drop = r.file[r.slice],
                                     !.off = from - start, !.want = to - from])
      /\ UNCHANGED <<cacheVars, frameVars, calls>>

\* The lookup in the drop cache hits.
LookupHit(t) ==
  /\ th[t].pc = "lookup"
  /\ Hit(th[t].drop)
  /\ Set(t, FromWhole(th[t]))
  /\ UNCHANGED <<frameVars, calls>>

\* Where cached_frame_range and cached_frame_range_into start.
FramesFrom(r) ==
  LET total == TotalUncomp(r.drop)
  IN  IF r.off > total \/ (r.kind = "range" /\ r.off + r.want > total)
      THEN Failed(r)
      ELSE [r EXCEPT !.pc = "frame", !.got = <<>>,
                     !.frame = FrameContaining(r.drop, r.off)]

\* It misses: ranged reads of seekable drops go through the frame cache,
\* everything else decodes the whole drop.
LookupMiss(t) ==
  /\ th[t].pc = "lookup"
  /\ Miss(th[t].drop)
  /\ Set(t, IF Seekable(th[t].drop) /\ th[t].kind # "decoded"
            THEN FramesFrom(th[t]) ELSE [th[t] EXCEPT !.pc = "decode"])
  /\ UNCHANGED <<frameVars, calls>>

\* decoded_fetch_insert: the decompressed drop is inserted, or bypasses the
\* cache, under the mutex; the call returns when evict_until_fits is done.
InsertWhole(t) ==
  /\ th[t].pc = "decode"
  /\ Insert(th[t].drop) \/ Bypass(th[t].drop)
  /\ Set(t, IF evicting' THEN [th[t] EXCEPT !.pc = "evict"]
            ELSE FromWhole(th[t]))
  /\ UNCHANGED <<frameVars, calls>>

EvictWhole(t) ==
  /\ th[t].pc = "evict"
  /\ Evict
  /\ Set(t, IF evicting' THEN th[t] ELSE FromWhole(th[t]))
  /\ UNCHANGED <<frameVars, calls>>

----------------------------------------------------------------------------
(* The frame loop of cached_frame_range and cached_frame_range_into.       *)

\* Faulty: every frame is sliced from the window's offset.
FrameSliceOfFirst(r) ==
  LET cum == Starts(r.drop)[r.frame]
      len == FrameLens[r.drop][r.frame]
      to == Smaller(SatSub(r.off + r.want, cum), len)
  IN  Slice(FramePlaintext(r.drop, r.frame), Smaller(r.off, to), to)

\* The part of the current frame that the read covers.
FrameSlice(r) ==
  LET cum == Starts(r.drop)[r.frame]
      len == FrameLens[r.drop][r.frame]
      from == SatSub(r.off, cum)
      to == Smaller(SatSub(r.off + r.want, cum), len)
  IN  Slice(FramePlaintext(r.drop, r.frame), from, to)

\* Thread state after the current frame is at hand: it is copied, and the
\* loop goes on unless the read is complete.
FrameDone(r) ==
  LET cum == Starts(r.drop)[r.frame]
      len == FrameLens[r.drop][r.frame]
      got == r.got \o FrameSlice(r)
      avail == Smaller(TotalUncomp(r.drop) - r.off, r.want)
      last == IF r.kind = "range" THEN cum + len >= r.off + r.want
              ELSE FrameSlice(r) = <<>> \/ Len(got) >= avail
  IN  IF last \/ r.frame = Len(FrameLens[r.drop])
      THEN Returned(r, got)
      ELSE [r EXCEPT !.pc = "frame", !.got = got, !.frame = @ + 1]

\* A read at the very end covers no frame.
FrameNone(t) ==
  /\ th[t].pc = "frame"
  /\ th[t].frame > Len(FrameLens[th[t].drop])
  /\ Set(t, Returned(th[t], th[t].got))
  /\ UNCHANGED <<cacheVars, frameVars, calls>>

FrameHit(t) ==
  /\ th[t].pc = "frame"
  /\ th[t].frame <= Len(FrameLens[th[t].drop])
  /\ F!Hit(<<th[t].drop, th[t].frame>>)
  /\ Set(t, FrameDone(th[t]))
  /\ UNCHANGED <<cacheVars, calls>>

FrameMiss(t) ==
  /\ th[t].pc = "frame"
  /\ th[t].frame <= Len(FrameLens[th[t].drop])
  /\ F!Miss(<<th[t].drop, th[t].frame>>)
  /\ Set(t, [th[t] EXCEPT !.pc = "frameDecode"])
  /\ UNCHANGED <<cacheVars, calls>>

InsertFrame(t) ==
  LET k == <<th[t].drop, th[t].frame>>
  IN  /\ th[t].pc = "frameDecode"
      /\ F!Insert(k) \/ F!Bypass(k)
      /\ Set(t, IF fevicting' THEN [th[t] EXCEPT !.pc = "frameEvict"]
                ELSE FrameDone(th[t]))
      /\ UNCHANGED <<cacheVars, calls>>

EvictFrame(t) ==
  /\ th[t].pc = "frameEvict"
  /\ F!Evict
  /\ Set(t, IF fevicting' THEN th[t] ELSE FrameDone(th[t]))
  /\ UNCHANGED <<cacheVars, calls>>

----------------------------------------------------------------------------
Start(t) ==
  \/ \E d \in Drops : CallDecoded(t, d) \/ CallPlaintext(t, d)
  \/ \E d \in Drops, off \in Offsets, n \in Wants :
       CallRange(t, d, off, n) \/ CallInto(t, d, off, n)
  \/ \E f \in Files, off \in Offsets, n \in Wants : CallWindow(t, f, off, n)

Step(t) ==
  \/ NextSlice(t) \/ LookupHit(t) \/ LookupMiss(t)
  \/ InsertWhole(t) \/ EvictWhole(t)
  \/ FrameNone(t) \/ FrameHit(t) \/ FrameMiss(t)
  \/ InsertFrame(t) \/ EvictFrame(t)

\* All threads have made their calls.
Finished ==
  /\ \A t \in Threads : th[t].pc = "done" /\ calls[t] = MaxCalls
  /\ UNCHANGED storeVars

StoreNext == (\E t \in Threads : Start(t) \/ Step(t)) \/ Finished

\* A thread that entered a read keeps running.  Waiting for a mutex is
\* finite because every thread makes at most MaxCalls calls.
StoreSpec ==
  /\ StoreInit
  /\ [][StoreNext]_storeVars
  /\ \A t \in Threads : WF_storeVars(Step(t))

----------------------------------------------------------------------------
\* Both caches keep their order, their entries and their byte count in step,
\* and their bounds whenever their mutex is free, with any number of readers
\* missing on the same key at once.
CachesConsistent ==
  /\ CacheTypeOK /\ F!CacheTypeOK
  /\ OrderListsEntries /\ F!OrderListsEntries
  /\ BytesAreSum /\ F!BytesAreSum
  /\ WithinBounds /\ F!WithinBounds

\* The slice that holds the file's byte p, and that byte.
SliceOf(file, p) ==
  CHOOSE s \in 1..Len(file) :
    SliceEnd(file)[s - 1] < p /\ p <= SliceEnd(file)[s]

FileByte(file, p) ==
  <<file[SliceOf(file, p)], p - SliceEnd(file)[SliceOf(file, p) - 1]>>

\* The bytes a call asks for: of the drop or, through its slices, the file.
Asked(r) ==
  IF r.kind # "window" THEN OfWhole(r)
  ELSE LET n == SliceEnd(r.file)[Len(r.file)]
       IN  [k \in 1..Smaller(SatSub(n, r.woff), r.wlen) |->
              FileByte(r.file, r.woff + k)]

\* decoded_range_into beyond the drop's end: 0 bytes if the whole drop is
\* cached, an error if its frames are consulted.
PastEnd(r) == r.kind = "into" /\ r.off > Size[r.drop]

\* Whatever is cached, partly cached, evicted under way or bypassed, a call
\* returns exactly the bytes asked for, and fails exactly when decoded_range
\* is asked for bytes the drop does not have.  (PastEnd calls depend on what
\* is cached and are left out.)
ReadIsExact ==
  \A t \in Threads :
    (th[t].pc = "done" /\ ~ PastEnd(th[t])) =>
      /\ th[t].ok = ~ OutOfRange(th[t])
      /\ th[t].ok => th[t].out = Asked(th[t])

\* Every read returns: evict_until_fits terminates under either mutex and no
\* thread waits for another for ever.
EveryReadReturns ==
  \A t \in Threads : th[t].pc # "done" /\ calls[t] > 0 ~> th[t].pc = "done"
============================================================================
