------------------------------ MODULE Chunker ------------------------------
(***************************************************************************)
(* FastCDC: a file is cut where the rolling gear hash of its bytes has zero  *)
(* low bits (limnifs-write/src/chunker.rs), over a slice, over a stream,     *)
(* and over a slice by parallel lanes (chunker/parallel.rs).                 *)
(*                                                                          *)
(* The fingerprint is WordBits wide (64 in the code) and shifts by one bit  *)
(* per byte, so WordBits is also GEAR_WINDOW.  A chunker is                 *)
(* [min, avg, max], data a sequence of bytes, Gear the gear table.          *)
(***************************************************************************)
EXTENDS Integers, Sequences, SequencesExt

CONSTANTS WordBits, Gear

GEAR_WINDOW == WordBits

Shorter(a, b) == IF a < b THEN a ELSE b

Longer(a, b) == IF a < b THEN b ELSE a

\* FastCDC::new
ValidSizes(c) == 0 < c.min /\ c.min < c.avg /\ c.avg < c.max

Log2(n) == CHOOSE b \in 0..n : 2^b <= n /\ n < 2^(b + 1)

\* mask_for: the low bits that must be zero; the mask is kept as the power of two above it.
mask_for(range) == IF range = 0 THEN 1 ELSE 2^Longer(Log2(range), 1)

mask1(c) == mask_for(c.avg - c.min)

mask2(c) == mask_for(c.max - c.avg)

\* fp = (fp << 1).wrapping_add(gear[b])
Roll(fp, b) == (2 * fp + Gear[b]) % 2^WordBits

\* fp of the bytes from..to of data (offsets from 0, to excluded), starting from 0.
Fold(data, from, to) ==
    LET f[i \in from..to] == IF i = from THEN 0 ELSE Roll(f[i - 1], data[i]) IN f[to]

mask_for_pos(c, pos_in_chunk) == IF pos_in_chunk < c.avg THEN mask1(c) ELSE mask2(c)

Fires(c, fp, pos_in_chunk) == fp % mask_for_pos(c, pos_in_chunk) = 0

----------------------------------------------------------------------------
(* FastCDC::chunk_slice.                                                     *)

\* The offsets in from..to - 1 that satisfy P, least first, or none.
FirstIn(from, to, P(_), none) ==
    LET hits == {i \in from..(to - 1) : P(i)} IN IF hits = {} THEN none ELSE CHOOSE i \in hits : \A j \in hits : i <= j

find_boundary(c, data, start) ==
    LET max_end == Shorter(start + c.max, Len(data))
        fold_start == start + c.min
    IN IF max_end - start <= c.min THEN max_end
       ELSE FirstIn(fold_start, max_end, LAMBDA i : Fires(c, Fold(data, fold_start, i + 1), i - start), max_end - 1) + 1

\* The chunk ends that follow one another from 0, each found by End from the previous.
Ends(n, End(_)) ==
    LET More(ends) == IF Last(ends) = n THEN ends ELSE Append(ends, End(Last(ends)))
        f[k \in 0..n] == IF k = 0 THEN <<0>> ELSE More(f[k - 1])
    IN Tail(f[n])

chunk_slice(c, data) == Ends(Len(data), LAMBDA start : find_boundary(c, data, start))

----------------------------------------------------------------------------
(* FastCDC::chunk_reader: one pass over the bytes as reads of up to buf      *)
(* bytes deliver them.                                                       *)

\* One byte, at offset i, of the loop over the buffer.
ReaderByte(c, data, s, i) ==
    LET st == IF i - s.start >= c.max THEN [start |-> i, fp |-> 0, ends |-> Append(s.ends, i)] ELSE s
        pos == i - st.start
        fp == Roll(st.fp, data[i + 1])
    IN IF pos < c.min THEN st
       ELSE IF Fires(c, fp, pos) THEN [start |-> i + 1, fp |-> 0, ends |-> Append(st.ends, i + 1)]
       ELSE [st EXCEPT !.fp = fp]

chunk_reader(c, data) ==
    LET f[i \in 0..Len(data)] == IF i = 0 THEN [start |-> 0, fp |-> 0, ends |-> <<>>] ELSE ReaderByte(c, data, f[i - 1], i - 1)
        s == f[Len(data)]
    IN IF s.start < Len(data) THEN Append(s.ends, Len(data)) ELSE s.ends

----------------------------------------------------------------------------
(* ParallelFastCDC.                                                          *)

\* probe_mask = mask1 & mask2: both are low-bit masks.
probe(c) == Shorter(mask1(c), mask2(c))

lane_len(data, lanes) == (Len(data) + lanes - 1) \div lanes

\* Mutant: a lane starts its roll at its own first byte.
PrimeAtLane(r0) == r0

\* Where a lane starts its roll: a window before its region.
prime_start(r0) == Longer(r0 - GEAR_WINDOW, 0)

\* The candidates <<position, fp>> of one lane.
LaneHits(c, data, r0, r1) ==
    LET from == prime_start(r0)
        f[i \in from..r1] == IF i = from THEN 0 ELSE Roll(f[i - 1], data[i])
    IN SelectSeq([k \in 1..(r1 - r0) |-> <<r0 + k - 1, f[r0 + k]>>], LAMBDA h : h[2] % probe(c) = 0)

scan_candidates(c, data, lanes) ==
    LET n == lane_len(data, lanes)
    IN FlattenSeq([l \in 1..lanes |->
            LET r0 == Shorter((l - 1) * n, Len(data))
                r1 == Shorter(r0 + n, Len(data))
            IN IF r0 >= r1 THEN <<>> ELSE LaneHits(c, data, r0, r1)])

\* One chunk of the replay: the first bytes are folded again, the rest looked up among the candidates.
ReplayEnd(c, data, candidates, start) ==
    LET max_end == Shorter(start + c.max, Len(data))
        fold_start == start + c.min
        warm_end == Shorter(fold_start + GEAR_WINDOW - 1, max_end)
        warm == FirstIn(fold_start, warm_end, LAMBDA i : Fires(c, Fold(data, fold_start, i + 1), i - start), -1)
        late == SelectSeq(candidates, LAMBDA h : /\ fold_start + GEAR_WINDOW - 1 <= h[1] /\ h[1] < max_end
                                                 /\ Fires(c, h[2], h[1] - start))
    IN IF max_end - start <= c.min THEN max_end
       ELSE IF warm # -1 THEN warm + 1
       ELSE IF late # <<>> THEN late[1][1] + 1 ELSE max_end

replay_boundaries(c, data, candidates) == Ends(Len(data), LAMBDA start : ReplayEnd(c, data, candidates, start))

chunk_slice_with_lanes(c, data, lanes) == replay_boundaries(c, data, scan_candidates(c, data, lanes))

----------------------------------------------------------------------------
\* The chunks cover the data in order, none is empty or longer than the maximum and only the last may be short.
WellCut(c, data, ends) ==
    /\ data # <<>> => ends # <<>> /\ Last(ends) = Len(data)
    /\ \A k \in DOMAIN ends : LET size == ends[k] - (IF k = 1 THEN 0 ELSE ends[k - 1])
                              IN size \in 1..c.max /\ (k < Len(ends) => size > c.min)
=============================================================================
