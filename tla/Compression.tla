---------------------------- MODULE Compression ----------------------------
(***************************************************************************)
(* How a chunk becomes a drop: its content class (classifier.rs), the       *)
(* configuration the writer runs under (config/mod.rs, profile.rs,          *)
(* defaults.rs), the codec tournament (limnifs-write/src/lib.rs), the codec  *)
(* registry the reader decodes with (codec/mod.rs) and the seekable          *)
(* container (seekable.rs).                                                  *)
(*                                                                          *)
(* The codecs are external: sizes maps a codec to the bytes it makes of the  *)
(* chunk, 0 when it fails or panics (codec_call makes both an error).  Its    *)
(* output remembers the codec and the input: only that codec turns it back.  *)
(***************************************************************************)
EXTENDS Integers, Sequences, FiniteSets, SequencesExt

CONSTANT SEEKABLE_FRAME_SIZE   \* 256 KiB in the code

CODEC_STORE == 0

\* codec_registry: the names a configuration may use.
NamedCodecs ==
    [store |-> 0, lz4 |-> 1, zstd |-> 2, xz |-> 3, brotli |-> 4, deflate |-> 5, snappy |-> 6, flac |-> 7, ricepp |-> 8,
     fsst_brotli |-> 9, shuffle_lz4 |-> 10, zpaq |-> 11, ppmd |-> 12, glza |-> 13, shuffle_zstd |-> 14,
     bitshuffle_lz4 |-> 15, bzip2 |-> 16, deflate64 |-> 17, lz4_hc |-> 19, libdeflate |-> 20,
     bcj_x86_lz4 |-> 32, bcj_x86_zstd |-> 33, bcj_arm64_lz4 |-> 35, bcj_arm64_zstd |-> 36]

\* CodecRegistry::default of the core: the ids a reader decodes.
RegisteredCodecs == 0..20 \cup {32, 33, 35, 36}

----------------------------------------------------------------------------
(* Configuration.                                                            *)

DEFAULT_INLINE_METADATA_MAX_BYTES == 1048576
METADATA_EXTERNALIZE_THRESHOLD == DEFAULT_INLINE_METADATA_MAX_BYTES - 24 * 1024
DEFAULT_MAX_DROP_SIZE == 4194304

Rule(name, codec, max_size) == [name |-> name, codec |-> codec, max_size |-> max_size]

\* defaults::all_v0_1; max_size 0 is none.
all_v0_1 == <<Rule("pcm_audio", "flac", 0), Rule("fits", "ricepp", 0), Rule("delimited_text", "fsst_brotli", 65536),
              Rule("bzip2", "bzip2", 0)>>

\* What the presets share: the rest is given by each of them.
Preset(text, binary, metadata, quality, chunking, tournament) ==
    [text_codec |-> text, binary_codec |-> binary, metadata_codec |-> metadata, metadata_quality |-> quality,
     externalize |-> METADATA_EXTERNALIZE_THRESHOLD, max_drop_size |-> DEFAULT_MAX_DROP_SIZE, seekable_drops |-> TRUE,
     inline_threshold |-> 4096, categorizers |-> all_v0_1, chunking |-> chunking, tournament |-> tournament,
     dictionaries |-> TRUE, read_write |-> FALSE, write_codec |-> "lz4", turnover_threshold |-> 0, skip_chunking |-> FALSE]

Sizes(min, avg, max) == [min |-> min, avg |-> avg, max |-> max]

Tournament(codecs, min_size, skip, permille) ==
    [codecs |-> codecs, min_size |-> min_size, skip_for_binary |-> skip, short_circuit |-> permille]

default_v0_1 ==
    [Preset("brotli", "lz4", "brotli", 5, Sizes(65536, 262144, 1048576),
            Tournament(<<"store", "lz4", "zstd", "brotli">>, 256, TRUE, 250)) EXCEPT !.categorizers = <<>>]

max_ratio ==
    [Preset("brotli", "zstd", "brotli", 11, Sizes(8192, 65536, 262144),
            Tournament(<<"store", "lz4", "lz4_hc", "zstd", "brotli", "ppmd", "bzip2">>, 256, FALSE, 0))
        EXCEPT !.max_drop_size = 0, !.seekable_drops = FALSE, !.inline_threshold = 8192]

max_speed ==
    [Preset("lz4", "lz4", "lz4", 1, Sizes(512, 4096, 16384), Tournament(<<"store", "lz4">>, 0, TRUE, 500))
        EXCEPT !.categorizers = <<>>, !.dictionaries = FALSE]

balanced ==
    Preset("brotli", "lz4", "zstd", 3, Sizes(2048, 16384, 65536), Tournament(<<"store", "lz4", "brotli">>, 256, TRUE, 250))

competitive ==
    [Preset("zstd", "lz4", "zstd", 3, Sizes(1024, 8192, 65536), Tournament(<<"store", "lz4", "brotli">>, 0, TRUE, 250))
        EXCEPT !.dictionaries = FALSE]

max_read ==
    [Preset("zstd", "zstd", "zstd", 11, Sizes(8192, 65536, 262144),
            Tournament(<<"store", "lz4", "zstd", "brotli">>, 256, FALSE, 200)) EXCEPT !.inline_threshold = 8192]

max_write ==
    [Preset("lz4", "lz4", "lz4", 1, Sizes(16384, 131072, 524288), Tournament(<<"store", "lz4">>, 0, TRUE, 500))
        EXCEPT !.categorizers = <<>>, !.dictionaries = FALSE, !.skip_chunking = TRUE]

max_write_rw == [max_write EXCEPT !.read_write = TRUE, !.turnover_threshold = 500]

max_read_rw ==
    [max_read EXCEPT !.metadata_quality = 6, !.read_write = TRUE, !.write_codec = "zstd", !.turnover_threshold = 1000]

balanced_rw ==
    [balanced EXCEPT !.text_codec = "zstd", !.tournament = Tournament(<<"store", "lz4", "zstd">>, 256, TRUE, 250),
                     !.read_write = TRUE, !.write_codec = "zstd", !.turnover_threshold = 1000]

\* profile::select
select ==
    <<default_v0_1, max_ratio, max_speed, balanced, competitive, max_read, max_write, max_write_rw, max_read_rw, balanced_rw>>

\* profile::resolve of a custom profile; "" and 0 stand for what it leaves out.
resolve(custom) ==
    [balanced EXCEPT
        !.text_codec = IF custom.text_codec = "" THEN @ ELSE custom.text_codec,
        !.binary_codec = IF custom.binary_codec = "" THEN @ ELSE custom.binary_codec,
        !.chunking.avg = IF custom.chunk_avg_size = 0 THEN @ ELSE custom.chunk_avg_size,
        !.tournament.skip_for_binary = custom.skip_tournament_for_binary,
        !.categorizers = SelectSeq(@, LAMBDA r : /\ r.name = "pcm_audio" => custom.enable_flac
                                                 /\ r.name = "fits" => custom.enable_ricepp)]

validate(c) ==
    /\ c.chunking.min <= c.chunking.avg /\ c.chunking.avg <= c.chunking.max
    /\ c.metadata_quality \in 1..11
    /\ c.externalize \in 1..DEFAULT_INLINE_METADATA_MAX_BYTES
    /\ c.max_drop_size = 0 \/ c.max_drop_size >= 1024
    /\ c.tournament.short_circuit <= 1000
    /\ \A i, j \in DOMAIN c.categorizers : i # j => c.categorizers[i].name # c.categorizers[j].name

\* codec_registry succeeds when every name the configuration uses is known.
CodecsKnown(c) ==
    {c.text_codec, c.binary_codec, c.metadata_codec} \cup Range(c.tournament.codecs)
        \cup {c.categorizers[i].codec : i \in DOMAIN c.categorizers} \subseteq DOMAIN NamedCodecs

\* chunker_from_config: FastCDC::new wants the sizes strictly increasing.
ChunkerBuilt(c) == 0 < c.chunking.min /\ c.chunking.min < c.chunking.avg /\ c.chunking.avg < c.chunking.max

TournamentSpec(c) ==
    [codec_ids |-> [i \in DOMAIN c.tournament.codecs |-> NamedCodecs[c.tournament.codecs[i]]],
     min_size |-> c.tournament.min_size, skip_for_binary |-> c.tournament.skip_for_binary,
     short_circuit_permille |-> c.tournament.short_circuit]

----------------------------------------------------------------------------
(* Classification: the sample's magic (a class or "none") and its entropy,   *)
(* in tenths of a bit, zero and printable ratios, in per cent.               *)

classify(s) ==
    IF s.empty THEN "Sparse"
    ELSE IF s.magic # "none" THEN s.magic
    ELSE IF s.entropy < 5 /\ s.zero > 80 THEN "Sparse"
    ELSE IF s.entropy >= 65 THEN "Incompressible"
    ELSE IF s.printable > 85 THEN "Text" ELSE "Binary"

----------------------------------------------------------------------------
(* Codecs and the tournament.  A chunk is [id, len].                         *)

Fail == [ok |-> FALSE]

\* compress_with_tunables of a codec that makes size bytes of x.
compress_with_tunables(codec, x, size) ==
    IF codec \notin RegisteredCodecs \/ size = 0 THEN Fail
    ELSE [ok |-> TRUE, len |-> IF codec = CODEC_STORE THEN x.len ELSE size, codec |-> codec, of |-> x, framed |-> FALSE]

Stored(x) == [ok |-> TRUE, len |-> x.len, codec |-> CODEC_STORE, of |-> x, framed |-> FALSE]

\* decompress: the input, when the bytes are that codec's one stream and the length agrees.
decompress(codec, bytes, expected_len) ==
    IF codec \in RegisteredCodecs /\ bytes.codec = codec /\ ~bytes.framed /\ bytes.of.len = expected_len
    THEN [ok |-> TRUE, of |-> bytes.of] ELSE Fail

\* Mutant: bytes that did not shrink are stored under the codec's own id.
compress_chunk_one_keeps_id(x, codec, size) ==
    LET c == compress_with_tunables(codec, x, size)
    IN IF codec # CODEC_STORE /\ c.ok /\ c.len < x.len THEN <<codec, c>> ELSE <<codec, Stored(x)>>

\* <<codec id, bytes>>
compress_chunk_one(x, codec, size) ==
    LET c == compress_with_tunables(codec, x, size)
    IN IF codec # CODEC_STORE /\ c.ok /\ c.len < x.len THEN <<codec, c>> ELSE <<CODEC_STORE, Stored(x)>>

\* One codec of the tournament; "done" once a ratio is good enough.
TournamentStep(t, x, s, codec, size) ==
    LET c == compress_with_tunables(codec, x, size)
    IN IF s.done \/ codec = CODEC_STORE \/ ~c.ok THEN s
       ELSE IF c.len >= x.len THEN s
       ELSE [best |-> IF c.len < s.best[2].len THEN <<codec, c>> ELSE s.best,
             done |-> t.short_circuit_permille > 0 /\ (c.len * 1000) \div x.len <= t.short_circuit_permille]

preferred(class, text_codec, binary_codec) ==
    CASE class = "Binary" -> binary_codec
      [] class \in {"Text", "Code", "Sparse"} -> text_codec
      [] class \notin {"Binary", "Text", "Code", "Sparse"} -> CODEC_STORE

\* Until a codec shrinks the chunk the best is the chunk itself, which every shrinking codec beats.
compress_chunk_with_tournament(x, class, text_codec, binary_codec, t, sizes) ==
    LET p == preferred(class, text_codec, binary_codec)
        f[i \in 0..Len(t.codec_ids)] ==
            IF i = 0 THEN [best |-> <<CODEC_STORE, Stored(x)>>, done |-> FALSE]
            ELSE TournamentStep(t, x, f[i - 1], t.codec_ids[i], sizes[t.codec_ids[i]])
    IN IF p = CODEC_STORE THEN <<CODEC_STORE, Stored(x)>>
       ELSE IF (class = "Binary" /\ t.skip_for_binary) \/ x.len < t.min_size THEN compress_chunk_one(x, p, sizes[p])
       ELSE f[Len(t.codec_ids)].best

----------------------------------------------------------------------------
(* The three ways process_file makes drops: chunks that went through the     *)
(* tournament, whole files of a category, and whole files when chunking is   *)
(* off.  A drop is [codec, bytes, seekable]; framed is the size of the        *)
(* container the codec makes of the chunk, 0 when encoding a frame fails.     *)

SEEKABLE_CHUNK_EMISSION_THRESHOLD == SEEKABLE_FRAME_SIZE

SEEKABLE_EMISSION_THRESHOLD == 4 * SEEKABLE_FRAME_SIZE

is_seekable_codec(codec) == codec \in {1, 2, 3, 4, 5, 6, 12, 16, 17, 18, 19, 20}

\* The container replaces the stream whatever the size of either.
seekable_or_monolithic(b, x, seekable_drops, threshold, framed) ==
    IF seekable_drops /\ x.len > threshold /\ is_seekable_codec(b[1]) /\ framed # 0
    THEN [codec |-> b[1], bytes |-> [b[2] EXCEPT !.framed = TRUE, !.len = framed], seekable |-> TRUE]
    ELSE [codec |-> b[1], bytes |-> b[2], seekable |-> FALSE]

ChunkDrop(c, x, class, sizes, framed) ==
    seekable_or_monolithic(
        compress_chunk_with_tournament(x, class, NamedCodecs[c.text_codec], NamedCodecs[c.binary_codec], TournamentSpec(c), sizes),
        x, c.seekable_drops, SEEKABLE_CHUNK_EMISSION_THRESHOLD, framed)

SkipChunkingDrop(c, x, class, sizes, framed) ==
    LET codec == NamedCodecs[IF class = "Binary" THEN c.binary_codec ELSE c.text_codec]
    IN seekable_or_monolithic(compress_chunk_one(x, codec, sizes[codec]), x, c.seekable_drops,
                              SEEKABLE_CHUNK_EMISSION_THRESHOLD, framed)

CODEC_ZSTD == 2
CODEC_BROTLI == 4
CODEC_RICEPP == 8

\* codec tried against the best so far, <<codec id, bytes>>.
Better(best, codec, x, size) ==
    LET c == compress_with_tunables(codec, x, size) IN IF c.ok /\ c.len < best[2].len THEN <<codec, c>> ELSE best

process_whole_file_drop(c, x, cat_codec, sizes, framed) ==
    LET brotli == compress_with_tunables(CODEC_BROTLI, x, sizes[CODEC_BROTLI])
        zstd == compress_with_tunables(CODEC_ZSTD, x, sizes[CODEC_ZSTD])
        first == IF brotli.ok THEN <<CODEC_BROTLI, brotli>> ELSE IF zstd.ok THEN <<CODEC_ZSTD, zstd>> ELSE <<CODEC_STORE, Stored(x)>>
        general == IF first[2].len * 100 > 5 * x.len THEN Better(first, CODEC_ZSTD, x, sizes[CODEC_ZSTD]) ELSE first
        special == IF general[2].len * 100 > 15 * x.len \/ cat_codec = CODEC_RICEPP
                   THEN Better(general, cat_codec, x, sizes[cat_codec]) ELSE general
    IN seekable_or_monolithic(special, x, c.seekable_drops, SEEKABLE_EMISSION_THRESHOLD, framed)

\* decode_drop_bytes: a record flagged seekable is read as a container of its codec's frames, any other as one stream.
decode_drop_bytes(drop, expected_len) ==
    IF ~drop.seekable THEN decompress(drop.codec, drop.bytes, expected_len)
    ELSE IF drop.bytes.framed THEN decompress(drop.codec, [drop.bytes EXCEPT !.framed = FALSE], expected_len)
    ELSE Fail

----------------------------------------------------------------------------
(* Seekable containers.  Plaintext is a sequence of bytes; a frame's         *)
(* compressed bytes are <<frame, i>> for i up to its compressed size.        *)

\* The chunks of at most SEEKABLE_FRAME_SIZE bytes, at least one.
Frames(plaintext) ==
    LET n == IF plaintext = <<>> THEN 1 ELSE (Len(plaintext) + SEEKABLE_FRAME_SIZE - 1) \div SEEKABLE_FRAME_SIZE
        End(i) == IF i * SEEKABLE_FRAME_SIZE < Len(plaintext) THEN i * SEEKABLE_FRAME_SIZE ELSE Len(plaintext)
    IN [i \in 1..n |-> SubSeq(plaintext, (i - 1) * SEEKABLE_FRAME_SIZE + 1, End(i))]

\* csize[i] bytes for the i-th frame; the container is the body, then the table, then the tail.
encode_seekable(plaintext, csize) ==
    LET frames == Frames(plaintext)
    IN [body |-> FlattenSeq([i \in DOMAIN frames |-> [j \in 1..csize[i] |-> <<frames[i], j, csize[i]>>]]),
        table |-> [i \in DOMAIN frames |-> [uncomp |-> Len(frames[i]), comp |-> csize[i]]]]

\* The sum of the lengths before frame i.
SumBefore(lens, i) == LET f[k \in 0..Len(lens)] == IF k = 0 THEN 0 ELSE f[k - 1] + lens[k] IN f[i - 1]

Uncomp(footer) == [i \in DOMAIN footer |-> footer[i].uncomp]

Comp(footer) == [i \in DOMAIN footer |-> footer[i].comp]

total_uncomp(footer) == SumBefore(Uncomp(footer), Len(footer) + 1)

parse_footer(container) ==
    LET t == container.table
    IN [ok |-> /\ SumBefore(Comp(t), Len(t) + 1) = Len(container.body)
               /\ Len(t) > 1 => \A i \in DOMAIN t : t[i].uncomp # 0,
        footer |-> t]

\* The last frame that starts at or before off.
frame_containing(footer, off) ==
    CHOOSE i \in 1..(Len(footer) + 1) :
        /\ SumBefore(Uncomp(footer), i) <= off
        /\ i <= Len(footer) => SumBefore(Uncomp(footer), i + 1) > off

\* The codec's frame, when the window is exactly its bytes.
DecodeFrame(window) ==
    IF window # <<>> /\ window = [j \in 1..window[1][3] |-> <<window[1][1], j, window[1][3]>>]
    THEN window[1][1] ELSE <<"corrupt">>

\* compressed_offset_of
CompressedStart(footer, i) == SumBefore(Comp(footer), i)

Least(a, b) == IF a < b THEN a ELSE b

Most(a, b) == IF a < b THEN b ELSE a

decode_seekable_range(container, off, len) ==
    LET p == parse_footer(container)
        t == p.footer
        first == frame_containing(t, off)
        Frame(i) ==
            LET cum == SumBefore(Uncomp(t), i)
                pos == CompressedStart(t, i)
                decoded == DecodeFrame(SubSeq(container.body, pos + 1, pos + t[i].comp))
            IN SubSeq(decoded, Most(off - cum, 0) + 1, Least(off + len - cum, t[i].uncomp))
        ends == {i \in first..Len(t) : SumBefore(Uncomp(t), i + 1) >= off + len}
        last == IF ends = {} THEN Len(t) ELSE CHOOSE i \in ends : \A j \in ends : i <= j
    IN IF ~p.ok \/ off + len > total_uncomp(t) THEN [ok |-> FALSE, v |-> <<>>]
       ELSE [ok |-> TRUE, v |-> FlattenSeq([k \in 1..(last - first + 1) |-> Frame(first + k - 1)])]
=============================================================================
