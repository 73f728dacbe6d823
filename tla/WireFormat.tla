----------------------------- MODULE WireFormat -----------------------------
(***************************************************************************)
(* The bytes of an image: the sections the writer concatenates into the    *)
(* manifest, the metadata blob and the slabs, and the parsers that read     *)
(* them back (limnifs-format, limnifs-core, WriteContext::assemble).        *)
(*                                                                          *)
(* A byte string is a sequence of fields, each with its width in bytes and  *)
(* its value: N(w, n) is a w-byte little-endian integer, B(w, x) is w       *)
(* opaque bytes.  Opaque values are pairs <<tag, payload>>.  A cursor       *)
(* counts the bytes that are left, so a file may end inside a field, and a  *)
(* read whose width is not that of the field under the cursor (a writer and *)
(* a reader that disagree about the layout) fails.  A file may also be       *)
(* damaged: one field replaced by another value of the same width.          *)
(***************************************************************************)
EXTENDS Integers, Sequences, FiniteSets, SequencesExt, TLC

CONSTANTS
    Trees,        \* the inode lists (WriteContext::inodes) to be written
    InlineMax,    \* DEFAULT_INLINE_DATA_MAX_BYTES
    MetadataMax,  \* DEFAULT_INLINE_METADATA_MAX_BYTES
    DictMax       \* MAX_DICT_SIZE

NONE == <<"none", 0>>
NO_DICT == 255
SLAB_HEADER_LEN == 56
DROP_RECORD_LEN == 50
MIN_LOCATOR_URI_BYTES == 4

N(w, n) == <<[w |-> w, v |-> n, k |-> "n"]>>

B(w, x) == IF w = 0 THEN <<>> ELSE <<[w |-> w, v |-> x, k |-> "b"]>>

\* FoldLeft, linear in the length of the sequence.
Fold(Op(_, _), base, s) ==
    LET f[i \in 0..Len(s)] == IF i = 0 THEN base ELSE Op(f[i - 1], s[i]) IN f[Len(s)]

Bytes(s) == Fold(LAMBDA a, t : a + t.w, 0, s)

\* BLAKE3 (external): equal hashes only for equal bytes.
hash_section(s) == <<"H", s>>

\* A string: its length, its place in byte order, and what is wrong with it.
Str(len, rank) == <<"S", [len |-> len, rank |-> rank, bad |-> FALSE]>>

Len32(x) == x[2].len

Text(x) == N(4, Len32(x)) \o B(Len32(x), x)

EmptyStr == <<"S", [len |-> 0, rank |-> 0, bad |-> FALSE]>>

Rank(x) == IF x[1] = "S" THEN x[2].rank ELSE 0

Utf8(x) == x[1] = "S" => ~x[2].bad

----------------------------------------------------------------------------
(* ManifestCursor.  "v" collects the values read, by name.                  *)

CursorAt(s, left) == [ok |-> TRUE, s |-> s, pos |-> 1, left |-> left, v |-> [x \in {} |-> 0]]

Set(c, name, x) == [c EXCEPT !.v = (name :> x) @@ c.v]

read_n(c, name, w) ==
    CASE ~c.ok \/ c.left < w       -> [Set(c, name, 0) EXCEPT !.ok = FALSE]
      [] c.ok /\ w = 0             -> Set(c, name, EmptyStr)
      [] c.ok /\ w > 0 /\ c.left >= w ->
            IF c.s[c.pos].w = w
            THEN [Set(c, name, c.s[c.pos].v) EXCEPT !.pos = @ + 1, !.left = @ - w]
            ELSE [Set(c, name, 0) EXCEPT !.ok = FALSE]

ReadAll(c, fields) == Fold(LAMBDA a, f : read_n(a, f[1], f[2]), c, fields)

Require(c, cond) == [c EXCEPT !.ok = c.ok /\ cond]

\* A test of the values read so far.
Check(c, Cond(_)) == [c EXCEPT !.ok = c.ok /\ Cond(c.v)]

\* The size check made before a table of entries of at least w bytes is read.
Fits(c, count, w) == Require(c, c.left >= c.v[count] * w)

Collect(a, name, p, Fresh(_, _)) ==
    [p EXCEPT !.ok = p.ok /\ Fresh(a.v[name], p.v), !.v = (name :> Append(a.v[name], p.v)) @@ a.v]

\* As many entries as "count" says, read one after the other by P and collected
\* under name; "Fresh" compares an entry with the ones before it.
ReadEntries(c, name, count, P(_), Fresh(_, _)) ==
    Fold(LAMBDA a, i : IF a.ok THEN Collect(a, name, P([a EXCEPT !.v = [x \in {} |-> 0]]), Fresh) ELSE a,
         Set(c, name, <<>>), IF c.ok THEN [i \in 1..c.v[count] |-> i] ELSE <<>>)

Unchecked(before, entry) == TRUE

\* The bytes of a string or blob whose length was read as "len".
ReadLen(c, name) == read_n(c, name, c.v.len)

\* A length-prefixed string or blob of at most max bytes.
ReadText(c, name, max) ==
    ReadLen(Check(ReadAll(c, << <<"len", 4>> >>), LAMBDA v : v.len <= max), name)

----------------------------------------------------------------------------
(* The manifest's sections: what the writer appends, what the readers take. *)

EncodeHeader == B(4, <<"M", "LMFS">>) \o N(2, 1) \o N(2, 1) \o N(2, 1) \o B(6, <<"M", "zero">>)

parse_manifest_header(c) ==
    Check(ReadAll(c, << <<"magic", 4>>, <<"drop_store_version", 2>>, <<"metadata_version", 2>>,
                        <<"manifest_version", 2>>, <<"reserved", 6>> >>),
          LAMBDA v : v.magic = <<"M", "LMFS">> /\ v.reserved = <<"M", "zero">>)

EncodeFlags(flags) ==
    N(1, 1) \o N(4, Len(flags)) \o FlattenSeq([i \in DOMAIN flags |->
        N(2, flags[i].flag_id) \o N(1, IF flags[i].required THEN 1 ELSE 0)])

parse_flag(c) ==
    Check(ReadAll(c, << <<"flag_id", 2>>, <<"required", 1>> >>), LAMBDA v : v.flag_id # 0 /\ v.required \in {0, 1})

\* The version byte (1 is the only one known) and the count of a table.
TableHead(c) == Check(ReadAll(c, << <<"version", 1>>, <<"count", 4>> >>), LAMBDA v : v.version = 1)

parse_feature_flags_section(c) ==
    ReadEntries(Fits(TableHead(c), "count", 3), "entries", "count", parse_flag,
                LAMBDA before, e : \A i \in DOMAIN before : before[i].flag_id # e.flag_id)

EncodeLocators(uris) == FlattenSeq([i \in DOMAIN uris |-> Text(uris[i])])

parse_locator_entry_with_ceiling(c) ==
    Check(ReadLen(Check(ReadAll(c, << <<"len", 4>> >>), LAMBDA v : v.len \in MIN_LOCATOR_URI_BYTES..4096), "uri"),
          LAMBDA v : Utf8(v.uri))

parse_locator_entries_with_ceiling(c) ==
    ReadEntries(Fits(c, "count", 8), "locators", "count", parse_locator_entry_with_ceiling, Unchecked)

(* The dispatch of the codec registry, the codecs themselves being external: *)
(* Packed(codec, s) is shorter than s and only decompresses to s, with the    *)
(* same codec and to the expected length; store leaves the bytes as they are. *)
CODEC_STORE == 0

Packed(codec, s) == B((Bytes(s) + 1) \div 2, <<"Z", [codec |-> codec, s |-> s]>>)

decompress(codec, wire, len) ==
    IF wire # <<>> /\ wire[1].k = "b" /\ wire[1].v[1] = "Z" /\ wire[1].v[2].codec = codec /\ Bytes(wire[1].v[2].s) = len
    THEN [ok |-> TRUE, s |-> wire[1].v[2].s]
    ELSE [ok |-> FALSE, s |-> <<>>]

EncodeMetadataReference(hash, len, codec, uris, inline) ==
    N(1, 2) \o B(32, hash) \o N(4, len) \o N(1, codec) \o N(4, Len(uris)) \o EncodeLocators(uris)
    \o N(4, Bytes(inline)) \o inline

\* The blob of a metadata reference is several fields long when it is stored
\* as it is: take the fields whose widths add up to len.
ReadRegion(c, name, len) ==
    IF ~c.ok \/ c.left < len THEN [Set(c, name, <<>>) EXCEPT !.ok = FALSE]
    ELSE LET end[e \in c.pos..(Len(c.s) + 1), n \in 0..len] ==
                 IF n = len THEN e ELSE IF n + c.s[e].w > len THEN 0 ELSE end[e + 1, n + c.s[e].w]
             stop == end[c.pos, 0]
         IN  IF stop = 0 THEN [Set(c, name, <<>>) EXCEPT !.ok = FALSE]
             ELSE [Set(c, name, SubSeq(c.s, c.pos, stop - 1)) EXCEPT !.pos = stop, !.left = @ - len]

Inflate(c, d) == Set(Require(c, d.ok), "inline", <<"blob", d.s>>)

DecodeBlob(c) ==
    IF c.ok /\ c.v.codec = CODEC_STORE THEN Set(c, "inline", <<"blob", c.v.wire>>)
    ELSE Inflate(c, decompress(c.v.codec, c.v.wire, c.v.uncompressed_len))

read_inline_blob(c) ==
    IF c.ok /\ c.v.inline_len = 0 THEN Set(c, "inline", NONE)
    ELSE DecodeBlob(ReadRegion(Require(c, c.v.inline_len <= MetadataMax), "wire", c.v.inline_len))

\* parse_v1 is parse_v2 without the uncompressed length and the codec.
MetadataCodec(c) ==
    IF c.ok /\ c.v.version = 2 THEN ReadAll(c, << <<"uncompressed_len", 4>>, <<"codec", 1>> >>)
    ELSE Set(Set(c, "codec", CODEC_STORE), "uncompressed_len", 0)

MetadataHead(c) ==
    MetadataCodec(Check(ReadAll(c, << <<"version", 1>>, <<"metadata_hash", 32>> >>), LAMBDA v : v.version \in {1, 2}))

MetadataLocators(c) ==
    parse_locator_entries_with_ceiling(ReadAll(MetadataHead(c), << <<"count", 4>> >>))

parse_metadata_reference(c) ==
    Check(read_inline_blob(ReadAll(MetadataLocators(c), << <<"inline_len", 4>> >>)),
          LAMBDA v : v.locators # <<>> \/ v.inline # NONE)

EncodeSlabIndex(slabs) ==
    N(1, 1) \o N(4, Len(slabs)) \o FlattenSeq([i \in DOMAIN slabs |->
        N(8, slabs[i].ordinal) \o B(32, slabs[i].hash) \o N(4, 1) \o EncodeLocators(<<slabs[i].locator>>)])

parse_slab_index_entry(c) ==
    parse_locator_entries_with_ceiling(
        Check(ReadAll(c, << <<"ordinal", 8>>, <<"hash", 32>>, <<"count", 4>> >>), LAMBDA v : v.count # 0))

parse_slab_index(c) ==
    ReadEntries(Fits(TableHead(c), "count", 44), "entries", "count", parse_slab_index_entry,
                LAMBDA before, e : \A i \in DOMAIN before :
                    <<before[i].ordinal, before[i].hash>> # <<e.ordinal, e.hash>>)

\* An image is written with the single entry of its build.
EncodeHistory(entries) ==
    N(1, 1) \o N(4, Len(entries)) \o FlattenSeq([i \in DOMAIN entries |->
        N(1, entries[i].op) \o N(8, entries[i].timestamp_ns) \o N(4, Len(entries[i].inputs))
        \o FlattenSeq([j \in DOMAIN entries[i].inputs |-> B(32, entries[i].inputs[j])])
        \o Text(entries[i].params)])

BuildEntry == [op |-> 1, timestamp_ns |-> 0, inputs |-> <<>>, params |-> EmptyStr]

HistoryEntryHead(c) ==
    Check(ReadAll(c, << <<"op", 1>>, <<"timestamp_ns", 8>>, <<"input_count", 4>> >>), LAMBDA v : v.op \in 1..5)

parse_history_entry_with_ceiling(c) ==
    ReadText(ReadEntries(HistoryEntryHead(c), "inputs", "input_count", LAMBDA a : read_n(a, "root", 32), Unchecked),
             "params", 4096)

parse_history(c) ==
    ReadEntries(Fits(Check(TableHead(c), LAMBDA v : v.count # 0), "count", 17), "entries", "count",
                parse_history_entry_with_ceiling, Unchecked)

encode_dictionary_section(dicts) ==
    N(1, 1) \o N(1, Len(dicts)) \o FlattenSeq([i \in DOMAIN dicts |->
        N(1, dicts[i].codec_id) \o N(1, dicts[i].class_id) \o Text(dicts[i].data)])

parse_dictionary_section(c) ==
    ReadEntries(Check(ReadAll(c, << <<"version", 1>>, <<"count", 1>> >>), LAMBDA v : v.version = 1), "dicts", "count",
                LAMBDA a : ReadText(ReadAll(a, << <<"codec_id", 1>>, <<"class_id", 1>> >>), "data", DictMax),
                Unchecked)

to_section_bytes(base_root, ops) ==
    N(1, 1) \o B(32, base_root) \o N(4, Len(ops)) \o FlattenSeq([i \in DOMAIN ops |->
        N(1, ops[i].kind) \o Text(ops[i].path) \o (IF ops[i].kind = 2 THEN <<>> ELSE N(8, ops[i].inode))])

TreeOpInode(c) == IF c.ok /\ c.v.kind # 2 THEN read_n(c, "inode", 8) ELSE Set(c, "inode", NONE)

parse_tree_op(c) ==
    TreeOpInode(Check(ReadText(ReadAll(c, << <<"kind", 1>> >>), "path", 65536),
                      LAMBDA v : v.kind \in 1..3 /\ v.len # 0 /\ Utf8(v.path)))

parse_delta_linkage(c) ==
    ReadEntries(Fits(Check(ReadAll(c, << <<"version", 1>>, <<"base_root", 32>>, <<"count", 4>> >>),
                           LAMBDA v : v.version = 1), "count", 6),
                "tree_ops", "count", parse_tree_op, Unchecked)
=============================================================================
