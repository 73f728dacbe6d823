------------------------------- MODULE Epochs -------------------------------
(***************************************************************************)
(* Epoch files, the commits of a chain over a base image                    *)
(* (limnifs-core/src/epoch): a header that names its parent and carries the  *)
(* hash of the whole file, the operations, and the drops they refer to.      *)
(*                                                                          *)
(* An operation is [kind, v], v giving its fields their values by name.      *)
(***************************************************************************)
EXTENDS WireFormat

EPOCH_MAGIC == <<"M", "LIME">>
EPOCH_FORMAT_VERSION == 1
ZeroId == <<"M", "zero">>
PathMax == 65536    \* no ceiling in the code; a bound of the modelled paths

\* <<"path", 0>> is a length and that many bytes, widths of 32 an id.
OpLayout ==
    (0 :> << <<"path", 0>>, <<"drop_id", 32>>, <<"len", 8>>, <<"mode", 4>>, <<"mtime", 8>> >>)      \* Add
    @@ (1 :> << <<"path", 0>> >>)                                                                   \* Remove
    @@ (2 :> << <<"path", 0>>, <<"drop_id", 32>>, <<"len", 8>>, <<"mtime", 8>> >>)                  \* Modify
    @@ (3 :> << <<"path", 0>>, <<"mode", 4>> >>)                                                    \* Chmod
    @@ (4 :> << <<"path", 0>>, <<"to", 0>> >>)                                                      \* Rename
    @@ (5 :> << <<"path", 0>>, <<"mode", 4>> >>)                                                    \* Mkdir
    @@ (6 :> << <<"path", 0>> >>)                                                                   \* Rmdir

write_one_op(op) ==
    N(1, op.kind) \o FlattenSeq([i \in DOMAIN OpLayout[op.kind] |->
        LET field == OpLayout[op.kind][i]
            x == op.v[field[1]]
        IN IF field[2] = 0 THEN Text(x) ELSE IF field[2] = 32 THEN B(32, x) ELSE N(field[2], x)])

write_op_section(ops) == N(4, Len(ops)) \o FlattenSeq([i \in DOMAIN ops |-> write_one_op(ops[i])])

ReadOpField(c, field) ==
    IF field[2] # 0 THEN read_n(c, field[1], field[2])
    ELSE Check(ReadText(c, field[1], PathMax), LAMBDA v : Utf8(v[field[1]]))

OpFields(c) == IF c.ok /\ c.v.kind \in DOMAIN OpLayout THEN Fold(ReadOpField, c, OpLayout[c.v.kind]) ELSE Require(c, FALSE)

parse_one_op(c) == OpFields(read_n(c, "kind", 1))

parse_op_section(c) == ReadEntries(read_n(c, "ops_count", 4), "ops", "ops_count", parse_one_op, Unchecked)

\* The operation a parsed entry stands for.
FieldNames(kind) == {OpLayout[kind][i][1] : i \in DOMAIN OpLayout[kind]}

OpOf(v) == [kind |-> v.kind, v |-> [f \in FieldNames(v.kind) |-> v[f]]]

write_drop_section(drops) ==
    N(4, Len(drops)) \o FlattenSeq([i \in DOMAIN drops |->
        B(32, drops[i].drop_id) \o N(1, drops[i].codec) \o N(4, drops[i].plaintext_len) \o Text(drops[i].payload)])

parse_one_drop(c) ==
    ReadText(ReadAll(c, << <<"drop_id", 32>>, <<"codec", 1>>, <<"plaintext_len", 4>> >>), "payload", PathMax)

parse_drop_section(c) == ReadEntries(read_n(c, "drops_count", 4), "drops", "drops_count", parse_one_drop, Unchecked)

write_epoch_header(h) ==
    B(4, EPOCH_MAGIC) \o N(2, h.version) \o N(2, h.flags) \o B(32, h.parent_epoch_id) \o B(32, h.base_image_root)
    \o N(8, h.epoch_sequence) \o B(32, h.ops_hash) \o B(32, h.drops_hash) \o B(32, h.own_epoch_id) \o N(8, h.timestamp_unix)
    \o B(16, ZeroId)

OwnIdField == 9

\* The reserved bytes are skipped unread.
parse_epoch_header(c) ==
    ReadAll(Check(ReadAll(c, << <<"magic", 4>>, <<"version", 2>> >>),
                  LAMBDA v : v.magic = EPOCH_MAGIC /\ v.version <= EPOCH_FORMAT_VERSION),
            << <<"flags", 2>>, <<"parent_epoch_id", 32>>, <<"base_image_root", 32>>, <<"epoch_sequence", 8>>,
               <<"ops_hash", 32>>, <<"drops_hash", 32>>, <<"own_epoch_id", 32>>, <<"timestamp_unix", 8>>, <<"reserved", 16>> >>)

to_bytes(e) == write_epoch_header(e.header) \o write_op_section(e.ops) \o write_drop_section(e.drops)

\* Epoch::id, over the bytes with the file's own id in place.
compute_epoch_id(bytes) == hash_section(bytes)

Identified(e) == [e EXCEPT !.header.own_epoch_id = compute_epoch_id(to_bytes(e))]

build(header, ops, drops) ==
    Identified([header |-> [header EXCEPT !.ops_hash = hash_section(write_op_section(ops)),
                                          !.drops_hash = hash_section(write_drop_section(drops)), !.own_epoch_id = ZeroId],
                ops |-> ops, drops |-> drops])

\* The first left bytes of s with the id zeroed, as from_bytes hashes them.
Recomputed(s, left) ==
    IF left = Bytes(s) THEN compute_epoch_id([s EXCEPT ![OwnIdField].v = ZeroId]) ELSE <<"H of a cut file", left>>

\* Bytes after the drops would be hashed but not read; the hashes of the sections are not compared.
from_bytes(s, left) ==
    parse_drop_section(parse_op_section(
        Check(parse_epoch_header(CursorAt(s, left)), LAMBDA v : Recomputed(s, left) = v.own_epoch_id)))
=============================================================================
