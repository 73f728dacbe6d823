------------------------------ MODULE ImageFile ------------------------------
(***************************************************************************)
(* An image at rest: the files WriteContext::assemble produces (manifest,   *)
(* metadata sidecar, slabs), the faults a file can suffer (cut short, one    *)
(* field damaged, sidecar lost), and the readers: load_image (ls, cat,      *)
(* extract), read_manifest (verify, sign) and                               *)
(* compute_merkle_root_from_sections (the base root a layer records).       *)
(***************************************************************************)
EXTENDS WireFormat

CONSTANTS
    InlineThreshold,  \* the writer's inline_threshold, which no reader knows
    ReadBudget        \* VERIFY_READ_BUDGET

(* The metadata blob.                                                       *)

\* What the survey makes of a regular file: nothing holds the threshold of the
\* configuration to the ceiling of the readers (InlineMax).
FileContent(data, slices) ==
    IF Len32(data) <= InlineThreshold THEN <<"Inline", data>> ELSE <<"DropBacked", slices>>

S_IFREG == 8
S_IFDIR == 4
S_IFLNK == 10
FileType(mode) == mode \div 4096

ATIME == 1
HAS_XATTRS == 2
INLINE_DATA == 4
SHARED_INLINE == 8
Bit(flags, b) == (flags \div b) % 2 = 1

Inlines(tree) == SelectSeq([i \in DOMAIN tree.inodes |-> tree.inodes[i].content], LAMBDA x : x[1] = "Inline")

\* Inline contents of more than one inode, in the order they first appear.
build_shared_inline_table(tree) ==
    Fold(LAMBDA t, x : IF x[2] \notin {t[i] : i \in DOMAIN t}
                              /\ Cardinality({i \in DOMAIN Inlines(tree) : Inlines(tree)[i] = x}) > 1
                           THEN Append(t, x[2]) ELSE t,
             <<>>, Inlines(tree))

encode_dir_node(entries) ==
    N(1, 1) \o N(4, Len(entries)) \o FlattenSeq([i \in DOMAIN entries |->
        Text(entries[i].name) \o N(8, entries[i].inode) \o N(1, entries[i].type)])

FlagsAndXattrs(xattrs, base) ==
    IF xattrs = <<>> THEN N(1, base)
    ELSE N(1, base + HAS_XATTRS) \o N(4, Len(xattrs)) \o FlattenSeq([i \in DOMAIN xattrs |->
             N(1, xattrs[i].namespace) \o Text(xattrs[i].key) \o Text(xattrs[i].value)])

EncodeContent(x, xattrs, shared) ==
    CASE x[1] = "Inline" /\ x[2] \in {shared[i] : i \in DOMAIN shared} ->
            FlagsAndXattrs(xattrs, INLINE_DATA + SHARED_INLINE)
            \o N(4, (CHOOSE i \in DOMAIN shared : shared[i] = x[2]) - 1)
      [] x[1] = "Inline" /\ x[2] \notin {shared[i] : i \in DOMAIN shared} ->
            FlagsAndXattrs(xattrs, INLINE_DATA) \o Text(x[2])
      [] x[1] = "DropBacked" ->
            FlagsAndXattrs(xattrs, 0) \o N(4, Len(x[2])) \o FlattenSeq([i \in DOMAIN x[2] |->
                N(8, x[2][i].start) \o N(8, x[2][i].end) \o B(32, x[2][i].drop)
                \o N(4, 0) \o N(4, x[2][i].end - x[2][i].start)])
      [] x[1] = "Symlink"   -> FlagsAndXattrs(xattrs, 0) \o Text(x[2])
      [] x[1] = "Directory" -> FlagsAndXattrs(xattrs, 0) \o B(32, hash_section(encode_dir_node(x[2])))

\* Mutant: the xattr block is written after the content handle.
EncodeInodeXattrsLast(inode, nlink, shared) ==
    N(8, inode.number) \o N(4, inode.mode) \o N(4, inode.uid) \o N(4, inode.gid)
    \o N(8, inode.mtime) \o N(8, inode.mtime) \o N(4, nlink)
    \o EncodeContent(inode.content, <<>>, shared) \o FlagsAndXattrs(inode.xattrs, 0)

encode_inode(inode, nlink, shared) ==
    N(8, inode.number) \o N(4, inode.mode) \o N(4, inode.uid) \o N(4, inode.gid)
    \o N(8, inode.mtime) \o N(8, inode.mtime) \o N(4, nlink)
    \o EncodeContent(inode.content, inode.xattrs, shared)

Nlink(tree, n) == IF n \in DOMAIN tree.nlink THEN tree.nlink[n] ELSE 1

DirNodes(tree) ==
    LET dirs == SelectSeq(tree.inodes, LAMBDA i : i.content[1] = "Directory")
    IN  [i \in DOMAIN dirs |-> dirs[i].content[2]]

EncodeShared(shared) ==
    IF shared = <<>> THEN <<>>
    ELSE N(4, Len(shared)) \o FlattenSeq([i \in DOMAIN shared |-> Text(shared[i])])

EncodeMetadata(tree, shared) ==
    N(4, Len(tree.inodes))
    \o FlattenSeq([i \in DOMAIN tree.inodes |->
                encode_inode(tree.inodes[i], Nlink(tree, tree.inodes[i].number), shared)])
    \o N(4, Len(DirNodes(tree))) \o FlattenSeq([i \in DOMAIN DirNodes(tree) |-> encode_dir_node(DirNodes(tree)[i])])
    \o EncodeShared(shared)

parse_xattr(c) ==
    ReadText(Check(ReadText(Check(ReadAll(c, << <<"namespace", 1>> >>), LAMBDA v : v.namespace <= 3), "key", 65536),
                   LAMBDA v : Utf8(v.key)), "value", 65536)

parse_slice(c) ==
    Check(ReadAll(c, << <<"start", 8>>, <<"end", 8>>, <<"drop", 32>>, <<"drop_start", 4>>, <<"drop_len", 4>> >>),
          LAMBDA v : v.start < v.end)

validate_slice_map(slices) ==
    \A i \in DOMAIN slices : slices[i].start = (IF i = 1 THEN 0 ELSE slices[i - 1].end)

\* The content handle is the value read under "name", with its kind.
Handle(c, kind, name) == Set(c, "handle", <<kind, c.v[name]>>)

parse_slice_map(c) ==
    Handle(Check(ReadEntries(ReadAll(c, << <<"slice_count", 4>> >>), "slices", "slice_count", parse_slice, Unchecked),
                 LAMBDA v : validate_slice_map(v.slices)), "SliceMap", "slices")

RegularHandle(c) ==
    CASE Bit(c.v.flags, SHARED_INLINE) -> Handle(ReadAll(c, << <<"index", 4>> >>), "SharedInline", "index")
      [] ~Bit(c.v.flags, SHARED_INLINE) /\ Bit(c.v.flags, INLINE_DATA) ->
            Handle(ReadText(c, "data", InlineMax), "InlineData", "data")
      [] ~Bit(c.v.flags, SHARED_INLINE) /\ ~Bit(c.v.flags, INLINE_DATA) -> parse_slice_map(c)

parse_content_handle(c) ==
    CASE ~c.ok -> c
      [] c.ok /\ FileType(c.v.mode) = S_IFREG -> RegularHandle(c)
      [] c.ok /\ FileType(c.v.mode) = S_IFDIR -> Handle(ReadAll(c, << <<"hash", 32>> >>), "Directory", "hash")
      [] c.ok /\ FileType(c.v.mode) = S_IFLNK ->
            Handle(Check(ReadText(c, "data", 65536), LAMBDA v : Utf8(v.data)), "Symlink", "data")
      [] c.ok /\ FileType(c.v.mode) \in {6, 2}  -> Handle(ReadAll(c, << <<"id", 8>> >>), "Device", "id")
      [] c.ok /\ FileType(c.v.mode) \in {1, 12} -> Handle(ReadAll(c, << <<"id", 8>> >>), "Pipe", "id")
      [] OTHER -> Require(c, FALSE)

InodeHead(c) ==
    Check(ReadAll(c, << <<"number", 8>>, <<"mode", 4>>, <<"uid", 4>>, <<"gid", 4>>,
                        <<"mtime_ns", 8>>, <<"ctime_ns", 8>>, <<"nlink", 4>>, <<"flags", 1>> >>),
          LAMBDA v : v.flags < 16)

InodeAtime(c) == IF c.ok /\ Bit(c.v.flags, ATIME) THEN read_n(c, "atime_ns", 8) ELSE c

XattrCount(c) == IF c.ok /\ Bit(c.v.flags, HAS_XATTRS) THEN read_n(c, "xattr_count", 4) ELSE Set(c, "xattr_count", 0)

parse_inode_with_ceiling(c) ==
    parse_content_handle(
        ReadEntries(XattrCount(InodeAtime(InodeHead(c))), "xattrs", "xattr_count", parse_xattr, Unchecked))

parse_dir_entry(c) ==
    Check(ReadAll(Check(ReadText(c, "name", 65536), LAMBDA v : v.len # 0 /\ Utf8(v.name)),
                  << <<"inode", 8>>, <<"type", 1>> >>), LAMBDA v : v.type \in 1..4)

parse_directory_node(c) ==
    ReadEntries(TableHead(c), "entries", "count", parse_dir_entry,
                LAMBDA before, e : before # <<>> => Rank(Last(before).name) < Rank(e.name))

Resolved(inode, table) ==
    IF inode.handle[1] = "SharedInline"
    THEN [inode EXCEPT !.handle = <<"InlineData", table[inode.handle[2] + 1].data>>]
    ELSE inode

SharedTable(c) ==
    ReadEntries(ReadAll(c, << <<"shared_count", 4>> >>), "table", "shared_count",
                LAMBDA a : ReadText(a, "data", InlineMax), Unchecked)

\* Mutant: a shared index outside the table is left unresolved.
ResolveAllLenient(c) ==
    [Set(SharedTable(c), "inodes", [i \in DOMAIN c.v.inodes |->
        IF c.v.inodes[i].handle[1] = "SharedInline"
        THEN [c.v.inodes[i] EXCEPT !.handle = <<"InlineData", EmptyStr>>] ELSE c.v.inodes[i]])
     EXCEPT !.ok = TRUE]

ResolveAll(c) ==
    IF c.ok THEN Set(c, "inodes", [i \in DOMAIN c.v.inodes |-> Resolved(c.v.inodes[i], c.v.table)]) ELSE c

ResolveShared(c) ==
    ResolveAll(Check(SharedTable(c), LAMBDA v : \A i \in DOMAIN v.inodes :
                   v.inodes[i].handle[1] = "SharedInline" => v.inodes[i].handle[2] < Len(v.table)))

MetadataInodes(c) ==
    ReadEntries(Fits(ReadAll(c, << <<"inode_count", 4>> >>), "inode_count", 42), "inodes", "inode_count",
                parse_inode_with_ceiling, Unchecked)

MetadataDirNodes(c) ==
    ReadEntries(Fits(ReadAll(c, << <<"dir_node_count", 4>> >>), "dir_node_count", 5), "dir_nodes", "dir_node_count",
                parse_directory_node, Unchecked)

MetadataShared(c) == IF c.ok /\ c.left >= 4 THEN ResolveShared(c) ELSE c

parse_metadata_blob(c) == MetadataShared(MetadataDirNodes(MetadataInodes(c)))

----------------------------------------------------------------------------
(* Slabs.                                                                   *)

Offsets(drops) == [i \in DOMAIN drops |->
    Fold(LAMBDA a, d : a + d.len, 0, SubSeq(drops, 1, i - 1))]

EncodeRecords(drops) == FlattenSeq([i \in DOMAIN drops |->
    B(32, drops[i].id) \o N(4, drops[i].plaintext_len) \o N(1, drops[i].codec) \o N(1, 0) \o N(1, 0)
    \o N(1, 0) \o N(4, Offsets(drops)[i]) \o N(4, drops[i].len) \o N(1, drops[i].dict_id) \o N(1, drops[i].flags)])

SlabFile(ordinal, hash, content) ==
    [ordinal |-> ordinal, hash |-> hash, locator |-> Str(20, ordinal + 1),
     bytes |-> B(4, <<"M", "LIM1">>) \o N(2, 1) \o N(8, ordinal) \o B(32, hash)
               \o N(8, SLAB_HEADER_LEN + Bytes(content)) \o N(1, 0) \o N(1, 0) \o content]

encode_slab(ordinal, drops) ==
    LET content == EncodeRecords(drops) \o FlattenSeq([i \in DOMAIN drops |-> B(drops[i].len, <<"C", drops[i].id>>)])
    IN  SlabFile(ordinal, hash_section(content), content)

parse_slab_header_with_ceiling(c) ==
    Check(ReadAll(c, << <<"magic", 4>>, <<"format_version", 2>>, <<"ordinal", 8>>, <<"hash", 32>>,
                        <<"total_length", 8>>, <<"ec_descriptor", 1>>, <<"crypto_hint", 1>> >>),
          LAMBDA v : /\ v.magic = <<"M", "LIM1">> /\ v.format_version = 1
                     /\ v.total_length \in SLAB_HEADER_LEN..(64 * 1024 * 1024)
                     /\ v.ec_descriptor # 255 /\ v.crypto_hint # 255)

\* u32::MAX, as far as TLC's integers reach.
MaxU32 == 2147483647

parse_drop_record_with_ceiling(c, header) ==
    Check(ReadAll(c, << <<"id", 32>>, <<"plaintext_len", 4>>, <<"codec", 1>>, <<"aead", 1>>, <<"ec", 1>>,
                        <<"window", 1>>, <<"offset", 4>>, <<"len", 4>>, <<"dict_id", 1>>, <<"flags", 1>> >>),
          LAMBDA v : /\ v.plaintext_len <= 64 * 1024 * 1024
                     /\ header.crypto_hint = 0 => v.aead = 0
                     /\ header.ec_descriptor = 0 => v.ec = 0
                     /\ v.offset <= MaxU32 - v.len)

TakeRecord(a, p) == [a EXCEPT !.c = p, !.records = Append(@, p.v), !.sum = @ + p.v.len]

\* Mutant: the loop ends as soon as less than a record is left.
ReadRecordGreedy(a, header) ==
    IF a.c.ok /\ a.c.left >= DROP_RECORD_LEN
    THEN TakeRecord(a, parse_drop_record_with_ceiling(a.c, header))
    ELSE [a EXCEPT !.done = TRUE]

\* The slab does not say how many records it has: records are read until what
\* is left is exactly the windows of the records read so far.
ReadRecord(a, header) ==
    IF ~a.c.ok \/ a.done THEN a
    ELSE IF a.c.left = a.sum THEN [a EXCEPT !.done = TRUE]
    ELSE IF a.c.left < a.sum + DROP_RECORD_LEN THEN [a EXCEPT !.c.ok = FALSE]
    ELSE TakeRecord(a, parse_drop_record_with_ceiling(a.c, header))

ReadRecords(h) ==
    Fold(LAMBDA a, i : ReadRecord(a, h.v), [c |-> h, records |-> <<>>, sum |-> 0, done |-> FALSE],
         [i \in 1..(h.left \div DROP_RECORD_LEN + 1) |-> i])

parse_slab(bytes) ==
    ReadRecords(Check(parse_slab_header_with_ceiling(CursorAt(bytes, Bytes(bytes))),
                      LAMBDA v : v.total_length = Bytes(bytes)))

\* SlabView::plaintext_for up to the codec: the window bytes of a drop.
drop_window_bounds(view, id) ==
    LET r == SelectSeq(view.records, LAMBDA x : x.id = id)[1]
    IN  ReadRegion(ReadRegion(view.c, "before", r.offset), "raw", r.len)

----------------------------------------------------------------------------
(* assemble: the files of an image.                                         *)

SectionHashes(meta, header, flags, metaref, index, ec, dms, delta, history) ==
    <<meta, header, flags, metaref, index, <<"H", <<>> >>, ec, dms, delta, history>>

\* Mutant: the slab index is left out of the hashed concatenation.
RootOfNine(hashes) == <<"R", SubSeq(hashes, 1, 4) \o SubSeq(hashes, 6, 10)>>

compute_merkle_root(hashes) == <<"R", hashes>>

EMPTY == hash_section(<<>>)

\* The blob as it is stored: compressed when that is shorter, in the manifest
\* or, past the threshold, in a sidecar the manifest names.
OnWire(o, blob) ==
    [codec |-> IF o.compresses THEN o.codec ELSE CODEC_STORE,
     bytes |-> IF o.compresses THEN Packed(o.codec, blob) ELSE blob,
     uris  |-> IF o.external THEN <<Str(21, 9)>> ELSE <<>>]

SharedOf(o) == IF o.shared THEN build_shared_inline_table(o.tree) ELSE <<>>

\* o: the tree, whether the inline table is shared, the metadata codec, whether
\* the blob compresses, whether it exceeds the externalize threshold, the
\* trained dictionaries and the root of the base (NONE for a standalone image).
\* The section of the profile descriptor is never there: no caller sets its name.
assemble(o) ==
    LET shared == SharedOf(o)
        blob   == EncodeMetadata(o.tree, shared)
        wire   == OnWire(o, blob)
        slabs  == [i \in DOMAIN o.tree.groups |-> encode_slab(i - 1, o.tree.groups[i])]
        flags  == EncodeFlags(<<>>)
        mref   == EncodeMetadataReference(hash_section(blob), Bytes(blob), wire.codec, wire.uris,
                                          IF o.external THEN <<>> ELSE wire.bytes)
        index  == EncodeSlabIndex(slabs)
        hist   == EncodeHistory(<<BuildEntry>>)
        dicts  == IF o.dicts = <<>> THEN <<>> ELSE encode_dictionary_section(o.dicts)
        delta  == IF o.base = NONE THEN <<>> ELSE to_section_bytes(o.base, <<>>)
    IN  [manifest |-> EncodeHeader \o flags \o mref \o index \o hist \o dicts \o delta,
         covered  |-> Len(EncodeHeader \o flags \o mref \o index \o hist),
         sidecar  |-> IF o.external THEN wire.bytes ELSE <<>>,
         slabs    |-> slabs,
         root     |-> compute_merkle_root(SectionHashes(hash_section(blob), hash_section(EncodeHeader),
                          hash_section(flags), hash_section(mref), hash_section(index), EMPTY, EMPTY,
                          hash_section(delta), hash_section(hist)))]

----------------------------------------------------------------------------
(* The readers.                                                             *)

\* A best-effort section: whatever it returned, the next one is tried from
\* where it stopped.
Lenient(c) == [c EXCEPT !.ok = TRUE]

\* Where a section ends, and the hash of the bytes between two ends.
Mark(c, name) == Set(c, name, c.pos)

Section(c, from, to) == hash_section(SubSeq(c.s, c.v[from], c.v[to] - 1))

Inflated(d) == [ok |-> d.ok, s |-> d.s, left |-> Bytes(d.s)]

read_external_metadata(ref, sidecar, left) ==
    IF sidecar = NONE THEN [ok |-> FALSE, s |-> <<>>, left |-> 0]
    ELSE IF ref.codec = CODEC_STORE THEN [ok |-> TRUE, s |-> sidecar[2], left |-> left]
    ELSE Inflated(IF left = Bytes(sidecar[2]) THEN decompress(ref.codec, sidecar[2], ref.uncompressed_len)
                  ELSE [ok |-> FALSE, s |-> <<>>])

Failed == [ok |-> FALSE]

MetadataBytes(m, sidecar, sleft) ==
    IF ~m.ok THEN [ok |-> FALSE, s |-> <<>>, left |-> 0]
    ELSE IF m.v.inline # NONE THEN [ok |-> TRUE, s |-> m.v.inline[2], left |-> Bytes(m.v.inline[2])]
    ELSE read_external_metadata(m.v, sidecar, sleft)

ParseBytes(b) == Require(parse_metadata_blob(CursorAt(b.s, b.left)), b.ok)

\* The history and the dictionaries are best effort.
TrailingDicts(c) == IF c.left > 0 THEN Set(parse_dictionary_section(c), "end", c.left) ELSE Set(Require(c, FALSE), "end", c.left)

\* root_inode_number: the directories no directory node refers to.
RootCandidates(v) ==
    LET referenced == UNION {{n.entries[e].inode : e \in DOMAIN n.entries} : n \in {v.dir_nodes[k] : k \in DOMAIN v.dir_nodes}}
    IN  {v.inodes[k].number : k \in {j \in DOMAIN v.inodes : /\ FileType(v.inodes[j].mode) = S_IFDIR
                                                             /\ v.inodes[j].number \notin referenced}}

\* A tree without exactly one root is refused.
ImageView(t, i, d) ==
    IF ~(t.ok /\ i.ok) THEN Failed
    ELSE IF Cardinality(RootCandidates(t.v)) # 1 THEN Failed
    ELSE [ok |-> TRUE, inodes |-> t.v.inodes, dir_nodes |-> t.v.dir_nodes, slabs |-> i.v.entries,
          dicts |-> IF d.ok THEN <<"dicts", d.v.dicts>> ELSE NONE,
          unread |-> IF d.ok THEN d.left ELSE d.v.end]

WithSlabIndex(t, i) == ImageView(t, i, TrailingDicts(Lenient(parse_history(i))))

WithMetadata(m, sidecar, sleft) == WithSlabIndex(ParseBytes(MetadataBytes(m, sidecar, sleft)), parse_slab_index(m))

\* load_image: the tree, the slab index, the dictionaries (or NONE) and the
\* bytes no section accounts for.
load_image(manifest, left, sidecar, sleft) ==
    WithMetadata(parse_metadata_reference(parse_feature_flags_section(parse_manifest_header(CursorAt(manifest, left)))),
                 sidecar, sleft)

ReadHeader(manifest, left) == Mark(parse_manifest_header(Mark(CursorAt(manifest, left), "start")), "header")

\* Every section in turn; a section that fails leaves the cursor failed.
ReadSections(h) ==
    Mark(parse_history(Mark(parse_slab_index(Mark(parse_metadata_reference(
        Mark(parse_feature_flags_section(h), "flags")), "metadata")), "index")), "history")

RootOfSections(c, history) ==
    compute_merkle_root(SectionHashes(c.v.metadata_hash, Section(c, "start", "header"), Section(c, "header", "flags"),
        Section(c, "flags", "metadata"), Section(c, "metadata", "index"), EMPTY, EMPTY, EMPTY, history))

ManifestView(c) ==
    IF ~c.ok THEN Failed ELSE [ok |-> TRUE, root |-> RootOfSections(c, Section(c, "index", "history"))]

\* read_manifest: the root verify prints and sign signs.  It reads the file once,
\* ReadBudget bytes at most; what is beyond them is not there.  Its flags are those
\* of the file, and the writer sets none, so has_ec and has_dms are FALSE.
read_manifest(manifest, left) ==
    ManifestView(ReadSections(ReadHeader(manifest, IF left < ReadBudget THEN left ELSE ReadBudget)))

\* Mutant: the history is taken to start where the dictionaries do.
RootWithoutHistory(manifest, left) == RootOfSections(ReadSections(ReadHeader(manifest, left)), EMPTY)

\* The same sections, every one best effort: flags that do not parse count as
\* absent, a metadata reference that does not parse has the empty hash.
LenientFlags(c) == Lenient(Set(c, "flags", IF c.ok THEN c.pos ELSE c.v.header))

LenientMetadata(c) ==
    Lenient(Set(Mark(c, "metadata"), "metadata_hash", IF c.ok THEN c.v.metadata_hash ELSE EMPTY))

LenientSections(h) ==
    Mark(parse_history(Lenient(Mark(parse_slab_index(LenientMetadata(parse_metadata_reference(
        LenientFlags(parse_feature_flags_section(h))))), "index"))), "history")

LenientRoot(h, c) == IF ~h.ok THEN NONE ELSE RootOfSections(c, Section(c, "index", "history"))

BaseRoot(h) == LenientRoot(h, LenientSections(h))

\* The root a layer records for its base.
compute_merkle_root_from_sections(manifest, left) == BaseRoot(ReadHeader(manifest, left))

----------------------------------------------------------------------------
(* One image, and at most one fault.                                        *)

VARIABLES
    opt,      \* what was written
    file,     \* the manifest and the slabs as they are now, the root assemble reported
    left,     \* bytes of the manifest that are there
    sidecar,  \* the metadata sidecar, NONE if there is none
    sleft,    \* bytes of the sidecar that are there
    fault,    \* "none", "cut", "lost", "damaged"
    hit       \* the field of the manifest that was damaged

vars == <<opt, file, left, sidecar, sleft, fault, hit>>

CONSTANT Options

Init ==
    /\ opt \in Options
    /\ file = assemble(opt)
    /\ left = Bytes(file.manifest)
    /\ sidecar = IF opt.external THEN <<"file", file.sidecar>> ELSE NONE
    /\ sleft = Bytes(file.sidecar)
    /\ fault = "none"
    /\ hit = 0

\* A file may end after any byte.
Cuts(s) == 0..(Bytes(s) - 1)

CutManifest ==
    /\ fault = "none"
    /\ left' \in Cuts(file.manifest)
    /\ fault' = "cut"
    /\ UNCHANGED <<opt, file, sidecar, sleft, hit>>

CutSidecar ==
    /\ fault = "none" /\ sidecar # NONE
    /\ sleft' \in Cuts(file.sidecar)
    /\ fault' = "cut"
    /\ UNCHANGED <<opt, file, left, sidecar, hit>>

LoseSidecar ==
    /\ fault = "none" /\ sidecar # NONE
    /\ sidecar' = NONE
    /\ fault' = "lost"
    /\ UNCHANGED <<opt, file, left, sleft, hit>>

Damaged(t) == [t EXCEPT !.v = IF t.k = "n" THEN t.v + 1 ELSE <<"X", t.v>>]

DamageManifest ==
    /\ fault = "none"
    /\ hit' \in DOMAIN file.manifest
    /\ file' = [file EXCEPT !.manifest[hit'] = Damaged(@)]
    /\ fault' = "damaged"
    /\ UNCHANGED <<opt, left, sidecar, sleft>>

Next == CutManifest \/ CutSidecar \/ LoseSidecar \/ DamageManifest

Spec == Init /\ [][Next]_vars

----------------------------------------------------------------------------
Loaded == load_image(file.manifest, left, sidecar, sleft)

ExpectedHandle(x) ==
    CASE x[1] = "Inline"     -> <<"InlineData", x[2]>>
      [] x[1] = "DropBacked" -> <<"SliceMap", [i \in DOMAIN x[2] |->
            [start |-> x[2][i].start, end |-> x[2][i].end, drop |-> x[2][i].drop,
             drop_start |-> 0, drop_len |-> x[2][i].end - x[2][i].start]]>>
      [] x[1] = "Symlink"    -> <<"Symlink", x[2]>>
      [] x[1] = "Directory"  -> <<"Directory", hash_section(encode_dir_node(x[2]))>>

\* The parsed inode is the one written: attributes, xattrs in order, content.
SameInode(p, i) ==
    /\ <<p.number, p.mode, p.uid, p.gid, p.mtime_ns, p.ctime_ns, p.nlink>>
       = <<i.number, i.mode, i.uid, i.gid, i.mtime, i.mtime, Nlink(opt.tree, i.number)>>
    /\ [x \in DOMAIN p.xattrs |-> <<p.xattrs[x].namespace, p.xattrs[x].key, p.xattrs[x].value>>]
       = [x \in DOMAIN i.xattrs |-> <<i.xattrs[x].namespace, i.xattrs[x].key, i.xattrs[x].value>>]

SameTree(v, Same(_, _)) ==
    /\ Len(v.inodes) = Len(opt.tree.inodes)
    /\ \A n \in DOMAIN v.inodes :
           /\ SameInode(v.inodes[n], opt.tree.inodes[n])
           /\ Same(v.inodes[n].handle, ExpectedHandle(opt.tree.inodes[n].content))
    /\ [n \in DOMAIN v.dir_nodes |-> [e \in DOMAIN v.dir_nodes[n].entries |->
          <<v.dir_nodes[n].entries[e].name, v.dir_nodes[n].entries[e].inode, v.dir_nodes[n].entries[e].type>>]]
       = [n \in DOMAIN DirNodes(opt.tree) |-> [e \in DOMAIN DirNodes(opt.tree)[n] |->
          <<DirNodes(opt.tree)[n][e].name, DirNodes(opt.tree)[n][e].inode, DirNodes(opt.tree)[n][e].type>>]]
    /\ [n \in DOMAIN v.slabs |-> <<v.slabs[n].ordinal, v.slabs[n].hash, v.slabs[n].locators[1].uri>>]
       = [n \in DOMAIN file.slabs |-> <<file.slabs[n].ordinal, file.slabs[n].hash, file.slabs[n].locator>>]

ExpectedDicts ==
    IF opt.dicts = <<>> THEN NONE
    ELSE <<"dicts", [i \in DOMAIN opt.dicts |-> [codec_id |-> opt.dicts[i].codec_id,
              class_id |-> opt.dicts[i].class_id, data |-> opt.dicts[i].data, len |-> Len32(opt.dicts[i].data)]]>>

\* What was read is what was written, with nothing left over but the delta
\* linkage of a layer.
ReadsBack(v) ==
    /\ v.ok
    /\ SameTree(v, LAMBDA got, want : got = want)
    /\ v.dicts = ExpectedDicts
    /\ v.unread = IF opt.base = NONE THEN 0 ELSE 37

\* The reader's ceiling holds for every content stored inline or in the table.
InlineFits == \A i \in DOMAIN Inlines(opt.tree) : Len32(Inlines(opt.tree)[i][2]) <= InlineMax

\* What assemble writes load_image reads back: every inode with its
\* attributes, xattrs and content (shared inline contents resolved), the
\* directory nodes, the slab index and the dictionaries, with nothing left
\* over but the delta linkage of a layer.  One inline file above the reader's
\* ceiling and the whole image is refused: the profiles max-ratio, max-read and
\* max-read-rw inline files of up to 8192 bytes (profile.rs:94), every reader refuses
\* more than 4096 (inode.rs:287, metadata.rs:257), where CHANGELOG.md says "no
\* configuration can emit unreadable inline metadata".
ImageRoundTrips == fault = "none" => IF InlineFits THEN ReadsBack(Loaded) ELSE ~Loaded.ok

HasWindow(w, drop) == w.ok /\ w.v.raw = B(drop.len, <<"C", drop.id>>)

ViewOf(view, drops) ==
    /\ view.c.ok /\ view.done
    /\ [i \in DOMAIN view.records |-> view.records[i].id] = [i \in DOMAIN drops |-> drops[i].id]
    /\ \A i \in DOMAIN drops : HasWindow(drop_window_bounds(view, drops[i].id), drops[i])

\* parse_slab finds the boundary between the records and the solid window,
\* which the slab does not store, and every drop's window is its own bytes.
SlabsRoundTrip ==
    fault = "none" => \A n \in DOMAIN file.slabs : ViewOf(parse_slab(file.slabs[n].bytes), opt.tree.groups[n])

\* file_plaintext and file_chunks: a content that is neither inline data nor a slice
\* map, an unresolved shared reference that is, reads as an empty file.
AsRead(handle) == IF handle[1] = "SharedInline" THEN <<"InlineData", EmptyStr>> ELSE handle

\* The sidecar is the blob as it is, and ends where the shared table begins or
\* within the count of its entries.
CutAtSharedTable ==
    LET before == Bytes(file.sidecar) - Bytes(EncodeShared(SharedOf(opt)))
    IN  opt.external /\ ~opt.compresses /\ sleft \in before..(before + 3)

\* What a file with this content reads as after the cut.
AfterCut(want) ==
    IF CutAtSharedTable /\ want[1] = "InlineData" /\ want[2] \in {SharedOf(opt)[i] : i \in DOMAIN SharedOf(opt)}
    THEN <<"InlineData", EmptyStr>> ELSE want

NotMisread(v) ==
    v.ok => /\ SameTree(v, LAMBDA got, want : AsRead(got) = AfterCut(want))
            /\ v.dicts \in {NONE, ExpectedDicts}

\* A manifest or a sidecar that was cut short (an interrupted copy) is refused, or
\* its files read as they were written and the dictionaries are all there or none,
\* but for one cut: a sidecar that is stored as it is and ends where the table of
\* shared inline contents begins loads, and the files that share a content read as
\* empty.  The parser takes a blob without the table for one that needs none
\* (metadata.rs:246), and nothing compares the length or the hash of a sidecar with
\* its reference, where the comment of SharedInline says "The index is resolved to
\* `InlineData` after the full metadata blob is parsed".
TornImageIsNeverMisread == fault \in {"cut", "lost"} => NotMisread(Loaded)

HasRoot(r, root) == r.ok /\ r.root = root

CoveredBytes == Bytes(SubSeq(file.manifest, 1, file.covered))

\* The three computations of the Merkle root agree on a standalone image:
\* the writer's (assemble), the one verify and sign use, and the one a layer
\* records as its base_root.  When the sections they cover do not fit into the
\* single read of verify and sign, those two refuse the image, which every other
\* command reads; the comment of VERIFY_READ_BUDGET says "Larger manifests fall back
\* to header-only reporting".
RootsAgree ==
    fault = "none" /\ opt.base = NONE =>
        /\ IF CoveredBytes <= ReadBudget THEN HasRoot(read_manifest(file.manifest, left), file.root)
           ELSE ~read_manifest(file.manifest, left).ok
        /\ compute_merkle_root_from_sections(file.manifest, left) = file.root

\* One damaged field among the sections the root covers is refused by the
\* parsers or changes the root that verify reports.
DamageChangesRoot == hit \in 1..file.covered => ~HasRoot(read_manifest(file.manifest, left), file.root)
=============================================================================
