---------------------------- MODULE MCAlgorithms ----------------------------
(***************************************************************************)
(* The pure algorithms over bounded inputs: an input is chosen, one action   *)
(* per operation computes its output, and the invariants compare the output  *)
(* with what the input says it must be.  <<kind, arguments>> is an input,    *)
(* <<"none", ...>> the output before the computation.                        *)
(***************************************************************************)
EXTENDS ErasureCode, SecretSharing, Layers

VARIABLES input, output

vars == <<input, output>>

None == <<"none", 0>>

----------------------------------------------------------------------------
(* Chunking: a three-bit fingerprint, so the gear window is three bytes.     *)

C == INSTANCE Chunker WITH WordBits <- 3, Gear <- (0 :> 1) @@ (1 :> 6)

Sizings == {c \in [min : 1..2, avg : {2, 3, 5}, max : {4, 10}] : C!ValidSizes(c)}

MaxData == 9

ChunkInputs == {<<"chunk", c, d, l>> : c \in Sizings, d \in UNION {[1..n -> {0, 1}] : n \in 0..MaxData}, l \in 1..3}

Chunk ==
    /\ input[1] = "chunk"
    /\ output' = <<"chunk", C!chunk_slice(input[2], input[3]), C!chunk_reader(input[2], input[3]),
                   C!chunk_slice_with_lanes(input[2], input[3], input[4])>>

----------------------------------------------------------------------------
(* Policy sections, delta linkage and archives.                              *)

P == INSTANCE PolicySections WITH Trees <- {}, InlineMax <- 0, MetadataMax <- 0, DictMax <- 0

Texts == {P!EmptyStr, P!Str(3, 1), P!Str(16, 2)}

\* Names at the limit a parser sets, over it, and on both sides of what a byte can count.
LongNames == {P!Str(n, 3) : n \in {64, 65, 255, 256}}

Rule(name, extensions, magic, enabled, max_size) ==
    [name |-> name, extensions |-> extensions, magic |-> magic, codec |-> 7, enabled |-> enabled, max_size |-> max_size]

Blob(n) == P!Str(n, n)

SectionInputs ==
    {<<"encryption", [aead_id |-> 1, key_wrap_id |-> w, recipient |-> Blob(32), ephemeral |-> Blob(32), nonce |-> Blob(24),
                      key |-> Blob(48)]>> : w \in {0, 1}}
    \cup {<<"profile", [profile_name |-> t, options |-> o]>> : t \in Texts \cup LongNames,
            o \in {[i \in 1..6 |-> i = n] : n \in 0..6} \cup {[i \in 1..6 |-> TRUE]}}
    \cup {<<"categorization", rs>> :
            rs \in {<<>>} \cup UNION {[1..n -> {Rule(P!Str(3, 1), e, P!EmptyStr, b, x) : e \in {<<>>, <<P!Str(2, 1), P!Str(4, 2)>>},
                                                     b \in BOOLEAN, x \in {P!NONE, <<"max", 65536>>}}] : n \in 1..2}
                   \cup {<<Rule(t, <<P!Str(n, 1)>>, Blob(g), TRUE, P!NONE)>> : t \in LongNames, n \in {16, 17}, g \in {64, 65}}
                   \cup {<<Rule(P!EmptyStr, [i \in 1..n |-> P!Str(1, i)], P!EmptyStr, TRUE, P!NONE)>> : n \in {64, 65}}}
    \cup {<<"chunking", [min |-> a, avg |-> b, max |-> c]>> : a \in {1, 2}, b \in {2, 5}, c \in {5, 9}}
    \cup {<<"tournament", [codecs |-> Blob(n), min_size |-> 256, skip_for_binary |-> b]>> : n \in {0, 2, 32, 33}, b \in BOOLEAN}
    \cup {<<"ec", [k |-> k, m |-> 255 - k, overrides |-> o]>> : k \in {1, 254},
            o \in {<<>>, <<[ordinal |-> 1, hash |-> Blob(32), k |-> 2, m |-> 1]>>,
                   <<[ordinal |-> 1, hash |-> Blob(32), k |-> 2, m |-> 1], [ordinal |-> 2, hash |-> Blob(32), k |-> 1, m |-> 1]>>}}
    \cup {<<"dms", [k |-> k, n |-> 2, hint |-> t,
                    shares |-> <<[custodian_id |-> P!Str(3, 1), share_data |-> Blob(n)],
                                 [custodian_id |-> P!Str(3, 2), share_data |-> Blob(33)]>>]>> :
            k \in 1..2, t \in Texts \cup {Blob(4096), Blob(4097)}, n \in {0, 33, 1024, 1025}}
    \cup {<<"linkage", ops>> : ops \in UNION {[1..n -> {[kind |-> k, path |-> P!Str(3, 1), inode |-> IF k = 2 THEN P!NONE ELSE 42] :
                                                           k \in 1..3}] : n \in 0..2}}

EncodedSection(kind, x) ==
    CASE kind = "encryption"     -> P!encode_encryption_descriptor(x)
      [] kind = "profile"        -> P!encode_profile_descriptor(x)
      [] kind = "categorization" -> P!encode_categorization_policy(x)
      [] kind = "chunking"       -> P!encode_chunking_config(x)
      [] kind = "tournament"     -> P!encode_compression_tournament_config(x)
      [] kind = "ec"             -> P!EncodeEcParams(x)
      [] kind = "dms"            -> P!EncodeDmsPolicy(x)
      [] kind = "linkage"        -> P!to_section_bytes(Blob(32), x)

ParsedSection(kind, c) ==
    CASE kind = "encryption"     -> P!parse_encryption_descriptor(c)
      [] kind = "profile"        -> P!parse_profile_descriptor(c)
      [] kind = "categorization" -> P!parse_categorization_policy(c)
      [] kind = "chunking"       -> P!parse_chunking_config(c)
      [] kind = "tournament"     -> P!parse_compression_tournament_config(c)
      [] kind = "ec"             -> P!parse_ec_params(c)
      [] kind = "dms"            -> P!parse_dms_policy(c)
      [] kind = "linkage"        -> P!parse_delta_linkage(c)

\* The fields of the value x that its parse carries.
SameValue(kind, x, v) ==
    CASE kind = "encryption" ->
            v.aead_id = x.aead_id /\ v.key_wrap_id = x.key_wrap_id
            /\ (x.key_wrap_id # 0 => <<v.recipient, v.ephemeral, v.nonce, v.key>> = <<x.recipient, x.ephemeral, x.nonce, x.key>>)
      [] kind = "profile"        -> v.profile_name = x.profile_name /\ v.options = x.options
      [] kind = "categorization" -> [i \in DOMAIN v.rules |-> P!RuleOf(v.rules[i])] = x
      [] kind = "chunking"       -> <<v.min, v.avg, v.max>> = <<x.min, x.avg, x.max>>
      [] kind = "tournament"     -> <<v.codecs, v.min_size>> = <<x.codecs, x.min_size>> /\ P!Flag(v.flags, 1) = x.skip_for_binary
      [] kind = "ec"             -> v.k = x.k /\ v.m = x.m /\ v.overrides = x.overrides
      [] kind = "dms"            ->
            /\ <<v.k, v.n, v.hint>> = <<x.k, x.n, x.hint>>
            /\ [i \in DOMAIN v.shares |-> <<v.shares[i].custodian_id, v.shares[i].share_data>>]
               = [i \in DOMAIN x.shares |-> <<x.shares[i].custodian_id, x.shares[i].share_data>>]
      [] kind = "linkage"        ->
            /\ v.base_root = Blob(32)
            /\ [i \in DOMAIN v.tree_ops |-> <<v.tree_ops[i].kind, v.tree_ops[i].path, v.tree_ops[i].inode>>]
               = [i \in DOMAIN x |-> <<x[i].kind, x[i].path, x[i].inode>>]

\* What the parsers set limits to.
WithinLimits(kind, x) ==
    CASE kind = "profile"        -> P!Len32(x.profile_name) <= P!MAX_NAME_LEN
      [] kind = "categorization" ->
            \A i \in DOMAIN x : /\ P!Len32(x[i].name) <= P!MAX_NAME_LEN /\ P!Len32(x[i].magic) <= P!MAX_MAGIC_LEN
                               /\ Len(x[i].extensions) <= P!MAX_EXT_COUNT
                               /\ \A j \in DOMAIN x[i].extensions : P!Len32(x[i].extensions[j]) <= P!MAX_EXT_LEN
      [] kind = "tournament"     -> P!Len32(x.codecs) <= P!MAX_CODEC_COUNT
      [] kind = "dms"            ->
            P!Len32(x.hint) <= P!MaxHint /\ \A i \in DOMAIN x.shares : P!Len32(x.shares[i].share_data) \in 1..P!MaxShareData
      [] OTHER                   -> TRUE

\* The section parsed whole, and the shorter lengths at which it still parses.
AllCuts(kind, s) ==
    <<"section", ParsedSection(kind, P!CursorAt(s, P!Bytes(s))),
      {left \in 0..(P!Bytes(s) - 1) : ParsedSection(kind, P!CursorAt(s, left)).ok}>>

Section ==
    /\ input[1] = "section"
    /\ output' = AllCuts(input[2], EncodedSection(input[2], input[3]))

Blocks == [digest : {[i \in 1..32 |-> 7], [i \in 1..32 |-> 200]}, data : {<<>>, <<9>>, [i \in 1..100 |-> 1]}]

CarInputs == {<<"car", bs>> : bs \in UNION {[1..n -> Blocks] : n \in 0..2}}

CarCuts(s) == <<"car", Len(s), [left \in 0..Len(s) |-> P!decode_car_v1(SubSeq(s, 1, left))]>>

Car ==
    /\ input[1] = "car"
    /\ output' = CarCuts(P!encode_car_v1(input[2]))

----------------------------------------------------------------------------
(* Epoch files.                                                              *)

E == INSTANCE Epochs WITH Trees <- {}, InlineMax <- 0, MetadataMax <- 0, DictMax <- 0

Id(i) == <<"id", i>>

OpValues == [path |-> P!Str(3, 1), to |-> P!Str(1, 2), drop_id |-> Id(7), len |-> 9, mode |-> 420, mtime |-> 5]

EpochOps == {[kind |-> k, v |-> [f \in E!FieldNames(k) |-> OpValues[f]]] : k \in DOMAIN E!OpLayout}

EpochDrops == {[drop_id |-> Id(7), codec |-> 2, plaintext_len |-> 9, payload |-> p] : p \in {P!EmptyStr, P!Str(4, 1)}}

HeaderOf(flags) ==
    [version |-> E!EPOCH_FORMAT_VERSION, flags |-> flags, parent_epoch_id |-> Id(1), base_image_root |-> Id(2), epoch_sequence |-> 1,
     ops_hash |-> E!ZeroId, drops_hash |-> E!ZeroId, own_epoch_id |-> E!ZeroId, timestamp_unix |-> 6]

EpochInputs ==
    {<<"epoch", HeaderOf(h), ops, drops>> : h \in {0, 3}, ops \in UNION {[1..n -> EpochOps] : n \in 0..2},
        drops \in UNION {[1..n -> EpochDrops] : n \in 0..1}}

\* A field replaced by another value of its width.
Tampered(s, i) == [s EXCEPT ![i].v = IF s[i].k = "n" THEN (@ + 1) % 2 ELSE <<"other", @[1]>>]

\* The header, the file read back, read with each field replaced, and its operations cut at each byte.
EpochRead(header, s, ops) ==
    <<"epoch", header, E!from_bytes(s, E!Bytes(s)), [i \in DOMAIN s |-> E!from_bytes(Tampered(s, i), E!Bytes(s)).ok],
      [left \in 0..E!Bytes(ops) |-> E!parse_op_section(E!CursorAt(ops, left)).ok]>>

EpochOf(e) == EpochRead(e.header, E!to_bytes(e), E!write_op_section(e.ops))

Epoch ==
    /\ input[1] = "epoch"
    /\ output' = EpochOf(E!build(input[2], input[3], input[4]))

----------------------------------------------------------------------------
(* Keys, signatures and sparse indexes.                                      *)

K == INSTANCE Sidecars WITH Trees <- {}, InlineMax <- 0, MetadataMax <- 0, DictMax <- 0

Keys == {[i \in 1..K!KeyLen |-> (a * i + b) % 256] : a \in {0, 1, 77}, b \in {0, 63, 255}}

KeyInputs == {<<"key", k, cut>> : k \in Keys, cut \in {0, 1, 2, 5}}

\* input[3]: the characters lost from the end of the body.
CutPem(pem, cut) == [pem EXCEPT !.body = SubSeq(@, 1, Len(@) - cut)]

Key ==
    /\ input[1] = "key"
    /\ LET private == CutPem(K!encode_private_pkcs8_pem(input[2]), input[3])
           public == CutPem(K!encode_public_spki_pem(input[2]), input[3])
       IN output' = <<"key", K!decode_private_pkcs8_pem(private), K!decode_public_spki_pem(public),
                      K!decode_public_spki_pem(private), K!decode_private_pkcs8_pem(public)>>

\* input[4]: the length of the file; input[5]: the root of the image it is found beside.
LimsigInputs == {<<"limsig", seed, root, n, beside>> : seed \in 1..2, root \in {Id(1), Id(2)}, n \in 0..140, beside \in {Id(1), Id(2)}}

Limsig ==
    /\ input[1] = "limsig"
    /\ LET r == K!from_limsig(K!to_limsig(K!sign(input[2], input[3])), input[4])
       IN output' = <<"limsig", r.ok, r.ok /\ K!verify([r.v EXCEPT !.manifest_root = input[5]])>>

IndexIds == {<<0, 0>>, <<5, 3>>, <<1023, 1023>>, <<700, 512>>}

IndexInputs ==
    UNION {{<<"index", SetToSeq(ids), expected, left>> : expected \in {0, Cardinality(ids)}, left \in 0..30} : ids \in SUBSET IndexIds}

Index ==
    /\ input[1] = "index"
    /\ LET s == K!serialise(K!Fold(K!insert, K!new_index(input[3]), input[2]))
           whole == K!Bytes(s)
           r == K!deserialise(s, IF input[4] < whole THEN input[4] ELSE whole)
       IN output' = <<"index", whole, r.ok, r.ok /\ r.v.num_bits # 0,
                      {i \in DOMAIN input[2] : r.ok /\ K!probably_contains(r.v, input[2][i])}>>

----------------------------------------------------------------------------
(* Shards and shares over the field of eight elements.                       *)

ShardBytes(k) == IF k < 3 THEN Field ELSE {0, 1, 6}

\* odd: a slot whose shard has a byte too many, 0 for none.
RepairInputs ==
    UNION {{<<"repair", p[1], p[2], d, lost, odd>> :
              d \in [1..p[1] -> ShardBytes(p[1])], lost \in SUBSET (1..(p[1] + p[2])), odd \in {0, 1, p[1] + p[2]}} :
           p \in {<<1, 1>>, <<1, 2>>, <<2, 1>>, <<2, 2>>, <<3, 2>>}}

WholeShards(k, m, d) == encode([i \in 1..k |-> <<d[i], i>>], k, m).v

Slots(whole) ==
    [i \in DOMAIN whole |-> IF i \in input[5] THEN Missing
                            ELSE <<"shard", IF i = input[6] THEN whole[i] \o <<0>> ELSE whole[i]>>]

RepairSlots(slots, k, m) == repair_shards(SubSeq(slots, 1, k), SubSeq(slots, k + 1, k + m), k, m)

Repair ==
    /\ input[1] = "repair"
    /\ output' = <<"repair", RepairSlots(Slots(WholeShards(input[2], input[3], input[4])), input[2], input[3])>>

\* <<"share", secret, k, n, coefficients, the custodians who bring their share>>
ShareInputs ==
    {<<"share", <<s>>, 2, 3, <<<<c>>>>, who>> : s \in Field, c \in Field, who \in SUBSET (1..3)}
    \cup {<<"share", <<s, t>>, 2, 3, <<<<c>>, <<d>>>>, who>> : s \in {0, 6}, t \in {1, 7}, c \in {0, 5}, d \in {3, 4}, who \in SUBSET (1..3)}
    \cup {<<"share", <<s>>, 3, 4, <<<<c, d>>>>, who>> : s \in {0, 5}, c \in Field, d \in Field, who \in SUBSET (1..4)}
    \cup {<<"share", <<1>>, k, n, <<[i \in 1..(k - 1) |-> 2]>>, {1}>> : k \in 1..3, n \in {1, 2, 8}}

Brought(shares, who) == SelectSeq(shares, LAMBDA s : s[1] \in who)

Share ==
    /\ input[1] = "share"
    /\ LET shares == split(input[2], input[3], input[4], input[5])
       IN output' = <<"share", shares, combine(Brought(shares, input[6]))>>

----------------------------------------------------------------------------
(* Trees of two names and two levels.                                        *)

File(content) == [type |-> "file", mode |-> 0, owner |-> 1, content |-> content]

Directory(mode) == [type |-> "dir", mode |-> mode, owner |-> 1, content |-> EmptyDir]

Contents == {<<"inline", <<1>>>>, <<"inline", <<2>>>>, <<"slices", <<1, 2>>>>}

\* What may stand under a name: nothing, a file, a link, or a directory holding at most one file.
Subtrees ==
    {<<>>} \cup {Root :> File(c) : c \in Contents}
    \cup {Root :> [File(<<"symlink", 5>>) EXCEPT !.type = "symlink"], Root :> Directory(0)}
    \cup {(Root :> Directory(0)) @@ (<<n>> :> File(c)) : n \in 1..2, c \in {<<"inline", <<1>>>>, <<"slices", <<1, 2>>>>}}

Grafted(n, sub) == [p \in {<<n>> \o q : q \in DOMAIN sub} |-> sub[Tail(p)]]

TreeOf(a, b) == (Root :> Directory(1)) @@ Grafted(1, a) @@ Grafted(2, b)

SampleTrees == {TreeOf(a, b) : a \in Subtrees, b \in Subtrees}

DeltaInputs == {<<"delta", p, c>> : p \in SampleTrees, c \in SampleTrees}

Delta ==
    /\ input[1] = "delta"
    /\ output' = <<"delta", compute_delta_from_bytes(ImageOf(input[2], <<>>), ImageOf(input[3], <<>>))>>

LayerSlabs == <<<<<<2, <<"u">>>>>>, <<<<2, <<"u", "v">>>>, <<1, <<"w">>>>>>, <<<<3, <<"x">>>>, <<1, <<"u">>>>>>>>

SomeTrees == {TreeOf(a, a) : a \in Subtrees}

FlattenInputs ==
    {<<"flatten", <<a>>, 0>> : a \in SampleTrees} \cup {<<"flatten", <<a, b>>, i>> : a \in SampleTrees, b \in SomeTrees, i \in 0..1}
    \cup {<<"flatten", <<a, b, c>>, 0>> : a \in SomeTrees, b \in SomeTrees, c \in SomeTrees} \cup {<<"flatten", <<>>, 0>>}

\* input[3]: a layer whose metadata is external, 0 for none.
LayersOf(trees, external) ==
    [i \in DOMAIN trees |-> [ImageOf(trees[i], LayerSlabs[i]) EXCEPT !.inlined = i # external]]

Flatten ==
    /\ input[1] = "flatten"
    /\ output' = <<"flatten", flatten(LayersOf(input[2], input[3]))>>

----------------------------------------------------------------------------
(* Drops.                                                                    *)

D == INSTANCE Compression WITH SEEKABLE_FRAME_SIZE <- 300

\* The presets by name, and the settings of a user's file resolved over them.
Config(key) ==
    IF key[1] = "preset" THEN D!select[key[2]]
    ELSE D!resolve([text_codec |-> key[2], binary_codec |-> "", chunk_avg_size |-> key[3], skip_tournament_for_binary |-> FALSE,
                    enable_flac |-> FALSE, enable_ricepp |-> TRUE])

Configs == {<<"preset", n>> : n \in DOMAIN D!select} \cup {<<"custom", t, a>> : t \in {"", "zstd"}, a \in {0, 4096}}

Sample(entropy, zero, printable, magic) ==
    [empty |-> FALSE, entropy |-> entropy, zero |-> zero, printable |-> printable, magic |-> magic]

Samples == {Sample(0, 100, 0, "none"), Sample(40, 0, 100, "none"), Sample(50, 10, 20, "none"), Sample(70, 0, 30, "none"),
            Sample(40, 0, 10, "Media"), Sample(40, 0, 10, "Code")}

UsedCodecs(c) ==
    Range(D!TournamentSpec(c).codec_ids) \cup {D!NamedCodecs[c.text_codec], D!NamedCodecs[c.binary_codec]}

\* In per mille of the chunk; 0 for a codec that fails.
Outcomes == {0, 240, 600, 1100}

\* <<length, whether every frame of a container can be encoded>>, on both sides of the emission thresholds.
Chunks == {<<100, TRUE>>, <<1000, TRUE>>, <<1000, FALSE>>}

WholeFiles == {<<1000, TRUE>>, <<1500, TRUE>>, <<1500, FALSE>>}

DropInputs ==
    UNION {LET used == UsedCodecs(Config(c))
           IN {<<"drop", c, s, x, o>> : s \in Samples, x \in Chunks,
                  o \in [used \ {0} -> IF Cardinality(used) > 6 THEN Outcomes \ {240} ELSE Outcomes]} : c \in Configs}

\* The category's codec: FLAC, RICE++, FSST over Brotli, bzip2.
WholeInputs ==
    {<<"whole", c, cat, x, [id \in {2, 4, cat} |-> o[id]]>> : c \in {<<"preset", 2>>, <<"preset", 4>>}, cat \in {7, 8, 9, 16},
        x \in WholeFiles, o \in [{2, 4, 7, 8, 9, 16} -> {0, 40, 120, 600, 1100}]}

Codec(o, len) == [id \in 0..36 |-> IF id \in DOMAIN o THEN (o[id] * len) \div 1000 ELSE 0]

ChunkOf(x) == [id |-> 1, len |-> x[1]]

\* The tail of a container makes it longer than its frames.
Framed(x) == IF x[2] THEN x[1] + 10 ELSE 0

Drop ==
    /\ input[1] = "drop"
    /\ LET c == Config(input[2])
           Make(x, class, sizes, framed) == IF c.skip_chunking THEN D!SkipChunkingDrop(c, x, class, sizes, framed)
                                            ELSE D!ChunkDrop(c, x, class, sizes, framed)
       IN output' = <<"drop", Make(ChunkOf(input[4]), D!classify(input[3]), Codec(input[5], input[4][1]), Framed(input[4]))>>

WholeDrop ==
    /\ input[1] = "whole"
    /\ output' = <<"whole", D!process_whole_file_drop(Config(input[2]), ChunkOf(input[4]), input[3],
                                                       Codec(input[5], input[4][1]), Framed(input[4]))>>

S == INSTANCE Compression WITH SEEKABLE_FRAME_SIZE <- 3

SeekInputs ==
    {<<"seek", [i \in 1..n |-> i], off, len, size>> : n \in 0..8, off \in 0..9, len \in 0..9, size \in 1..3}

\* Frames compress to different sizes.
Seek ==
    /\ input[1] = "seek"
    /\ output' = <<"seek", S!decode_seekable_range(
                    S!encode_seekable(input[2], [i \in 1..8 |-> 1 + ((i * input[5]) % 3)]), input[3], input[4])>>

----------------------------------------------------------------------------
Init ==
    /\ input \in ChunkInputs \cup {<<"section">> \o s : s \in SectionInputs} \cup CarInputs \cup EpochInputs
                 \cup KeyInputs \cup LimsigInputs \cup IndexInputs \cup RepairInputs
                 \cup ShareInputs \cup DeltaInputs \cup FlattenInputs \cup DropInputs \cup WholeInputs \cup SeekInputs
    /\ output = None

Compute ==
    \/ Chunk \/ Section \/ Car \/ Epoch \/ Key \/ Limsig \/ Index
    \/ Repair \/ Share \/ Delta \/ Flatten \/ Drop \/ WholeDrop \/ Seek

Next == output = None /\ Compute /\ UNCHANGED input

Spec == Init /\ [][Next]_vars

----------------------------------------------------------------------------
\* ChunkersAgree: a slice is cut at the same places by the sequential chunker (FastCDC::chunk_slice), by the streaming
\* one (chunk_reader) and by the parallel one whatever the number of lanes (chunk_slice_with_lanes), so packing,
\* streaming and the lanes of a machine give the same drops; and the cut is a partition within the size limits.
ChunkersAgree ==
    output[1] = "chunk" =>
        /\ output[2] = output[3]
        /\ output[2] = output[4]
        /\ C!WellCut(input[2], input[3], output[2])

\* WireRoundTrips: within the parsers' limits, what a section's encoder writes its parser reads back to the last byte and
\* a section cut anywhere is refused; beyond them the section is refused, except that a profile comes back without its
\* overlong name: with its options when the name is too long for a byte to count and was not written, and otherwise with
\* the name unread and its first byte in the place of the options (profile_descriptor.rs:79; its layout puts the whole
\* name before them).  A CAR archive decodes to its blocks, and cut anywhere
\* to a prefix of them or to an error; an epoch file gives back its header, operations and drops, and is refused with any
\* of its fields changed; a PEM key gives back its 32 bytes, and nothing when it is cut or of the other kind; a signature
\* file is accepted only at its length and verifies only for the root that was signed; a sparse index read back holds
\* every drop inserted into it.
WireRoundTrips ==
    /\ output[1] = "section" =>
        LET kind == input[2]
            x == input[3]
            whole == output[2]
            unread == IF P!Len32(x.profile_name) > 255 THEN 0 ELSE P!Len32(x.profile_name)
        IN IF WithinLimits(kind, x)
           THEN whole.ok /\ whole.left = 0 /\ SameValue(kind, x, whole.v) /\ output[3] = {}
           ELSE IF kind = "profile"
           THEN /\ whole.ok /\ whole.left = unread /\ whole.v.profile_name = P!EmptyStr
                /\ unread = 0 => whole.v.options = x.options
                /\ unread > 0 => P!FlagsByte(whole.v.options) = P!Rank(x.profile_name)
           ELSE ~whole.ok /\ output[3] = {}
    /\ output[1] = "car" =>
        /\ output[3][output[2]].ok /\ output[3][output[2]].blocks = input[2]
        /\ \A left \in 0..(output[2] - 1) :
              output[3][left].ok => IsStrictPrefix(output[3][left].blocks, input[2])
    /\ output[1] = "epoch" =>
        /\ output[3].ok /\ output[3].left = 0
        /\ \A f \in DOMAIN output[2] : output[3].v[f] = output[2][f]
        /\ [i \in DOMAIN output[3].v.ops |-> E!OpOf(output[3].v.ops[i])] = input[3]
        /\ \A i \in DOMAIN input[4] : \A f \in DOMAIN input[4][i] : output[3].v.drops[i][f] = input[4][i][f]
        /\ \A i \in DOMAIN output[4] : ~output[4][i]
        /\ \A left \in DOMAIN output[5] : output[5][left] = (\A more \in DOMAIN output[5] : more <= left)
    /\ output[1] = "key" =>
        /\ output[2] = (IF input[3] = 0 THEN input[2] ELSE <<>>)
        /\ output[3] = output[2]
        /\ output[4] = <<>> /\ output[5] = <<>>
    /\ output[1] = "limsig" =>
        /\ output[2] = (input[4] = K!LIMSIG_LEN)
        /\ output[3] = (output[2] /\ input[3] = input[5])
    /\ output[1] = "index" =>
        /\ output[3] = (input[4] >= output[2])
        /\ output[4] => output[5] = DOMAIN input[2]

\* RepairRestores: repair_shards rebuilds exactly the shards that were written, data and parity, whichever of them are
\* lost while k survive, and refuses when fewer do; a surviving shard of the wrong length never changes what is rebuilt
\* (unless k is 1 and a shard is a whole copy, whose length nothing else tells).
RepairRestores ==
    output[1] = "repair" =>
        LET k == input[2]
            m == input[3]
            whole == WholeShards(k, m, input[4])
            r == output[2]
        IN /\ r.ok /\ (k > 1 \/ input[6] = 0) =>
                      /\ r.v.data_shards \o r.v.parity_shards = whole
                      /\ r.v.reconstructed = input[5]
           /\ Cardinality(input[5]) > m => ~r.ok
           /\ Cardinality(input[5]) <= m /\ input[6] = 0 => r.ok

\* SharesRecover: any k of the shares split makes give the secret back through combine; fewer are compatible with every
\* secret (so what combine then returns says nothing); a threshold outside 2..n, or n beyond the field, makes no shares.
SharesRecover ==
    output[1] = "share" =>
        LET k == input[3]
            n == input[4]
            who == input[6]
            brought == Brought(output[2], who)
        IN /\ (k < 2 \/ k > n \/ n > MaxIndex) => output[2] = <<>>
           /\ output[2] # <<>> /\ Cardinality(who) >= k => output[3] = input[2]
           /\ output[2] # <<>> /\ Cardinality(who) < k /\ Len(input[2]) = 1 =>
                \A other \in Field : \E c \in [1..(k - 1) -> Field] : Brought(split(<<other>>, k, n, <<c>>), who) = brought

\* DeltaIsExact: the operations compute_delta reports turn the parent's tree into the child's when they are applied (an
\* added or replaced path brings its subtree), and none of them names a path whose node is the same in both.
DeltaIsExact ==
    output[1] = "delta" =>
        /\ output[2].ok
        /\ Applied(input[2], input[3], output[2].tree_ops) = [p \in DOMAIN input[3] |-> Shape(input[3][p])]
        /\ \A o \in output[2].tree_ops :
              o[2] \in DOMAIN input[2] /\ o[2] \in DOMAIN input[3] => Shape(input[2][o[2]]) # Shape(input[3][o[2]])

\* FlattenKeepsTheTop: a flattened chain of packed layers shows, from its one root, the directories and regular files of
\* the newest layer with their contents, whatever older layers leave behind under the same inode numbers; every slab of
\* every layer is listed with all its locators, so the drops of older layers stay reachable.
FlattenKeepsTheTop ==
    output[1] = "flatten" =>
        LET layers == LayersOf(input[2], input[3])
            r == output[2]
        IN /\ r.ok = (layers # <<>> /\ input[3] = 0)
           /\ r.ok => /\ root_inode_number(r.image) # 0
                      /\ Shown(r.image) = Shown(layers[Len(layers)])
                      /\ \A i \in DOMAIN layers : \A j \in DOMAIN layers[i].slabs :
                            \E s \in Range(r.image.slabs) :
                                /\ s[1] = layers[i].slabs[j][1]
                                /\ Range(layers[i].slabs[j][2]) \subseteq Range(s[2])

\* DropDecodes: under every preset the drop made of a chunk (the tournament, or one codec when chunking is off) or of a
\* whole categorized file decodes, by the codec and the seekable flag its record will carry, to what it was made from,
\* whichever codecs fail; unless it became a container, a chunk's drop is no longer than the chunk and, unless a good
\* ratio cut the tournament short, no codec tried beats it; a range read of a container returns exactly that range of
\* the plaintext, or fails when it is outside.
DropDecodes ==
    /\ output[1] \in {"drop", "whole"} =>
        LET c == Config(input[2])
            x == ChunkOf(input[4])
        IN /\ D!validate(c) /\ D!CodecsKnown(c) /\ D!ChunkerBuilt(c)
           /\ D!decode_drop_bytes(output[2], x.len) = [ok |-> TRUE, of |-> x]
    /\ output[1] = "drop" /\ ~output[2].seekable =>
        LET c == Config(input[2])
            x == ChunkOf(input[4])
            t == D!TournamentSpec(c)
            held == output[2].bytes.len
            class == D!classify(input[3])
            ran == /\ ~c.skip_chunking /\ ~(class = "Binary" /\ t.skip_for_binary) /\ x.len >= t.min_size
                   /\ class \in {"Text", "Code", "Sparse", "Binary"}
        IN /\ held <= x.len
           /\ ran => \/ held * 1000 <= t.short_circuit_permille * x.len + 999
                     \/ \A id \in Range(t.codec_ids) \ {0} :
                            input[5][id] # 0 => held <= (input[5][id] * x.len) \div 1000
    /\ output[1] = "seek" =>
        LET n == Len(input[2])
        IN output[2] = IF input[3] + input[4] <= n THEN [ok |-> TRUE, v |-> SubSeq(input[2], input[3] + 1, input[3] + input[4])]
                       ELSE [ok |-> FALSE, v |-> <<>>]
=============================================================================
