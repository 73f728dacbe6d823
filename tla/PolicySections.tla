--------------------------- MODULE PolicySections ---------------------------
(***************************************************************************)
(* The optional sections that carry policies: encryption, profile,          *)
(* categorization, chunking, tournament, erasure coding and dead man's      *)
(* switch (limnifs-core), and the CAR archives IPFS takes (ipfs_locator.rs).*)
(* The encoders of the last two policies are those of limnifs-conformance.  *)
(***************************************************************************)
EXTENDS WireFormat

\* A string with a one-byte length, cut to what the byte can count.
ShortText(x) == LET n == IF Len32(x) > 255 THEN 255 ELSE Len32(x) IN N(1, n) \o B(n, x)

Bit(b, n) == IF b THEN n ELSE 0

Flag(flags, n) == (flags \div n) % 2 = 1

KEY_WRAP_NONE == 0
KEY_WRAP_X25519_HKDF == 1
KeyWrapFixed == 88

\* key is the wrapped key; its fixed companions are three fields of 32, 32 and 24 bytes.
encode_encryption_descriptor(d) ==
    N(1, 1) \o N(1, d.aead_id) \o N(1, d.key_wrap_id)
    \o (IF d.key_wrap_id = KEY_WRAP_NONE THEN N(2, 0)
        ELSE N(2, KeyWrapFixed + Len32(d.key)) \o B(32, d.recipient) \o B(32, d.ephemeral) \o B(24, d.nonce)
             \o B(Len32(d.key), d.key))

EncryptionHead(c) ==
    Fits(Check(ReadAll(c, << <<"version", 1>>, <<"aead_id", 1>>, <<"key_wrap_id", 1>>, <<"params_len", 2>> >>),
               LAMBDA v : v.version = 1 /\ v.key_wrap_id \in {KEY_WRAP_NONE, KEY_WRAP_X25519_HKDF}), "params_len", 1)

WrappedKey(c) == IF c.ok THEN read_n(c, "key", c.v.params_len - KeyWrapFixed) ELSE c

KeyWrapParams(c) ==
    IF c.ok /\ c.v.key_wrap_id = KEY_WRAP_NONE THEN c
    ELSE WrappedKey(ReadAll(Check(c, LAMBDA v : v.params_len >= KeyWrapFixed),
                            << <<"recipient", 32>>, <<"ephemeral", 32>>, <<"nonce", 24>> >>))

parse_encryption_descriptor(c) == KeyWrapParams(EncryptionHead(c))

MAX_NAME_LEN == 64

\* flags is the sequence of the six options, lowest bit first.
FlagsByte(options) == Fold(LAMBDA a, i : a + Bit(options[i], 2^(i - 1)), 0, [i \in DOMAIN options |-> i])

encode_profile_descriptor(d) ==
    LET n == IF Len32(d.profile_name) > 255 THEN 0 ELSE Len32(d.profile_name)
    IN N(1, 1) \o N(1, n) \o B(n, d.profile_name) \o N(1, FlagsByte(d.options))

\* A name longer than MAX_NAME_LEN is taken for none and left unread.
ProfileName(c) ==
    IF c.ok /\ c.v.name_len \in 1..MAX_NAME_LEN THEN read_n(c, "profile_name", c.v.name_len)
    ELSE Set(c, "profile_name", EmptyStr)

ProfileOptions(c) == IF c.ok THEN Set(c, "options", [i \in 1..6 |-> Flag(c.v.flags, 2^(i - 1))]) ELSE c

\* The next byte, which inside a string left unread is the string's first one (its rank); the rest stays ahead.
read_u8(c, name) ==
    IF c.ok /\ c.left > 0 /\ c.s[c.pos].k = "b" /\ c.s[c.pos].w > 1
    THEN [Set(c, name, Rank(c.s[c.pos].v)) EXCEPT !.s[c.pos] = [@ EXCEPT !.w = @ - 1, !.v = <<"rest", @>>], !.left = @ - 1]
    ELSE read_n(c, name, 1)

ProfileHead(c) == Check(ReadAll(c, << <<"version", 1>>, <<"name_len", 1>> >>), LAMBDA v : v.version = 1)

parse_profile_descriptor(c) ==
    ProfileOptions(read_u8(Check(ProfileName(ProfileHead(c)), LAMBDA v : Utf8(v.profile_name)), "flags"))

MAX_RULE_COUNT == 1024
MAX_EXT_COUNT == 64
MAX_EXT_LEN == 16
MAX_MAGIC_LEN == 64

encode_rule(r) ==
    ShortText(r.name) \o N(4, Len(r.extensions)) \o FlattenSeq([i \in DOMAIN r.extensions |-> ShortText(r.extensions[i])])
    \o N(2, Len32(r.magic)) \o B(Len32(r.magic), r.magic) \o N(1, r.codec)
    \o N(1, Bit(r.enabled, 1) + Bit(r.max_size # NONE, 2)) \o (IF r.max_size = NONE THEN <<>> ELSE N(4, r.max_size[2]))

encode_categorization_policy(rules) ==
    N(1, 1) \o N(4, Len(rules)) \o FlattenSeq([i \in DOMAIN rules |-> encode_rule(rules[i])])

ReadShort(c, name, max) == ReadLen(Check(ReadAll(c, << <<"len", 1>> >>), LAMBDA v : v.len <= max), name)

RuleExtensions(c) ==
    ReadEntries(Check(ReadAll(c, << <<"ext_count", 4>> >>), LAMBDA v : v.ext_count <= MAX_EXT_COUNT), "extensions", "ext_count",
                LAMBDA a : Check(ReadShort(a, "ext", MAX_EXT_LEN), LAMBDA v : Utf8(v.ext)), Unchecked)

RuleMagic(c) == read_n(Check(c, LAMBDA v : v.magic_len <= MAX_MAGIC_LEN), "magic", c.v.magic_len)

RuleMaxSize(c) == IF c.ok /\ Flag(c.v.flags, 2) THEN read_n(c, "max_size", 4) ELSE c

parse_rule(c) ==
    RuleMaxSize(ReadAll(RuleMagic(ReadAll(
        RuleExtensions(Check(ReadShort(c, "name", MAX_NAME_LEN), LAMBDA v : Utf8(v.name))),
        << <<"magic_len", 2>> >>)), << <<"codec", 1>>, <<"flags", 1>> >>))

\* The rule a parsed entry stands for.
RuleOf(v) ==
    [name |-> v.name, extensions |-> [i \in DOMAIN v.extensions |-> v.extensions[i].ext], magic |-> v.magic, codec |-> v.codec,
     enabled |-> Flag(v.flags, 1), max_size |-> IF Flag(v.flags, 2) THEN <<"max", v.max_size>> ELSE NONE]

parse_categorization_policy(c) ==
    ReadEntries(Check(TableHead(c), LAMBDA v : v.count <= MAX_RULE_COUNT), "rules", "count", parse_rule, Unchecked)

encode_chunking_config(d) == N(1, 1) \o N(4, d.avg) \o N(4, d.min) \o N(4, d.max)

parse_chunking_config(c) ==
    Check(ReadAll(c, << <<"version", 1>>, <<"avg", 4>>, <<"min", 4>>, <<"max", 4>> >>),
          LAMBDA v : v.version = 1 /\ v.min <= v.avg /\ v.avg <= v.max)

MAX_CODEC_COUNT == 32

\* Up to 255 codecs, as many as the count's byte can tell (there are fewer codec ids).
encode_compression_tournament_config(d) ==
    N(1, 1) \o N(1, Len32(d.codecs)) \o B(Len32(d.codecs), d.codecs) \o N(4, d.min_size) \o N(1, Bit(d.skip_for_binary, 1))

TournamentCodecs(c) ==
    read_n(Check(c, LAMBDA v : v.version = 1 /\ v.count <= MAX_CODEC_COUNT), "codecs", c.v.count)

parse_compression_tournament_config(c) ==
    ReadAll(TournamentCodecs(ReadAll(c, << <<"version", 1>>, <<"count", 1>> >>)), << <<"min_size", 4>>, <<"flags", 1>> >>)

DEFAULT_EC_POLYNOMIAL == 285   \* 0x011D
MAX_SHARDS == 255

validate_shard_counts(k, m) == k >= 1 /\ m >= 1 /\ k + m <= MAX_SHARDS

EncodeEcParams(d) ==
    N(1, 1) \o N(1, d.k) \o N(1, d.m) \o N(2, DEFAULT_EC_POLYNOMIAL) \o N(4, Len(d.overrides))
    \o FlattenSeq([i \in DOMAIN d.overrides |->
        N(8, d.overrides[i].ordinal) \o B(32, d.overrides[i].hash) \o N(1, d.overrides[i].k) \o N(1, d.overrides[i].m)])

EcHead(c) ==
    Check(ReadAll(c, << <<"version", 1>>, <<"k", 1>>, <<"m", 1>>, <<"polynomial", 2>>, <<"count", 4>> >>),
          LAMBDA v : v.version = 1 /\ validate_shard_counts(v.k, v.m) /\ v.polynomial = DEFAULT_EC_POLYNOMIAL)

EcOverride(c) ==
    Check(ReadAll(c, << <<"ordinal", 8>>, <<"hash", 32>>, <<"k", 1>>, <<"m", 1>> >>), LAMBDA v : validate_shard_counts(v.k, v.m))

parse_ec_params(c) ==
    ReadEntries(Fits(EcHead(c), "count", 42), "overrides", "count", EcOverride,
                LAMBDA before, e : \A i \in DOMAIN before : <<before[i].ordinal, before[i].hash>> # <<e.ordinal, e.hash>>)

DMS_SCHEME_SHAMIR == 0
MaxShareData == 1024
MaxHint == 4096

validate_shamir_params(k, n) == k >= 1 /\ n >= 1 /\ k <= n

EncodeDmsPolicy(d) ==
    N(1, 1) \o N(1, DMS_SCHEME_SHAMIR) \o N(1, d.k) \o N(1, d.n) \o N(4, Len(d.shares))
    \o FlattenSeq([i \in DOMAIN d.shares |-> Text(d.shares[i].custodian_id) \o Text(d.shares[i].share_data)])
    \o Text(d.hint)

parse_share_record(c) ==
    Check(ReadText(Check(ReadText(c, "custodian_id", MaxHint), LAMBDA v : v.len # 0 /\ Utf8(v.custodian_id)),
                   "share_data", MaxShareData), LAMBDA v : v.len # 0)

DmsHead(c) ==
    Check(ReadAll(c, << <<"version", 1>>, <<"scheme", 1>>, <<"k", 1>>, <<"n", 1>>, <<"count", 4>> >>),
          LAMBDA v : /\ v.version = 1 /\ v.scheme = DMS_SCHEME_SHAMIR
                     /\ validate_shamir_params(v.k, v.n) /\ v.count = v.n)

parse_dms_policy(c) ==
    Check(ReadText(ReadEntries(DmsHead(c), "shares", "count", parse_share_record,
                               LAMBDA before, e : \A i \in DOMAIN before : before[i].custodian_id # e.custodian_id),
                   "hint", MaxHint), LAMBDA v : Utf8(v.hint))

----------------------------------------------------------------------------
(* Varints and CARv1, byte by byte.                                          *)

MULTIHASH_BLAKE3_256 == 30
CID_CODEC_RAW == 85
CID_VERSION == 1
DigestLen == 32

\* Groups of seven bits a modelled value may take (10 in the code, a u64).
VarintGroups == 4

write_varint(n) ==
    LET size == CHOOSE s \in 1..VarintGroups : n < 128^s /\ (s = 1 \/ n >= 128^(s - 1))
    IN [i \in 1..size |-> ((n \div 128^(i - 1)) % 128) + (IF i < size THEN 128 ELSE 0)]

\* [ok, v, n]: the value and the number of bytes it took.
read_varint(bytes) ==
    LET ends == {i \in DOMAIN bytes : i <= VarintGroups /\ bytes[i] < 128}
        n == CHOOSE i \in ends : \A j \in ends : i <= j
    IN IF ends = {} THEN [ok |-> FALSE, v |-> 0, n |-> 0]
       ELSE [ok |-> TRUE, n |-> n,
             v |-> Fold(LAMBDA a, i : a + (bytes[i] % 128) * 128^(i - 1), 0, [i \in 1..n |-> i])]

From(bytes, n) == SubSeq(bytes, n + 1, Len(bytes))

encode_blake3_multihash(digest) == write_varint(MULTIHASH_BLAKE3_256) \o write_varint(DigestLen) \o digest

MultihashDigest(bytes, start, ok) == [ok |-> ok, digest |-> IF ok THEN SubSeq(bytes, start + 1, start + DigestLen) ELSE <<>>]

MultihashAfter(bytes, code, len) ==
    MultihashDigest(bytes, code.n + len.n,
        /\ code.ok /\ code.v = MULTIHASH_BLAKE3_256
        /\ len.ok /\ len.v = DigestLen
        /\ Len(bytes) >= code.n + len.n + DigestLen)

MultihashCode(bytes, code) == MultihashAfter(bytes, code, read_varint(From(bytes, code.n)))

decode_blake3_multihash(bytes) == MultihashCode(bytes, read_varint(bytes))

encode_raw_cid(digest) == write_varint(CID_VERSION) \o write_varint(CID_CODEC_RAW) \o encode_blake3_multihash(digest)

CidOf(version, codec, mh) ==
    [ok |-> version.ok /\ version.v = CID_VERSION /\ codec.ok /\ codec.v = CID_CODEC_RAW /\ mh.ok,
     digest |-> mh.digest, n |-> version.n + codec.n + 2 + DigestLen]

CidAfter(bytes, version, codec) == CidOf(version, codec, decode_blake3_multihash(From(bytes, version.n + codec.n)))

CidVersion(bytes, version) == CidAfter(bytes, version, read_varint(From(bytes, version.n)))

\* [ok, digest, n]
decode_raw_cid(bytes) == CidVersion(bytes, read_varint(bytes))

\* The CBOR map {version: 1, roots: [cid]}; CborKeys stands for the 17 bytes before the root's length.
CborKeys == [i \in 1..17 |-> 0]

\* The length byte keeps five bits of the CID's length.
encode_car_header(root_cid) == CborKeys \o <<64 + (Len(root_cid) % 32)>> \o root_cid

\* Mutant: the length of a block counts its data only.
CarBlockDataLength(block) ==
    LET cid == encode_raw_cid(block.digest) IN write_varint(Len(block.data)) \o cid \o block.data

EncodeCarBlock(block) ==
    LET cid == encode_raw_cid(block.digest)
    IN write_varint(Len(cid) + Len(block.data)) \o cid \o block.data

encode_car_v1(blocks) ==
    LET header == encode_car_header(IF blocks = <<>> THEN <<>> ELSE encode_raw_cid(blocks[1].digest))
    IN write_varint(Len(header)) \o header \o FlattenSeq([i \in DOMAIN blocks |-> EncodeCarBlock(blocks[i])])

CarBlockOf(s, end, inner, cid) ==
    IF cid.ok THEN [ok |-> TRUE, rest |-> From(s.rest, end),
                    blocks |-> Append(s.blocks, [digest |-> cid.digest, data |-> From(inner, cid.n)])]
    ELSE [s EXCEPT !.ok = FALSE]

CarBlockIn(s, end, inner) == CarBlockOf(s, end, inner, decode_raw_cid(inner))

CarBlockAfter(s, len) ==
    IF len.ok /\ Len(s.rest) >= len.n + len.v
    THEN CarBlockIn(s, len.n + len.v, SubSeq(s.rest, len.n + 1, len.n + len.v))
    ELSE [s EXCEPT !.ok = FALSE]

\* The block at the head of s.rest, or a failure when it is cut or not a raw BLAKE3 block.
DecodeCarBlock(s) == IF ~s.ok \/ s.rest = <<>> THEN s ELSE CarBlockAfter(s, read_varint(s.rest))

\* [ok, blocks]; the header is skipped unread, and no block is shorter than its length, its CID's head and its digest.
DecodeCarBlocks(bytes, header) ==
    Fold(LAMBDA s, k : DecodeCarBlock(s),
         [ok |-> header.ok /\ Len(bytes) >= header.n + header.v, rest |-> From(bytes, header.n + header.v), blocks |-> <<>>],
         [k \in 1..(Len(bytes) \div (DigestLen + 5)) |-> k])

decode_car_v1(bytes) == DecodeCarBlocks(bytes, read_varint(bytes))
=============================================================================
