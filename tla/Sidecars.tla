------------------------------ MODULE Sidecars ------------------------------
(***************************************************************************)
(* The files beside an image: its detached signature and the PEM keys       *)
(* (limnifs-core/src/signing.rs), and the sparse index of its drops, a       *)
(* Bloom filter (limnifs-write/src/sparse_index.rs).                        *)
(*                                                                          *)
(* Ed25519 is external: a signature names the seed that made it and the      *)
(* message.  Bytes of keys are numbers, sextets the values of base64         *)
(* characters.                                                              *)
(***************************************************************************)
EXTENDS WireFormat

PKCS8_ED25519_PREFIX == <<48, 46, 2, 1, 0, 48, 5, 6, 3, 43, 101, 112, 4, 34, 4, 32>>
SPKI_ED25519_PREFIX == <<48, 42, 48, 5, 6, 3, 43, 101, 112, 3, 33, 0>>
KeyLen == 32

Octet(der, i) == IF i <= Len(der) THEN der[i] ELSE 0

\* The last group keeps the sextets its bytes reach; the rest is padding, left out here as pem_unwrap stops at it.
pem_wrap(label, der) ==
    LET n == (Len(der) + 2) \div 3
        Group(g) == (Octet(der, 3 * g - 2) * 256 + Octet(der, 3 * g - 1)) * 256 + Octet(der, 3 * g)
        Kept(g) == IF 3 * g <= Len(der) THEN 4 ELSE Len(der) - 3 * g + 4
        Sextets(g) == [j \in 1..Kept(g) |-> (Group(g) \div 64^(4 - j)) % 64]
    IN [label |-> label, body |-> FlattenSeq([g \in 1..n |-> Sextets(g)])]

\* buf holds the bits not yet given out; the higher ones are masked when a byte is taken.
PemSextet(s, v) ==
    LET bits == s.bits + 6
        buf == s.buf * 64 + v
    IN IF bits < 8 THEN [s EXCEPT !.buf = buf, !.bits = bits]
       ELSE [out |-> Append(s.out, (buf \div 2^(bits - 8)) % 256), buf |-> buf % 2^(bits - 8), bits |-> bits - 8]

pem_unwrap(expected, pem) ==
    IF pem.label # expected THEN <<>> ELSE Fold(PemSextet, [out |-> <<>>, buf |-> 0, bits |-> 0], pem.body).out

EncodeKey(label, prefix, key) == pem_wrap(label, prefix \o key)

\* The 32 bytes after the prefix; <<>> when the layout is another.
DecodeKey(label, prefix, pem) ==
    LET der == pem_unwrap(label, pem)
    IN IF Len(der) = Len(prefix) + KeyLen /\ SubSeq(der, 1, Len(prefix)) = prefix
       THEN SubSeq(der, Len(prefix) + 1, Len(der)) ELSE <<>>

encode_private_pkcs8_pem(seed) == EncodeKey("PRIVATE KEY", PKCS8_ED25519_PREFIX, seed)

decode_private_pkcs8_pem(pem) == DecodeKey("PRIVATE KEY", PKCS8_ED25519_PREFIX, pem)

encode_public_spki_pem(public) == EncodeKey("PUBLIC KEY", SPKI_ED25519_PREFIX, public)

decode_public_spki_pem(pem) == DecodeKey("PUBLIC KEY", SPKI_ED25519_PREFIX, pem)

----------------------------------------------------------------------------
LIMSIG_MAGIC == <<"M", "LMSG">>
LIMSIG_LEN == 134
Keypair == 0

Public(seed) == <<"pub", seed>>

Ed25519(seed, message) == <<"sig", <<seed, message>>>>

sign(seed, manifest_root) ==
    [manifest_root |-> manifest_root, signature |-> Ed25519(seed, manifest_root), public_key |-> Public(seed), mode |-> Keypair]

verify(bundle) ==
    /\ bundle.mode = Keypair
    /\ bundle.signature = Ed25519(bundle.public_key[2], bundle.manifest_root)

to_limsig(b) ==
    B(4, LIMSIG_MAGIC) \o N(1, 1) \o N(1, b.mode) \o B(32, b.manifest_root) \o B(32, b.public_key) \o B(64, b.signature)

\* left is the length of the file, which may be longer than the bundle.
from_limsig(s, left) ==
    Check(ReadAll(Require(CursorAt(s, left), left = LIMSIG_LEN),
                  << <<"magic", 4>>, <<"version", 1>>, <<"mode", 1>>, <<"manifest_root", 32>>, <<"public_key", 32>>,
                     <<"signature", 64>> >>), LAMBDA v : v.magic = LIMSIG_MAGIC /\ v.version = 1)

----------------------------------------------------------------------------
\* Default false-positive probability 1/100: ceil(log2 100) probes.
optimal_k == 7

\* ceil(9.585 n), and at least 8.
optimal_bits(n) ==
    LET bits == (9585 * n + 999) \div 1000 IN IF n = 0 THEN 0 ELSE IF bits < 8 THEN 8 ELSE bits

\* The word of the hashes (2^64 in the code); a drop id is its hash pair <<h1, h2>>.
Word == 2^10

Probes(drop_id, num_bits) == {((drop_id[1] + i * drop_id[2]) % Word) % num_bits : i \in 0..(optimal_k - 1)}

new_index(expected) == [num_bits |-> optimal_bits(expected), entry_count |-> 0, bits |-> {}]

insert(index, drop_id) ==
    IF index.num_bits = 0 THEN index
    ELSE [index EXCEPT !.bits = @ \cup Probes(drop_id, index.num_bits), !.entry_count = @ + 1]

BitBytes(num_bits) == (num_bits + 7) \div 8

serialise(index) ==
    N(4, index.num_bits) \o N(4, optimal_k) \o N(4, index.entry_count) \o B(8, <<"fpp", 100>>)
    \o B(BitBytes(index.num_bits), <<"bits", index.bits>>)

IndexBits(c) ==
    IF c.ok /\ c.v.num_bits = 0 THEN Set(c, "bits", <<"bits", {}>>)
    ELSE read_n(c, "bits", IF c.ok THEN BitBytes(c.v.num_bits) ELSE 0)

deserialise(s, left) ==
    IndexBits(ReadAll(Require(CursorAt(s, left), left >= 20),
                      << <<"num_bits", 4>>, <<"k", 4>>, <<"entry_count", 4>>, <<"fpp", 8>> >>))

probably_contains(v, drop_id) == v.num_bits # 0 /\ Probes(drop_id, v.num_bits) \subseteq v.bits[2]
=============================================================================
