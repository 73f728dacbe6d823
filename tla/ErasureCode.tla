----------------------------- MODULE ErasureCode -----------------------------
(***************************************************************************)
(* Systematic Reed-Solomon coding of a slab's shards and their repair        *)
(* (limnifs-core/src/reed_solomon.rs, ec_repair.rs).                         *)
(*                                                                          *)
(* A matrix is a sequence of rows, a shard a sequence of field elements, a   *)
(* slot Missing or <<"shard", bytes>>.  Results are [ok, v].                 *)
(***************************************************************************)
EXTENDS GF256, FiniteSets

Failed == [ok |-> FALSE, v |-> <<>>]

Done(x) == [ok |-> TRUE, v |-> x]

Missing == <<"missing", <<>>>>

validate_params(k, m) == k >= 1 /\ m >= 1 /\ k + m <= MaxIndex

\* The sequence f itself: TLC computes its elements once, here, and not at every use.
Computed(f) == f \o <<>>

Column(b, j) == [i \in DOMAIN b |-> b[i][j]]

matrix_mul(a, b) == Computed([i \in DOMAIN a |-> Computed([j \in DOMAIN b[1] |-> dot(a[i], Column(b, j))])])

AugmentedWithIdentity(matrix) ==
    [i \in DOMAIN matrix |-> matrix[i] \o [j \in DOMAIN matrix |-> IF i = j THEN 1 ELSE 0]]

Swapped(a, r, s) == [a EXCEPT ![r] = a[s], ![s] = a[r]]

Scaled(row, factor) == [j \in DOMAIN row |-> mul(row[j], factor)]

\* The row of the pivot scaled to start with one, and its column cleared in every other row.
Normalised(a, col) == Computed([a EXCEPT ![col] = Computed(Scaled(@, inv(@[col])))])

Cleared(a, col) ==
    Done(Computed([r \in DOMAIN a |->
        IF r = col THEN a[r] ELSE Computed([j \in DOMAIN a[r] |-> add(a[r][j], mul(a[r][col], a[col][j]))])]))

\* One column of the elimination: pivot, normalise, clear the column in every other row.
EliminateColumn(s, col) ==
    LET pivots == {r \in col..Len(s.v) : s.v[r][col] # 0}
        pivot == CHOOSE r \in pivots : \A q \in pivots : r <= q
    IN IF ~s.ok \/ pivots = {} THEN Failed ELSE Cleared(Normalised(Swapped(s.v, col, pivot), col), col)

\* Gauss-Jordan; fails on a singular matrix.
invert_matrix(matrix) ==
    LET k == Len(matrix)
        f[col \in 0..k] == IF col = 0 THEN Done(AugmentedWithIdentity(matrix)) ELSE EliminateColumn(f[col - 1], col)
        Right(s) == IF s.ok THEN Done(Computed([r \in 1..k |-> SubSeq(s.v[r], k + 1, 2 * k)])) ELSE Failed
    IN Right(f[k])

\* Mutant: the points of the parity rows start again from zero, so two rows coincide.
Vandermonde_repeated(k, n) == [i \in 1..n |-> [j \in 1..k |-> pow((i - 1) % (k + 1), j - 1)]]

\* Row i is the powers of the point i.
Vandermonde(k, n) == [i \in 1..n |-> [j \in 1..k |-> pow(i - 1, j - 1)]]

Systematic(v, k) == matrix_mul(v, invert_matrix(SubSeq(v, 1, k)).v)

\* Normalised so that its top is the identity: data shards are stored as they are.  One for every k and m, computed once.
Generators ==
    [p \in {<<k, m>> \in (1..MaxIndex) \X (1..MaxIndex) : validate_params(k, m)} |->
        Systematic(Vandermonde(p[1], p[1] + p[2]), p[1])]

build_generator(k, m) == Generators[<<k, m>>]

SameLength(shards) == \A i, j \in DOMAIN shards : Len(shards[i]) = Len(shards[j])

\* rows applied to the shards, byte by byte.
Apply(rows, shards) ==
    Computed([r \in DOMAIN rows |-> Computed([b \in DOMAIN shards[1] |-> dot(rows[r], Column(shards, b))])])

encode(data, k, m) ==
    IF validate_params(k, m) /\ Len(data) = k /\ SameLength(data)
    THEN Done(data \o Apply(SubSeq(build_generator(k, m), k + 1, k + m), data))
    ELSE Failed

\* The first k surviving slots decide; the others are not looked at.
Chosen(slots, k) ==
    SubSeq(SelectSeq([i \in DOMAIN slots |-> i], LAMBDA i : slots[i] # Missing), 1, k)

Decoded(shards, decoder) == IF SameLength(shards) /\ decoder.ok THEN Done(Apply(decoder.v, shards)) ELSE Failed

DecodeFrom(slots, chosen, generator) ==
    Decoded([i \in DOMAIN chosen |-> slots[chosen[i]][2]],
            invert_matrix(Computed([i \in DOMAIN chosen |-> generator[chosen[i]]])))

decode(slots, k, m) ==
    IF ~validate_params(k, m) \/ Len(slots) # k + m \/ Cardinality({i \in DOMAIN slots : slots[i] # Missing}) < k THEN Failed
    ELSE DecodeFrom(slots, Chosen(slots, k), build_generator(k, m))

RepairResult(slots, data, full, k) ==
    IF ~data.ok \/ ~full.ok THEN Failed
    ELSE Done([data_shards |-> data.v, parity_shards |-> SubSeq(full.v, k + 1, Len(full.v)),
               reconstructed |-> {i \in DOMAIN slots : slots[i] = Missing}])

RepairFrom(slots, data, k, m) == RepairResult(slots, data, encode(data.v, k, m), k)

\* [data_shards, parity_shards, reconstructed]
repair_shards(data_shards, parity_shards, k, m) ==
    IF Len(data_shards) # k \/ Len(parity_shards) # m THEN Failed
    ELSE RepairFrom(data_shards \o parity_shards, decode(data_shards \o parity_shards, k, m), k, m)
=============================================================================
