-------------------------------- MODULE GF256 --------------------------------
(***************************************************************************)
(* Arithmetic in the field of 2^FieldBits elements modulo Polynomial        *)
(* (limnifs-core/src/gf256.rs; 8 bits and 0x11B there), computed the way    *)
(* the code does, so that the field laws the shares and the parity shards   *)
(* rest on are consequences and not assumptions.                            *)
(***************************************************************************)
EXTENDS Integers, Sequences, Bitwise

CONSTANTS FieldBits, Polynomial

FieldSize == 2^FieldBits

Field == 0..(FieldSize - 1)

\* u8::MAX, the bound on shards and shares.
MaxIndex == FieldSize - 1

AddTable == [a, b \in Field |-> a ^^ b]

add(a, b) == AddTable[a, b]

\* One round of the peasant's loop: acc takes a when b is odd, a is doubled and reduced, b is halved.
MulRound(s) ==
    LET doubled == IF s.a >= FieldSize \div 2 THEN (2 * s.a) ^^ Polynomial ELSE 2 * s.a
    IN [a |-> doubled, b |-> s.b \div 2, acc |-> IF s.b % 2 = 1 THEN s.acc ^^ s.a ELSE s.acc]

\* b has at most FieldBits bits, and a round with b = 0 would leave acc alone.
MulTable ==
    [x, y \in Field |->
        LET f[i \in 0..FieldBits] == IF i = 0 THEN [a |-> x, b |-> y, acc |-> 0] ELSE MulRound(f[i - 1])
        IN f[FieldBits].acc % FieldSize]

mul(a, b) == MulTable[a, b]

\* Square and multiply, over the bits of exp.
pow(x, exp) ==
    LET f[i \in 0..exp] ==      \* [a, e, acc] after i rounds; no more than exp are needed
            IF i = 0 THEN [a |-> x, e |-> exp, acc |-> 1]
            ELSE LET s == f[i - 1]
                 IN IF s.e = 0 THEN s
                    ELSE [a |-> mul(s.a, s.a), e |-> s.e \div 2, acc |-> IF s.e % 2 = 1 THEN mul(s.acc, s.a) ELSE s.acc]
    IN f[exp].acc

InvTable == [a \in Field |-> IF a = 0 THEN 0 ELSE pow(a, FieldSize - 2)]

inv(a) == InvTable[a]

\* The sum of a[j] * b[j].
dot(a, b) ==
    LET f[j \in 0..Len(a)] == IF j = 0 THEN 0 ELSE add(f[j - 1], mul(a[j], b[j])) IN f[Len(a)]
=============================================================================
