---------------------------- MODULE SecretSharing ----------------------------
(***************************************************************************)
(* Shamir's sharing of a secret among n custodians, any k of whom recover    *)
(* it (limnifs-core/src/shamir.rs, limni shamir split and combine).          *)
(*                                                                          *)
(* A share is its index followed by one element per byte of the secret.      *)
(***************************************************************************)
EXTENDS GF256, FiniteSets

NoSecret == <<>>

\* Horner's rule.
eval_poly(coeffs, x) ==
    LET k == Len(coeffs)
        f[i \in 0..k] == IF i = 0 THEN 0 ELSE add(mul(f[i - 1], x), coeffs[k - i + 1])
    IN f[k]

\* coefficients[i] is what the random source supplied for byte i: k - 1 elements.
split(secret, k, n, coefficients) ==
    IF k < 2 \/ k > n \/ n > MaxIndex \/ secret = <<>> THEN <<>>
    ELSE [index \in 1..n |-> <<index>> \o [i \in DOMAIN secret |-> eval_poly(<<secret[i]>> \o coefficients[i], index)]]

\* Mutant: the difference in the denominator is taken the wrong way round, as if it were an integer.
LagrangeTerm_unsigned(points, i) ==
    LET others == SelectSeq([j \in DOMAIN points |-> j], LAMBDA j : j # i)
        Times(s, x) == [num |-> mul(s.num, x), den |-> mul(s.den, (points[i][1] + x) % FieldSize)]
        f[j \in 0..Len(others)] == IF j = 0 THEN [num |-> 1, den |-> 1] ELSE Times(f[j - 1], points[others[j]][1])
        s == f[Len(others)]
    IN mul(points[i][2], mul(s.num, inv(s.den)))

\* The term of point i in the value at zero of the polynomial through the points <<x, y>>.
LagrangeTerm(points, i) ==
    LET others == SelectSeq([j \in DOMAIN points |-> j], LAMBDA j : j # i)
        Times(s, x) == [num |-> mul(s.num, x), den |-> mul(s.den, add(points[i][1], x))]
        f[j \in 0..Len(others)] == IF j = 0 THEN [num |-> 1, den |-> 1] ELSE Times(f[j - 1], points[others[j]][1])
        s == f[Len(others)]
    IN mul(points[i][2], mul(s.num, inv(s.den)))

lagrange_at_zero(points) ==
    LET f[i \in 0..Len(points)] == IF i = 0 THEN 0 ELSE add(f[i - 1], LagrangeTerm(points, i)) IN f[Len(points)]

\* The threshold is not recorded in a share, so too few shares are not refused.
combine(shares) ==
    LET sound == /\ shares # <<>>
                 /\ Len(shares[1]) > 1
                 /\ \A s \in DOMAIN shares : Len(shares[s]) = Len(shares[1])
                 /\ \A s, t \in DOMAIN shares : s # t => shares[s][1] # shares[t][1]
    IN IF ~sound THEN NoSecret
       ELSE [i \in 1..(Len(shares[1]) - 1) |-> lagrange_at_zero([s \in DOMAIN shares |-> <<shares[s][1], shares[s][1 + i]>>])]
=============================================================================
