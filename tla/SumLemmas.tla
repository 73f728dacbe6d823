----------------------------- MODULE SumLemmas -----------------------------
(***************************************************************************)
(* Facts about sums and folds for the proofs of the other modules: the sum *)
(* of a function over a finite set (MapThenSumSet of the community         *)
(* modules), the running sums of a sequence of lengths, which the code     *)
(* keeps for frames, slices and pages, and what FoldLeft unfolds to.       *)
(*                                                                         *)
(* The provers cannot instantiate an induction theorem that takes a        *)
(* predicate, so induction is stated here over sets, from the fact that    *)
(* every nonempty set of naturals has a least element.                     *)
(***************************************************************************)
EXTENDS Integers, FiniteSets, FiniteSetsExt, FiniteSetTheorems,
        WellFoundedInduction, TLAPS

LEMMA LeastNatural ==
  ASSUME NEW T, T \subseteq Nat, T # {}
  PROVE  \E m \in T : \A k \in T : m <= k
<1> DEFINE R == OpToRel(<, Nat)
<1>1. IsWellFoundedOn(R, Nat)
  BY NatLessThanWellFounded
<1>2. \A x, y \in Nat : x < y => <<x, y>> \in R
  BY DEF OpToRel
<1> HIDE DEF R
<1>3. PICK x \in T : \A y \in T : ~ (<<y, x>> \in R)
  BY <1>1, WFMin
<1>4. ASSUME NEW y \in T PROVE x <= y
  <2>1. x \in Nat /\ y \in Nat
    OBVIOUS
  <2>2. ~ (y < x)
    BY <1>2, <1>3, <2>1
  <2> QED
    BY <2>1, <2>2
<1> QED
  BY <1>4

\* Induction: a set with 0 and closed under successor holds every natural.
LEMMA NatSetInduction ==
  ASSUME NEW S, 0 \in S, \A n \in Nat : n \in S => n + 1 \in S
  PROVE  Nat \subseteq S
<1> DEFINE T == Nat \ S
<1> SUFFICES ASSUME T # {} PROVE FALSE
  OBVIOUS
<1>1. PICK m \in T : \A k \in T : m <= k
  BY LeastNatural
<1>2. m - 1 \in Nat /\ m - 1 \notin T
  BY <1>1
<1> QED
  BY <1>1, <1>2

LEMMA GreatestNatural ==
  ASSUME NEW n \in Nat, NEW T, T \subseteq 0..n, T # {}
  PROVE  \E m \in T : \A k \in T : k <= m
<1> DEFINE R == {n - k : k \in T}
<1>1. PICK r \in R : \A q \in R : r <= q
  <2>1. \A k \in T : k \in Nat /\ k <= n /\ n - k \in Nat
    OBVIOUS
  <2>2. R \subseteq Nat
    BY <2>1
  <2>3. R # {}
    OBVIOUS
  <2> HIDE DEF R
  <2> QED
    BY <2>2, <2>3, LeastNatural
<1>2. PICK m \in T : r = n - m
  OBVIOUS
<1>3. ASSUME NEW k \in T PROVE k <= m
  <2>1. n - m <= n - k
    BY <1>1, <1>2
  <2>2. m \in 0..n /\ k \in 0..n
    OBVIOUS
  <2> QED
    BY <2>1, <2>2
<1> QED
  BY <1>3

----------------------------------------------------------------------------
(* Sums over finite sets.                                                  *)

SumOver(w, S) == MapThenSumSet(LAMBDA k : w[k], S)

Pick(s) == CHOOSE x \in s : TRUE

\* f is a fixpoint of the recursion that MapThenSumSet unfolds to.
Sums(f, w, S) ==
  f = [s \in SUBSET S |-> IF s = {} THEN 0 ELSE w[Pick(s)] + f[s \ {Pick(s)}]]

LEMMA PickIn == ASSUME NEW s, s # {} PROVE Pick(s) \in s
BY DEF Pick

LEMMA SumsExist ==
  ASSUME NEW S, IsFiniteSet(S), NEW w, \A k \in S : w[k] \in Nat
  PROVE  \E f : Sums(f, w, S)
<1> DEFINE D(n) == {s \in SUBSET S : Cardinality(s) <= n}
           Good(g, n) == \A s \in D(n) :
              /\ g[s] \in Nat
              /\ g[s] = IF s = {} THEN 0 ELSE w[Pick(s)] + g[s \ {Pick(s)}]
           N == {n \in Nat : \E g \in [D(n) -> Nat] : Good(g, n)}
<1>a. \A s \in SUBSET S : IsFiniteSet(s) /\ Cardinality(s) \in Nat
  BY FS_Subset, FS_CardinalityType
<1>b. ASSUME NEW s \in SUBSET S, s # {}
      PROVE  /\ Pick(s) \in s /\ Pick(s) \in S /\ s \ {Pick(s)} \in SUBSET S
             /\ Cardinality(s \ {Pick(s)}) = Cardinality(s) - 1
  BY <1>b, <1>a, PickIn, FS_RemoveElement
<1>c. \A s \in SUBSET S : Cardinality(s) = 0 <=> s = {}
  BY <1>a, FS_EmptySet
<1>1. 0 \in N
  <2> DEFINE g == [s \in D(0) |-> 0]
  <2>1. \A s \in D(0) : s = {}
    BY <1>a, <1>c
  <2>2. g \in [D(0) -> Nat] /\ Good(g, 0)
    BY <2>1
  <2> QED
    BY <2>2
<1>2. ASSUME NEW n \in Nat, n \in N PROVE n + 1 \in N
  <2>1. PICK g \in [D(n) -> Nat] : Good(g, n)
    BY <1>2
  <2> DEFINE h == [s \in D(n + 1) |->
                     IF s = {} THEN 0 ELSE w[Pick(s)] + g[s \ {Pick(s)}]]
  <2>2. ASSUME NEW s \in D(n + 1), s # {}
        PROVE  /\ s \ {Pick(s)} \in D(n) /\ s \ {Pick(s)} \in D(n + 1)
               /\ w[Pick(s)] \in Nat /\ g[s \ {Pick(s)}] \in Nat
    BY <2>2, <1>a, <1>b
  <2>3. \A s \in D(n) : s \in D(n + 1)
    BY <1>a
  <2>4. ASSUME NEW s \in D(n) PROVE h[s] = g[s]
    BY <2>1, <2>3
  <2>5. h \in [D(n + 1) -> Nat]
    BY <2>2
  <2>6. Good(h, n + 1)
    <3> SUFFICES ASSUME NEW s \in D(n + 1)
                 PROVE  h[s] = IF s = {} THEN 0
                               ELSE w[Pick(s)] + h[s \ {Pick(s)}]
      BY <2>5
    <3>1. CASE s = {}
      BY <3>1
    <3>2. CASE s # {}
      <4>1. h[s \ {Pick(s)}] = g[s \ {Pick(s)}]
        BY <2>2, <2>4, <3>2
      <4> QED
        BY <4>1, <3>2
    <3> QED
      BY <3>1, <3>2
  <2> HIDE DEF Good, h, D
  <2> QED
    BY <2>5, <2>6
<1> HIDE DEF N
<1>3. Nat \subseteq N
  BY <1>1, <1>2, NatSetInduction
<1> USE DEF N
<1>4. PICK g \in [D(Cardinality(S)) -> Nat] : Good(g, Cardinality(S))
  BY <1>3, <1>a
<1>5. D(Cardinality(S)) = SUBSET S
  BY <1>a, FS_Subset
<1>6. Sums(g, w, S)
  BY <1>4, <1>5 DEF Sums
<1> QED
  BY <1>6

\* A fixpoint sums naturals, is 0 on the empty set, and every element of a
\* set adds its weight, whichever one the recursion picks first.
LEMMA SumsAdd ==
  ASSUME NEW S, IsFiniteSet(S), NEW w, \A k \in S : w[k] \in Nat,
         NEW f, Sums(f, w, S)
  PROVE  /\ \A s \in SUBSET S : f[s] \in Nat
         /\ f[{}] = 0
         /\ \A s \in SUBSET S : \A k \in s : f[s] = w[k] + f[s \ {k}]
<1> DEFINE Typed(s) == f[s] \in Nat
           Add(s) == \A k \in s : f[s] = w[k] + f[s \ {k}]
           N == {n \in Nat : \A s \in SUBSET S : Cardinality(s) = n => Typed(s)}
           M == {n \in Nat : \A s \in SUBSET S : Cardinality(s) = n => Add(s)}
<1>a. \A s \in SUBSET S : IsFiniteSet(s) /\ Cardinality(s) \in Nat
  BY FS_Subset, FS_CardinalityType
<1>b. ASSUME NEW s \in SUBSET S, NEW k \in s
      PROVE  /\ w[k] \in Nat /\ s \ {k} \in SUBSET S
             /\ Cardinality(s \ {k}) = Cardinality(s) - 1
  BY <1>a, FS_RemoveElement
<1>c. \A s \in SUBSET S : Cardinality(s) = 0 <=> s = {}
  BY <1>a, FS_EmptySet
<1>d. \A s \in SUBSET S :
        f[s] = IF s = {} THEN 0 ELSE w[Pick(s)] + f[s \ {Pick(s)}]
  BY DEF Sums
<1>e. f[{}] = 0
  BY <1>d
<1>f. ASSUME NEW n \in Nat, NEW s \in SUBSET S, Cardinality(s) = n + 1
      PROVE  /\ s # {} /\ Pick(s) \in s
             /\ f[s] = w[Pick(s)] + f[s \ {Pick(s)}]
  BY <1>f, <1>c, <1>d, PickIn
<1>1. 0 \in N
  BY <1>c, <1>e
<1>2. ASSUME NEW n \in Nat, n \in N PROVE n + 1 \in N
  <2> SUFFICES ASSUME NEW s \in SUBSET S, Cardinality(s) = n + 1
               PROVE  f[s] \in Nat
    OBVIOUS
  <2>1. PICK x \in s : f[s] = w[x] + f[s \ {x}]
    BY <1>f
  <2>2. /\ w[x] \in Nat /\ s \ {x} \in SUBSET S
        /\ Cardinality(s \ {x}) = n
    BY <1>b
  <2>3. f[s \ {x}] \in Nat
    BY <1>2, <2>2
  <2> QED
    BY <2>1, <2>2, <2>3
<1>3. \A s \in SUBSET S : f[s] \in Nat
  <2> HIDE DEF N
  <2>1. Nat \subseteq N
    BY <1>1, <1>2, NatSetInduction
  <2> QED
    BY <2>1, <1>a DEF N
<1>4. 0 \in M
  BY <1>c
<1>5. ASSUME NEW n \in Nat, n \in M PROVE n + 1 \in M
  <2> SUFFICES ASSUME NEW s \in SUBSET S, Cardinality(s) = n + 1, NEW k \in s
               PROVE  f[s] = w[k] + f[s \ {k}]
    OBVIOUS
  <2>0. \A q \in SUBSET S : Cardinality(q) = n => Add(q)
    BY <1>5
  <2>1. PICK x \in s : f[s] = w[x] + f[s \ {x}]
    BY <1>f
  <2>2. CASE k = x
    BY <2>1, <2>2
  <2>3. CASE k # x
    <3>1. /\ s \ {x} \in SUBSET S /\ k \in s \ {x}
          /\ Cardinality(s \ {x}) = n
      BY <1>b, <2>3
    <3>2. /\ s \ {k} \in SUBSET S /\ x \in s \ {k}
          /\ Cardinality(s \ {k}) = n
      BY <1>b, <2>3
    <3>3. f[s \ {x}] = w[k] + f[(s \ {x}) \ {k}]
      BY <2>0, <3>1
    <3>4. f[s \ {k}] = w[x] + f[(s \ {k}) \ {x}]
      BY <2>0, <3>2
    <3>5. f[(s \ {k}) \ {x}] = f[(s \ {x}) \ {k}]
      <4>1. (s \ {k}) \ {x} = (s \ {x}) \ {k}
        OBVIOUS
      <4> QED
        BY <4>1
    <3>6. f[(s \ {x}) \ {k}] \in Nat
      BY <1>3
    <3>7. w[x] \in Nat /\ w[k] \in Nat
      BY <1>b
    <3> DEFINE q == f[(s \ {x}) \ {k}]
    <3>8. f[s] = w[x] + (w[k] + q) /\ f[s \ {k}] = w[x] + q
      BY <2>1, <3>3, <3>4, <3>5, Zenon
    <3> HIDE DEF q
    <3>9. w[x] + (w[k] + q) = w[k] + (w[x] + q)
      BY <3>6, <3>7 DEF q
    <3> QED
      BY <3>8, <3>9, Zenon
  <2> QED
    BY <2>2, <2>3
<1>6. \A s \in SUBSET S : Add(s)
  <2> HIDE DEF M
  <2>1. Nat \subseteq M
    BY <1>4, <1>5, NatSetInduction
  <2> QED
    BY <2>1, <1>a DEF M
<1> QED
  BY <1>3, <1>e, <1>6

\* The fixpoints over a set and over a larger one agree.
LEMMA SumsAgree ==
  ASSUME NEW T, IsFiniteSet(T), NEW S, S \subseteq T, NEW w,
         NEW f, Sums(f, w, S), NEW g, Sums(g, w, T)
  PROVE  \A s \in SUBSET S : f[s] = g[s]
<1> DEFINE N == {n \in Nat :
                   \A s \in SUBSET S : Cardinality(s) = n => f[s] = g[s]}
<1>a. \A s \in SUBSET S : IsFiniteSet(s) /\ Cardinality(s) \in Nat
  BY FS_Subset, FS_CardinalityType
<1>b. ASSUME NEW s \in SUBSET S, s # {}
      PROVE  /\ Pick(s) \in s /\ s \ {Pick(s)} \in SUBSET S
             /\ Cardinality(s \ {Pick(s)}) = Cardinality(s) - 1
  BY <1>b, <1>a, PickIn, FS_RemoveElement
<1>c. \A s \in SUBSET S : Cardinality(s) = 0 <=> s = {}
  BY <1>a, FS_EmptySet
<1>d. \A s \in SUBSET S :
        /\ f[s] = IF s = {} THEN 0 ELSE w[Pick(s)] + f[s \ {Pick(s)}]
        /\ g[s] = IF s = {} THEN 0 ELSE w[Pick(s)] + g[s \ {Pick(s)}]
  BY DEF Sums
<1>1. 0 \in N
  BY <1>c, <1>d
<1>2. ASSUME NEW n \in Nat, n \in N PROVE n + 1 \in N
  <2> SUFFICES ASSUME NEW s \in SUBSET S, Cardinality(s) = n + 1
               PROVE  f[s] = g[s]
    OBVIOUS
  <2>1. s # {}
    BY <1>c
  <2>2. s \ {Pick(s)} \in SUBSET S /\ Cardinality(s \ {Pick(s)}) = n
    BY <1>b, <2>1
  <2>3. f[s \ {Pick(s)}] = g[s \ {Pick(s)}]
    BY <1>2, <2>2
  <2> QED
    BY <1>d, <2>1, <2>3, Zenon
<1> HIDE DEF N
<1>3. Nat \subseteq N
  BY <1>1, <1>2, NatSetInduction
<1> QED
  BY <1>3, <1>a DEF N

LEMMA SumOverIs ==
  ASSUME NEW S, IsFiniteSet(S), NEW w, \A k \in S : w[k] \in Nat
  PROVE  \E f : Sums(f, w, S) /\ SumOver(w, S) = f[S]
<1> DEFINE f == CHOOSE g : Sums(g, w, S)
<1>1. Sums(f, w, S)
  BY SumsExist
<1>2. SumOver(w, S) = f[S]
  BY DEF SumOver, MapThenSumSet, MapThenFoldSet, Sums, Pick
<1> QED
  BY <1>1, <1>2

LEMMA SumOverEmpty == ASSUME NEW w PROVE SumOver(w, {}) = 0
<1>1. PICK f : Sums(f, w, {}) /\ SumOver(w, {}) = f[{}]
  BY SumOverIs, FS_EmptySet
<1> QED
  BY <1>1 DEF Sums

LEMMA SumOverType ==
  ASSUME NEW S, IsFiniteSet(S), NEW w, \A k \in S : w[k] \in Nat
  PROVE  SumOver(w, S) \in Nat
BY SumOverIs, SumsAdd

LEMMA SumOverRemove ==
  ASSUME NEW S, IsFiniteSet(S), NEW w, \A k \in S : w[k] \in Nat, NEW k \in S
  PROVE  SumOver(w, S) = w[k] + SumOver(w, S \ {k})
<1> DEFINE R == S \ {k}
<1>1. R \subseteq S /\ IsFiniteSet(R) /\ \A j \in R : w[j] \in Nat
  BY FS_RemoveElement
<1>2. PICK f : Sums(f, w, S) /\ SumOver(w, S) = f[S]
  BY SumOverIs
<1> HIDE DEF R
<1>3. PICK g : Sums(g, w, R) /\ SumOver(w, R) = g[R]
  BY <1>1, SumOverIs
<1>4. g[R] = f[R]
  BY <1>1, <1>2, <1>3, SumsAgree
<1>5. f[S] = w[k] + f[R]
  BY <1>2, SumsAdd DEF R
<1>6. SumOver(w, S) = w[k] + SumOver(w, R)
  BY <1>2, <1>3, <1>4, <1>5, Zenon
<1> QED
  BY <1>6 DEF R

LEMMA SumOverAdd ==
  ASSUME NEW S, IsFiniteSet(S), NEW w, \A j \in S : w[j] \in Nat,
         NEW k, k \notin S, w[k] \in Nat
  PROVE  SumOver(w, S \cup {k}) = SumOver(w, S) + w[k]
<1> DEFINE T == S \cup {k}
<1>1. IsFiniteSet(T) /\ k \in T /\ \A j \in T : w[j] \in Nat
  BY FS_AddElement
<1>2. T \ {k} = S
  OBVIOUS
<1> HIDE DEF T
<1>3. SumOver(w, T) = w[k] + SumOver(w, S)
  BY <1>1, <1>2, SumOverRemove
<1>4. SumOver(w, S) \in Nat
  BY SumOverType
<1>5. w[k] + SumOver(w, S) = SumOver(w, S) + w[k]
  BY <1>4
<1> QED
  BY <1>3, <1>5 DEF T

----------------------------------------------------------------------------
(* Running sums: f[m] = 0 and f[i] adds v[i] to f[i - 1].                  *)

RunningSum(f, v, m, n) ==
  f = [i \in m..n |-> IF i = m THEN 0 ELSE f[i - 1] + v[i]]

LEMMA RunningSumExists ==
  ASSUME NEW m \in Nat, NEW n \in Nat, NEW v
  PROVE  \E f : RunningSum(f, v, m, n)
<1> DEFINE N == {k \in Nat : \E f : RunningSum(f, v, m, k)}
<1>1. 0 \in N
  <2>1. RunningSum([i \in m..0 |-> 0], v, m, 0)
    BY DEF RunningSum
  <2> QED
    BY <2>1
<1>2. ASSUME NEW k \in Nat, k \in N PROVE k + 1 \in N
  <2>1. PICK f : RunningSum(f, v, m, k)
    BY <1>2
  <2> DEFINE g == [i \in m..(k + 1) |->
                     IF i = m THEN 0 ELSE f[i - 1] + v[i]]
  <2>2. ASSUME NEW i \in m..k PROVE g[i] = f[i]
    BY <2>1 DEF RunningSum
  <2>3. ASSUME NEW i \in m..(k + 1), i # m PROVE g[i - 1] = f[i - 1]
    <3>1. i - 1 \in m..k
      BY <2>3
    <3> QED
      BY <2>2, <3>1
  <2>4. RunningSum(g, v, m, k + 1)
    BY <2>3 DEF RunningSum
  <2> QED
    BY <2>4
<1> HIDE DEF N
<1>3. Nat \subseteq N
  BY <1>1, <1>2, NatSetInduction
<1> QED
  BY <1>3 DEF N

LEMMA RunningSumFacts ==
  ASSUME NEW m \in Nat, NEW n \in Nat, m <= n,
         NEW v, \A i \in (m + 1)..n : v[i] \in Nat,
         NEW f, RunningSum(f, v, m, n)
  PROVE  /\ f \in [m..n -> Nat]
         /\ f[m] = 0
         /\ \A i \in (m + 1)..n : f[i] = f[i - 1] + v[i]
         /\ \A i, j \in m..n : i <= j => f[i] <= f[j]
<1>1. /\ f[m] = 0
      /\ \A i \in (m + 1)..n : f[i] = f[i - 1] + v[i]
  BY DEF RunningSum
<1>2. \A i \in m..n : f[i] \in Nat
  <2> DEFINE N == {k \in Nat : m + k \in m..n => f[m + k] \in Nat}
  <2>1. 0 \in N
    BY <1>1
  <2>2. ASSUME NEW k \in Nat, k \in N PROVE k + 1 \in N
    <3> SUFFICES ASSUME m + (k + 1) \in m..n PROVE f[m + (k + 1)] \in Nat
      OBVIOUS
    <3> DEFINE i == m + (k + 1)
    <3>1. i \in (m + 1)..n /\ i - 1 = m + k /\ i - 1 \in m..n
      OBVIOUS
    <3>2. f[i - 1] \in Nat
      BY <2>2, <3>1
    <3> QED
      BY <1>1, <3>1, <3>2
  <2> HIDE DEF N
  <2>3. Nat \subseteq N
    BY <2>1, <2>2, NatSetInduction
  <2> SUFFICES ASSUME NEW i \in m..n PROVE f[i] \in Nat
    OBVIOUS
  <2>4. i - m \in N /\ m + (i - m) = i
    BY <2>3
  <2> QED
    BY <2>4 DEF N
<1>3. \A i, j \in m..n : i <= j => f[i] <= f[j]
  <2> SUFFICES ASSUME NEW i \in m..n PROVE \A j \in m..n : i <= j => f[i] <= f[j]
    OBVIOUS
  <2> DEFINE N == {k \in Nat : i + k \in m..n => f[i] <= f[i + k]}
  <2>1. 0 \in N
    BY <1>2
  <2>2. ASSUME NEW k \in Nat, k \in N PROVE k + 1 \in N
    <3> SUFFICES ASSUME i + (k + 1) \in m..n PROVE f[i] <= f[i + (k + 1)]
      OBVIOUS
    <3> DEFINE j == i + (k + 1)
    <3>1. j \in (m + 1)..n /\ j - 1 = i + k /\ j - 1 \in m..n
      OBVIOUS
    <3>2. f[i] <= f[j - 1] /\ f[j] = f[j - 1] + v[j] /\ v[j] \in Nat
      BY <1>1, <2>2, <3>1
    <3>3. f[i] \in Nat /\ f[j - 1] \in Nat
      BY <1>2, <3>1
    <3> QED
      BY <3>2, <3>3
  <2> HIDE DEF N
  <2>3. Nat \subseteq N
    BY <2>1, <2>2, NatSetInduction
  <2> SUFFICES ASSUME NEW j \in m..n, i <= j PROVE f[i] <= f[j]
    OBVIOUS
  <2>4. j - i \in N /\ i + (j - i) = j
    BY <2>3
  <2> QED
    BY <2>4 DEF N
<1> QED
  BY <1>1, <1>2, <1>3 DEF RunningSum

----------------------------------------------------------------------------
(* Folds.  FoldLeft over a sequence of length n unfolds to a recursion     *)
(* over the subsets of 1..n that takes out the largest index first.        *)

LEMMA MaxOfIndices ==
  ASSUME NEW m \in Nat, NEW s \in SUBSET (1..(m + 1)), s # {}
  PROVE  /\ Max(s) \in s /\ \A k \in s : k <= Max(s)
         /\ s \ {Max(s)} \in SUBSET (1..m)
<1>1. \E x \in s : \A k \in s : k <= x
  <2>1. m + 1 \in Nat /\ s \subseteq 0..(m + 1)
    OBVIOUS
  <2> QED
    BY <2>1, GreatestNatural
<1>2. \E x \in s : \A k \in s : x >= k
  BY <1>1
<1>3. Max(s) \in s /\ \A k \in s : Max(s) >= k
  BY <1>2 DEF Max
<1>4. ASSUME NEW k \in s \ {Max(s)} PROVE k \in 1..m
  <2>1. /\ k \in 1..(m + 1) /\ Max(s) \in 1..(m + 1)
        /\ Max(s) >= k /\ k # Max(s)
    BY <1>3
  <2> QED
    BY <2>1
<1> QED
  BY <1>3, <1>4

LEMMA MaxIndex ==
  ASSUME NEW n \in Nat, NEW s \in SUBSET (1..n), s # {}
  PROVE  Max(s) \in 1..n /\ s \ {Max(s)} \in SUBSET (1..n)
<1>1. s \in SUBSET (1..(n + 1))
  OBVIOUS
<1>2. Max(s) \in s
  BY <1>1, MaxOfIndices
<1> QED
  BY <1>2

\* f is the recursion with base b and step g.
FoldsTo(f, n, b, g) ==
  \A s \in SUBSET (1..n) :
    f[s] = IF s = {} THEN b ELSE g[<<f[s \ {Max(s)}], Max(s)>>]

LEMMA FoldExists ==
  ASSUME NEW n \in Nat, NEW S, NEW b \in S, NEW g \in [S \X (1..n) -> S]
  PROVE  \E f \in [SUBSET (1..n) -> S] : FoldsTo(f, n, b, g)
<1> DEFINE Good(f, m) == FoldsTo(f, m, b, g)
           Has(m) == \E f \in [SUBSET (1..m) -> S] : Good(f, m)
           N == {m \in Nat : m <= n => Has(m)}
<1>1. Has(0)
  <2> DEFINE f == [s \in SUBSET (1..0) |-> b]
  <2>1. \A s \in SUBSET (1..0) : s = {}
    OBVIOUS
  <2>2. f \in [SUBSET (1..0) -> S] /\ Good(f, 0)
    BY <2>1 DEF FoldsTo
  <2> QED
    BY <2>2
<1>2. ASSUME NEW m \in Nat, m + 1 <= n, Has(m) PROVE Has(m + 1)
  <2>1. PICK f \in [SUBSET (1..m) -> S] : Good(f, m)
    BY <1>2
  <2> DEFINE h == [s \in SUBSET (1..(m + 1)) |->
                     IF s = {} THEN b ELSE g[<<f[s \ {Max(s)}], Max(s)>>]]
  <2>2. ASSUME NEW s \in SUBSET (1..(m + 1)), s # {}
        PROVE  /\ s \ {Max(s)} \in SUBSET (1..m) /\ Max(s) \in 1..n
               /\ f[s \ {Max(s)}] \in S
    <3>1. Max(s) \in s /\ s \ {Max(s)} \in SUBSET (1..m)
      BY <2>2, MaxOfIndices
    <3>2. Max(s) \in 1..(m + 1)
      BY <3>1
    <3>3. Max(s) \in 1..n
      BY <1>2, <3>2
    <3> HIDE DEF Good
    <3> QED
      BY <3>1, <3>3
  <2>3. h \in [SUBSET (1..(m + 1)) -> S]
    BY <2>2
  <2>4. ASSUME NEW s \in SUBSET (1..m) PROVE h[s] = f[s]
    <3>1. s \in SUBSET (1..(m + 1))
      OBVIOUS
    <3> QED
      BY <2>1, <3>1 DEF FoldsTo
  <2>5. Good(h, m + 1)
    <3> SUFFICES ASSUME NEW s \in SUBSET (1..(m + 1))
                 PROVE  h[s] = IF s = {} THEN b
                               ELSE g[<<h[s \ {Max(s)}], Max(s)>>]
      BY DEF FoldsTo
    <3>1. s # {} => h[s \ {Max(s)}] = f[s \ {Max(s)}]
      BY <2>2, <2>4
    <3> QED
      BY <3>1
  <2> HIDE DEF h, Good
  <2> QED
    BY <2>3, <2>5
<1>3. Has(n)
  <2> HIDE DEF Has
  <2>1. 0 \in N
    BY <1>1
  <2>2. ASSUME NEW m \in Nat, m \in N PROVE m + 1 \in N
    BY <1>2, <2>2
  <2> HIDE DEF N
  <2>3. n \in N
    BY <2>1, <2>2, NatSetInduction
  <2> QED
    BY <2>3 DEF N
<1> QED
  BY <1>3

\* Whatever the recursion keeps, every value of it has.
LEMMA FoldTyped ==
  ASSUME NEW n \in Nat, NEW S, NEW f, f[{}] \in S,
         \A s \in SUBSET (1..n) :
           s # {} /\ f[s \ {Max(s)}] \in S => f[s] \in S
  PROVE  \A s \in SUBSET (1..n) : f[s] \in S
<1> DEFINE N == {m \in Nat : m <= n => \A s \in SUBSET (1..m) : f[s] \in S}
<1>1. 0 \in N
  <2>1. \A s \in SUBSET (1..0) : s = {}
    OBVIOUS
  <2> QED
    BY <2>1
<1>2. ASSUME NEW m \in Nat, m \in N PROVE m + 1 \in N
  <2>0. m <= n => \A s \in SUBSET (1..m) : f[s] \in S
    BY <1>2
  <2>1. ASSUME m + 1 <= n, NEW s \in SUBSET (1..(m + 1)) PROVE f[s] \in S
    <3>1. CASE s = {}
      BY <3>1
    <3>2. CASE s # {}
      <4>1. s \ {Max(s)} \in SUBSET (1..m)
        BY <3>2, MaxOfIndices
      <4>2. m <= n
        BY <2>1
      <4>3. f[s \ {Max(s)}] \in S
        BY <2>0, <4>1, <4>2
      <4>4. s \in SUBSET (1..n)
        BY <2>1
      <4> QED
        BY <3>2, <4>3, <4>4
    <3> QED
      BY <3>1, <3>2
  <2>2. m + 1 <= n => \A s \in SUBSET (1..(m + 1)) : f[s] \in S
    BY <2>1
  <2>3. m + 1 \in Nat
    OBVIOUS
  <2> QED
    BY <2>2, <2>3
<1> HIDE DEF N
<1>3. n \in N
  BY <1>1, <1>2, NatSetInduction
<1> QED
  BY <1>3 DEF N

\* Induction over the sets of indices.
LEMMA IndexSetInduction ==
  ASSUME NEW n \in Nat, NEW G, {} \in G,
         \A s \in SUBSET (1..n) : s # {} /\ s \ {Max(s)} \in G => s \in G
  PROVE  \A s \in SUBSET (1..n) : s \in G
<1> DEFINE f == [s \in SUBSET (1..n) |-> s]
<1>1. f[{}] \in G
  OBVIOUS
<1>2. ASSUME NEW s \in SUBSET (1..n), s # {}, f[s \ {Max(s)}] \in G PROVE f[s] \in G
  BY <1>2, MaxIndex
<1>3. \A s \in SUBSET (1..n) : f[s] = s
  OBVIOUS
<1> HIDE DEF f
<1>4. \A s \in SUBSET (1..n) : f[s] \in G
  BY <1>1, <1>2, FoldTyped
<1> QED
  BY <1>3, <1>4

\* f is the recursion over 0..n with base b and step g.
Recursion(f, n, b, g) == f[0] = b /\ \A k \in 1..n : f[k] = g[<<f[k - 1], k>>]

\* One that stays in a set has a value.
LEMMA RecursionExists ==
  ASSUME NEW n \in Nat, NEW S, NEW b \in S, NEW g \in [S \X (1..n) -> S]
  PROVE  \E f \in [0..n -> S] : Recursion(f, n, b, g)
<1>1. PICK F \in [SUBSET (1..n) -> S] : FoldsTo(F, n, b, g)
  BY FoldExists
<1> DEFINE f == [k \in 0..n |-> F[1..k]]
<1>2. f \in [0..n -> S]
  <2>1. \A k \in 0..n : 1..k \in SUBSET (1..n)
    OBVIOUS
  <2> QED
    BY <2>1
<1>3. f[0] = b
  <2>1. 1..0 = {} /\ {} \in SUBSET (1..n) /\ 0 \in 0..n
    OBVIOUS
  <2>2. F[{}] = b
    BY <1>1, <2>1 DEF FoldsTo
  <2> QED
    BY <2>1, <2>2
<1>4. ASSUME NEW k \in 1..n PROVE f[k] = g[<<f[k - 1], k>>]
  <2> DEFINE s == 1..k
  <2>1. s \in SUBSET (1..n) /\ s # {} /\ k - 1 \in 0..n /\ k \in 0..n
    OBVIOUS
  <2>2. Max(s) = k
    <3>1. \E x \in s : \A j \in s : x >= j
      BY <2>1
    <3>2. Max(s) \in s /\ \A j \in s : Max(s) >= j
      BY <3>1 DEF Max
    <3> QED
      BY <3>2
  <2>3. s \ {k} = 1..(k - 1)
    OBVIOUS
  <2> HIDE DEF s
  <2>4. F[s] = g[<<F[1..(k - 1)], k>>]
    BY <1>1, <2>1, <2>2, <2>3 DEF FoldsTo
  <2> QED
    BY <2>1, <2>4 DEF s
<1> HIDE DEF f
<1>5. Recursion(f, n, b, g)
  BY <1>3, <1>4 DEF Recursion
<1> QED
  BY <1>2, <1>5

\* And only one.
LEMMA RecursionIsUnique ==
  ASSUME NEW n \in Nat, NEW f, NEW h, f[0] = h[0],
         \A k \in 1..n : f[k - 1] = h[k - 1] => f[k] = h[k]
  PROVE  \A k \in 0..n : f[k] = h[k]
<1> DEFINE N == {k \in Nat : k <= n => f[k] = h[k]}
<1>1. 0 \in N
  OBVIOUS
<1>2. ASSUME NEW k \in Nat, k \in N PROVE k + 1 \in N
  <2>1. CASE k + 1 <= n
    <3>1. k + 1 \in 1..n /\ (k + 1) - 1 = k /\ f[k] = h[k]
      BY <1>2, <2>1
    <3>2. f[k + 1] = h[k + 1]
      BY <3>1
    <3> QED
      BY <3>2
  <2>2. CASE ~(k + 1 <= n)
    BY <2>2
  <2> QED
    BY <2>1, <2>2
<1> HIDE DEF N
<1>3. \A k \in Nat : k \in N
  BY <1>1, <1>2, NatSetInduction
<1> QED
  BY <1>3 DEF N
============================================================================
