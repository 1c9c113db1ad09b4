-------------------------- MODULE Induction_proofs --------------------------
(***************************************************************************)
(* Induction over the natural numbers, in the form the proofs about        *)
(* recursively defined functions use: a set of numbers that is not empty   *)
(* has a least element.  And what several modules need of arithmetic.      *)
(***************************************************************************)
EXTENDS Integers, SequencesExt, FiniteSetTheorems, WellFoundedInduction, SequenceTheorems, TLAPS

(***************************************************************************)
(* The least counterexample.  Applied to the numbers a claim fails for.    *)
(***************************************************************************)
LEMMA LeastNatural ==
  ASSUME NEW T, T \subseteq Nat, T # {}
  PROVE  \E n \in T : \A m \in T : n <= m
<1> DEFINE R == OpToRel(<, Nat)
<1>1. IsWellFoundedOn(R, Nat)
  BY NatLessThanWellFounded
<1>2. \A x, y \in Nat : <<x, y>> \in R <=> x < y
  BY DEF OpToRel
<1> HIDE DEF R
<1>3. PICK n \in T : \A m \in T : <<m, n>> \notin R
  BY <1>1, WFMin
<1>4. n \in Nat /\ \A m \in T : m \in Nat /\ ~ (m < n)
  BY <1>2, <1>3
<1>5. \A m \in T : n <= m
  BY <1>4
<1> QED
  BY <1>5

(***************************************************************************)
(* Induction: a claim that holds for 0, and for n + 1 whenever it does for *)
(* n, holds for every number.  T is the set of numbers it holds for.       *)
(***************************************************************************)
LEMMA InductionOnNat ==
  ASSUME NEW T, T \subseteq Nat, 0 \in T, \A n \in T : n + 1 \in T
  PROVE  T = Nat
<1> SUFFICES ASSUME Nat \ T # {} PROVE FALSE
  OBVIOUS
<1>1. PICK n \in Nat \ T : \A m \in Nat \ T : n <= m
  BY LeastNatural
<1>2. n # 0 /\ n - 1 \in Nat
  BY <1>1
<1>3. n - 1 \in T
  BY <1>1, <1>2
<1>4. (n - 1) + 1 \in T
  BY <1>3
<1> QED
  BY <1>1, <1>4

(***************************************************************************)
(* Definition by recursion: the equations f[0] = a, f[k] = G[k][f[k - 1]]  *)
(* have a solution.                                                        *)
(***************************************************************************)
LEMMA RecursionExists ==
  ASSUME NEW S, NEW a \in S, NEW N \in Nat, NEW G \in [1 .. N -> [S -> S]]
  PROVE  \E f \in [0 .. N -> S] :
           f[0] = a /\ \A k \in 1 .. N : f[k] = G[k][f[k - 1]]
<1> DEFINE Solves(f, n) ==
             f \in [0 .. n -> S] /\ f[0] = a /\ \A k \in 1 .. n : f[k] = G[k][f[k - 1]]
           T == {n \in Nat : n <= N => \E f : Solves(f, n)}
<1>1. 0 \in T
  <2>1. Solves([k \in 0 .. 0 |-> a], 0)
    OBVIOUS
  <2> QED
    BY <2>1
<1>2. ASSUME NEW n \in T
      PROVE  n + 1 \in T
  <2> SUFFICES ASSUME n + 1 <= N PROVE \E f : Solves(f, n + 1)
    BY <1>2
  <2>1. n \in Nat /\ n <= N /\ n + 1 \in 1 .. N
    BY <1>2
  <2>2. PICK f : Solves(f, n)
    BY <1>2, <2>1
  <2> DEFINE g == [k \in 0 .. n + 1 |-> IF k = n + 1 THEN G[n + 1][f[n]] ELSE f[k]]
  <2>3. n \in 0 .. n /\ f[n] \in S /\ G[n + 1] \in [S -> S]
    BY <2>1, <2>2
  <2>4. g \in [0 .. n + 1 -> S]
    BY <2>1, <2>2, <2>3
  <2>5. g[0] = a
    BY <2>1, <2>2
  <2>6. ASSUME NEW k \in 1 .. n + 1
        PROVE  g[k] = G[k][g[k - 1]]
    <3>1. CASE k = n + 1
      <4>1. g[k] = G[n + 1][f[n]] /\ k - 1 = n
        BY <3>1, <2>1
      <4>2. g[n] = f[n]
        BY <2>1
      <4> QED
        BY <4>1, <4>2, <3>1
    <3>2. CASE k # n + 1
      <4>1. k \in 1 .. n /\ k - 1 \in 0 .. n /\ k - 1 # n + 1
        BY <3>2, <2>1
      <4>2. g[k] = f[k] /\ g[k - 1] = f[k - 1]
        BY <4>1, <3>2, <2>1
      <4> QED
        BY <4>1, <4>2, <2>2
    <3> QED
      BY <3>1, <3>2
  <2>7. Solves(g, n + 1)
    BY <2>4, <2>5, <2>6
  <2> QED
    BY <2>7
<1>3. T = Nat
  <2> HIDE DEF Solves
  <2>1. T \subseteq Nat
    OBVIOUS
  <2> HIDE DEF T
  <2> QED
    BY <1>1, <1>2, <2>1, InductionOnNat
<1>4. PICK f : Solves(f, N)
  BY <1>3
<1> QED
  BY <1>4

(***************************************************************************)
(* The same between any two numbers; and what satisfies such equations has *)
(* its values in S.                                                        *)
(***************************************************************************)
Solvable(S, a, lo, hi, G) ==
  \E f \in [lo .. hi -> S] : f[lo] = a /\ \A k \in lo + 1 .. hi : f[k] = G[k][f[k - 1]]

LEMMA RecursionBetween ==
  ASSUME NEW S, NEW a \in S, NEW lo \in Int, NEW hi \in Int, lo <= hi,
         NEW G, \A k \in lo + 1 .. hi : \A x \in S : G[k][x] \in S
  PROVE  Solvable(S, a, lo, hi, G)
<1> DEFINE Solves(f, n) ==
             f \in [lo .. n -> S] /\ f[lo] = a /\ \A k \in lo + 1 .. n : f[k] = G[k][f[k - 1]]
           T == {n \in Nat : lo + n <= hi => \E f : Solves(f, lo + n)}
<1>1. 0 \in T
  <2>1. Solves([k \in lo .. lo |-> a], lo)
    OBVIOUS
  <2>2. lo + 0 = lo
    OBVIOUS
  <2> HIDE DEF Solves
  <2> QED
    BY <2>1, <2>2
<1>2. ASSUME NEW m \in T
      PROVE  m + 1 \in T
  <2> DEFINE n == lo + m
  <2> SUFFICES ASSUME n + 1 <= hi PROVE \E f : Solves(f, n + 1)
    <3>1. lo + (m + 1) = n + 1
      OBVIOUS
    <3> HIDE DEF Solves, n
    <3> QED
      BY <3>1
  <2>1. n \in Int /\ lo <= n /\ n <= hi /\ n + 1 \in lo + 1 .. hi /\ n # lo - 1
    OBVIOUS
  <2>2. PICK f : Solves(f, n)
    <3> HIDE DEF Solves
    <3> QED
      BY <1>2, <2>1
  <2> HIDE DEF n
  <2> DEFINE g == [k \in lo .. n + 1 |-> IF k = n + 1 THEN G[n + 1][f[n]] ELSE f[k]]
  <2>3. n \in lo .. n /\ f[n] \in S /\ G[n + 1][f[n]] \in S
    BY <2>1, <2>2
  <2>4. g \in [lo .. n + 1 -> S]
    BY <2>1, <2>2, <2>3
  <2>5. g[lo] = a
    BY <2>1, <2>2
  <2>6. ASSUME NEW k \in lo + 1 .. n + 1
        PROVE  g[k] = G[k][g[k - 1]]
    <3>1. CASE k = n + 1
      <4>1. g[k] = G[n + 1][f[n]] /\ k - 1 = n
        BY <3>1, <2>1
      <4>2. g[n] = f[n]
        BY <2>1
      <4> QED
        BY <4>1, <4>2, <3>1
    <3>2. CASE k # n + 1
      <4>1. k \in lo + 1 .. n /\ k - 1 \in lo .. n /\ k - 1 # n + 1
        BY <3>2, <2>1
      <4>2. g[k] = f[k] /\ g[k - 1] = f[k - 1]
        BY <4>1, <3>2, <2>1
      <4> QED
        BY <4>1, <4>2, <2>2
    <3> QED
      BY <3>1, <3>2
  <2>7. Solves(g, n + 1)
    BY <2>4, <2>5, <2>6
  <2> QED
    BY <2>7
<1>3. T = Nat
  <2> HIDE DEF Solves
  <2>1. T \subseteq Nat
    OBVIOUS
  <2> HIDE DEF T
  <2> QED
    BY <1>1, <1>2, <2>1, InductionOnNat
<1>4. PICK f : Solves(f, hi)
  <2>1. hi - lo \in Nat /\ lo + (hi - lo) = hi /\ hi <= hi
    OBVIOUS
  <2>2. hi - lo \in T
    BY <2>1, <1>3
  <2> HIDE DEF Solves
  <2> QED
    BY <2>1, <2>2
<1> QED
  BY <1>4 DEF Solvable

LEMMA RecursionTyped ==
  ASSUME NEW S, NEW lo \in Int, NEW hi \in Int, NEW f, f[lo] \in S,
         \A k \in lo + 1 .. hi : f[k - 1] \in S => f[k] \in S
  PROVE  \A k \in lo .. hi : f[k] \in S
<1> DEFINE T == {n \in Nat : lo + n <= hi => f[lo + n] \in S}
<1>1. 0 \in T
  OBVIOUS
<1>2. ASSUME NEW n \in T
      PROVE  n + 1 \in T
  <2> SUFFICES ASSUME lo + (n + 1) <= hi
               PROVE  f[lo + (n + 1)] \in S
    OBVIOUS
  <2>1. lo + (n + 1) \in lo + 1 .. hi /\ (lo + (n + 1)) - 1 = lo + n /\ lo + n <= hi
    OBVIOUS
  <2>2. f[lo + n] \in S
    BY <2>1
  <2> QED
    BY <2>1, <2>2
<1>3. T = Nat
  <2>1. T \subseteq Nat
    OBVIOUS
  <2> HIDE DEF T
  <2> QED
    BY <1>1, <1>2, <2>1, InductionOnNat
<1>4. ASSUME NEW k \in lo .. hi
      PROVE  f[k] \in S
  <2>1. k - lo \in Nat /\ lo + (k - lo) = k /\ k <= hi
    OBVIOUS
  <2>2. k - lo \in T
    BY <2>1, <1>3
  <2> QED
    BY <2>1, <2>2
<1> QED
  BY <1>4

(***************************************************************************)
(* A growing chain of N + 1 sets that are not empty, within a set of N     *)
(* elements, stands still somewhere; if it stays where it stands still,    *)
(* its last two sets are equal.                                            *)
(***************************************************************************)
LEMMA ChainCloses ==
  ASSUME NEW U, IsFiniteSet(U), NEW N \in Nat, Cardinality(U) <= N,
         NEW f, \A k \in 0 .. N : f[k] \in SUBSET U, f[0] # {},
         \A k \in 1 .. N : f[k - 1] \subseteq f[k],
         \A k \in 1 .. N - 1 : f[k] = f[k - 1] => f[k + 1] = f[k]
  PROVE  N >= 1 /\ f[N] = f[N - 1]
<1> DEFINE T == {n \in Nat : n <= N => \/ n >= 1 /\ f[n] = f[n - 1]
                                      \/ Cardinality(f[n]) >= n + 1}
<1>1. \A k \in 0 .. N : IsFiniteSet(f[k]) /\ Cardinality(f[k]) \in Nat
                         /\ Cardinality(f[k]) <= Cardinality(U)
  BY FS_Subset, FS_CardinalityType
<1>2. 0 \in T
  <2>1. Cardinality(f[0]) # 0
    BY <1>1, FS_EmptySet
  <2> QED
    BY <2>1, <1>1
<1>3. ASSUME NEW n \in T
      PROVE  n + 1 \in T
  <2> SUFFICES ASSUME n + 1 <= N
               PROVE  f[n + 1] = f[n] \/ Cardinality(f[n + 1]) >= n + 2
    OBVIOUS
  <2>1. n \in 0 .. N /\ n + 1 \in 1 .. N /\ (n + 1) - 1 = n
    OBVIOUS
  <2>2. CASE n >= 1 /\ f[n] = f[n - 1]
    <3>1. n \in 1 .. N - 1
      BY <2>1, <2>2
    <3> QED
      BY <2>2, <3>1
  <2>3. CASE Cardinality(f[n]) >= n + 1 /\ f[n + 1] # f[n]
    <3>1. f[n] \in SUBSET f[n + 1] /\ IsFiniteSet(f[n + 1])
      BY <1>1, <2>1
    <3>2. Cardinality(f[n]) <= Cardinality(f[n + 1]) /\ Cardinality(f[n]) # Cardinality(f[n + 1])
      BY <2>3, <3>1, FS_Subset
    <3>3. Cardinality(f[n]) \in Nat /\ Cardinality(f[n + 1]) \in Nat
      BY <1>1, <2>1
    <3> QED
      BY <2>3, <3>2, <3>3
  <2> QED
    BY <2>2, <2>3
<1>4. T = Nat
  <2>1. T \subseteq Nat
    OBVIOUS
  <2> HIDE DEF T
  <2> QED
    BY <1>2, <1>3, <2>1, InductionOnNat
<1>5. N \in T
  BY <1>4
<1>6. Cardinality(f[N]) <= N
  BY <1>1, FS_CardinalityType
<1> QED
  BY <1>1, <1>5, <1>6
----------------------------------------------------------------------------
(***************************************************************************)
(* A recursion over any set D whose elements have a rank: h[q] is given,   *)
(* or follows from h at an element of a smaller rank.                      *)
(***************************************************************************)
Unfolds(h, D, stop, base, next, G) ==
  \A q \in D : h[q] = IF stop[q] THEN base[q] ELSE G[q][h[next[q]]]

LEMMA RecursionByRank ==
  ASSUME NEW D, NEW S, NEW bound \in Nat, NEW rank, \A q \in D : rank[q] \in 0 .. bound,
         NEW stop, NEW base, \A q \in D : base[q] \in S,
         NEW next, \A q \in D : ~stop[q] => next[q] \in D /\ rank[next[q]] < rank[q],
         NEW G, \A q \in D : \A x \in S : G[q][x] \in S
  PROVE  \E h \in [D -> S] : Unfolds(h, D, stop, base, next, G)
<1> DEFINE Below(n) == {q \in D : rank[q] < n}
           T == {n \in Nat : \E h \in [Below(n) -> S] : Unfolds(h, Below(n), stop, base, next, G)}
<1>1. 0 \in T
  <2>1. Below(0) = {}
    OBVIOUS
  <2>2. [q \in {} |-> base[q]] \in [{} -> S]
    OBVIOUS
  <2> HIDE DEF Below
  <2> QED
    BY <2>1, <2>2 DEF Unfolds
<1>2. ASSUME NEW n \in T
      PROVE  n + 1 \in T
  <2>1. PICK h \in [Below(n) -> S] : Unfolds(h, Below(n), stop, base, next, G)
    OBVIOUS
  <2> DEFINE e(q) == IF stop[q] THEN base[q] ELSE G[q][h[next[q]]]
             k == [q \in Below(n + 1) |-> e(q)]
  <2>2. n \in Nat
    OBVIOUS
  <2>3. ASSUME NEW q \in Below(n + 1), ~stop[q]
        PROVE  next[q] \in Below(n) /\ next[q] \in Below(n + 1)
    <3>1. q \in D /\ rank[q] < n + 1 /\ next[q] \in D /\ rank[next[q]] < rank[q]
          /\ rank[q] \in Nat /\ rank[next[q]] \in Nat
      BY <2>3
    <3> QED
      BY <2>2, <3>1
  <2>4. \A q \in Below(n + 1) : q \in D
    OBVIOUS
  <2>5. \A q \in Below(n) : q \in Below(n + 1)
    BY <2>2
  <2> HIDE DEF Below
  <2>6. \A q \in Below(n + 1) : e(q) \in S
    BY <2>1, <2>3, <2>4
  <2>7. k \in [Below(n + 1) -> S]
    <3> HIDE DEF e
    <3> QED
      BY <2>6
  <2>8. \A q \in Below(n) : k[q] = h[q]
    BY <2>1, <2>5 DEF Unfolds
  <2>9. Unfolds(k, Below(n + 1), stop, base, next, G)
    BY <2>3, <2>8 DEF Unfolds
  <2> HIDE DEF k
  <2> QED
    BY <2>2, <2>7, <2>9
<1>3. T = Nat
  <2>1. T \subseteq Nat
    OBVIOUS
  <2> HIDE DEF T
  <2> QED
    BY <1>1, <1>2, <2>1, InductionOnNat
<1>4. bound + 1 \in T /\ Below(bound + 1) = D
  <2>1. \A q \in D : rank[q] < bound + 1
    OBVIOUS
  <2>2. Below(bound + 1) = D
    BY <2>1
  <2>3. bound + 1 \in Nat
    OBVIOUS
  <2> HIDE DEF T, Below
  <2> QED
    BY <1>3, <2>2, <2>3
<1> HIDE DEF Below
<1> QED
  BY <1>4

\* A claim fails nowhere in D if each failure is behind one of a smaller rank.
LEMMA NoDescent ==
  ASSUME NEW D, NEW T, NEW rank, \A q \in D : rank[q] \in Nat,
         \A q \in D \ T : \E r \in D \ T : rank[r] < rank[q]
  PROVE  D \subseteq T
<1> SUFFICES ASSUME D \ T # {} PROVE FALSE
  OBVIOUS
<1> DEFINE ranks == {n \in Nat : \E q \in D \ T : n = rank[q]}
<1>1. ranks \subseteq Nat /\ ranks # {} /\ \A q \in D \ T : rank[q] \in ranks
  OBVIOUS
<1>2. PICK n \in ranks : \A m \in ranks : n <= m
  <2> HIDE DEF ranks
  <2> QED
    BY <1>1, LeastNatural
<1>3. PICK q \in D \ T : n = rank[q]
  BY <1>2
<1>4. PICK r \in D \ T : rank[r] < rank[q]
  OBVIOUS
<1>5. n <= rank[r] /\ n \in Nat /\ rank[r] \in Nat
  BY <1>1, <1>2
<1> QED
  BY <1>3, <1>4, <1>5

----------------------------------------------------------------------------
(***************************************************************************)
(* Quotient and remainder.                                                 *)
(***************************************************************************)
LEMMA Divided ==
  ASSUME NEW w \in Nat, w > 0, NEW x \in Int
  PROVE  x \div w \in Int /\ x % w \in 0 .. w - 1 /\ x = w * (x \div w) + (x % w)
BY SMT

----------------------------------------------------------------------------
(***************************************************************************)
(* Sequences joined by FlattenSeq, a recursive function.                   *)
(***************************************************************************)
\* The sequences joined one by one.
Joined(h, f, n, S) ==
  /\ h[1] = f[1]
  /\ \A k \in 2 .. n : h[k] = h[k - 1] \o f[k]
  /\ \A k \in 1 .. n : h[k] \in Seq(S)

LEMMA FlattenSteps ==
  ASSUME NEW S, NEW n \in Nat, NEW f \in [1 .. n -> Seq(S)]
  PROVE  IF n = 0 THEN FlattenSeq(f) = <<>>
         ELSE \E h : FlattenSeq(f) = h[n] /\ Joined(h, f, n, S)
<1>1. f \in Seq(Seq(S)) /\ Len(f) = n
  OBVIOUS
<1>2. CASE n = 0
  BY <1>1, <1>2 DEF FlattenSeq
<1>3. CASE n # 0
  <2> DEFINE Q == Seq(S)
             G == [k \in 2 .. n |-> [x \in Q |-> x \o f[k]]]
             Eqn(h) == h = [i \in 1 .. Len(f) |->
                              IF i = 1 THEN f[i] ELSE h[i - 1] \o f[i]]
  <2>1. \A k \in 1 .. n : f[k] \in Q
    OBVIOUS
  <2>2. \A k \in 2 .. n : \A x \in Q : G[k][x] = x \o f[k] /\ G[k][x] \in Q
    <3>1. \A k \in 2 .. n : k \in 1 .. n
      OBVIOUS
    <3>2. \A k \in 2 .. n : \A x \in Q : x \o f[k] \in Q
      BY <2>1, <3>1
    <3> QED
      BY <3>2
  <2> DEFINE a == f[1]
  <2>3. a \in Q /\ 1 <= n /\ 1 + 1 = 2
    BY <2>1, <1>3
  <2> HIDE DEF Q
  <2>4. Solvable(Q, a, 1, n, G)
    <3>1. \A k \in 1 + 1 .. n : \A x \in Q : G[k][x] \in Q
      BY <2>2, <2>3
    <3>2. 1 \in Int /\ n \in Int /\ 1 <= n /\ a \in Q
      BY <2>3
    <3> HIDE DEF a, G
    <3> QED
      BY <3>1, <3>2, RecursionBetween
  <2>5. PICK g \in [1 .. n -> Q] : g[1] = f[1] /\ \A k \in 2 .. n : g[k] = G[k][g[k - 1]]
    BY <2>3, <2>4 DEF Solvable
  <2>6. Eqn(g)
    <3>1. ASSUME NEW i \in 2 .. n
          PROVE  g[i] = g[i - 1] \o f[i]
      <4>1. g[i - 1] \in Q
        BY <2>5
      <4> QED
        BY <4>1, <2>2, <2>5
    <3>2. \A i \in 1 .. n : i = 1 \/ i \in 2 .. n
      OBVIOUS
    <3>3. \A i \in 1 .. n : g[i] = IF i = 1 THEN f[i] ELSE g[i - 1] \o f[i]
      BY <3>1, <3>2, <2>5
    <3> HIDE DEF G
    <3> QED
      BY <3>3, <2>5, <1>1
  <2> HIDE DEF G
  <2> DEFINE flatten == CHOOSE h : Eqn(h)
  <2>7. Eqn(flatten)
    <3> HIDE DEF Eqn
    <3> QED
      BY <2>6
  <2>8. FlattenSeq(f) = flatten[n]
    BY <1>1, <1>3 DEF FlattenSeq
  <2> HIDE DEF flatten
  <2>9. flatten[1] \in Q /\ \A k \in 1 + 1 .. n : flatten[k - 1] \in Q => flatten[k] \in Q
    <3>0. \A k \in 1 .. n : flatten[k] = IF k = 1 THEN f[k] ELSE flatten[k - 1] \o f[k]
      BY <2>7, <1>1
    <3>1. 1 \in 1 .. n /\ \A k \in 1 + 1 .. n : k \in 1 .. n /\ k # 1
      BY <2>3
    <3>2. flatten[1] = f[1] /\ f[1] \in Q
      BY <3>0, <3>1, <2>1
    <3>3. ASSUME NEW k \in 1 + 1 .. n, flatten[k - 1] \in Q
          PROVE  flatten[k] \in Q
      <4>1. flatten[k] = flatten[k - 1] \o f[k] /\ f[k] \in Q
        BY <3>0, <3>1, <2>1
      <4> DEFINE x == flatten[k - 1]
                 y == f[k]
      <4>2. x \in Seq(S) /\ y \in Seq(S)
        BY <3>3, <4>1 DEF Q
      <4> HIDE DEF x, y
      <4>3. x \o y \in Seq(S)
        BY <4>2, ConcatProperties
      <4> QED
        BY <4>1, <4>3 DEF x, y, Q
    <3> HIDE DEF Eqn
    <3> QED
      BY <3>2, <3>3
  <2>10. \A k \in 1 .. n : flatten[k] \in Q
    <3>1. 1 \in Int /\ n \in Int
      OBVIOUS
    <3> HIDE DEF Eqn
    <3> QED
      BY <2>9, <3>1, RecursionTyped
  <2>11. flatten[1] = f[1] /\ \A k \in 2 .. n : flatten[k] = flatten[k - 1] \o f[k]
    <3>1. \A k \in 1 .. n : flatten[k] = IF k = 1 THEN f[k] ELSE flatten[k - 1] \o f[k]
      BY <2>7, <1>1
    <3>2. 1 \in 1 .. n /\ \A k \in 2 .. n : k \in 1 .. n /\ k # 1
      BY <2>3
    <3> HIDE DEF Eqn
    <3> QED
      BY <3>1, <3>2
  <2> HIDE DEF Eqn
  <2>12. Joined(flatten, f, n, S)
    BY <2>10, <2>11 DEF Joined, Q
  <2> QED
    BY <2>8, <2>12, <1>3
<1> QED
  BY <1>2, <1>3

\* Sequences joined are a sequence of the same elements.
LEMMA FlattenType ==
  ASSUME NEW S, NEW n \in Nat, NEW f \in [1 .. n -> Seq(S)]
  PROVE  FlattenSeq(f) \in Seq(S)
<1>1. CASE n = 0
  <2>1. FlattenSeq(f) = <<>>
    BY <1>1, FlattenSteps
  <2> QED
    BY <2>1
<1>2. CASE n # 0
  <2>1. PICK h : FlattenSeq(f) = h[n] /\ Joined(h, f, n, S)
    BY <1>2, FlattenSteps
  <2>2. n \in 1 .. n
    BY <1>2
  <2> QED
    BY <2>1, <2>2 DEF Joined
<1> QED
  BY <1>1, <1>2

\* One sequence more is joined behind the others.
LEMMA FlattenAppend ==
  ASSUME NEW S, NEW n \in Nat, NEW f \in [1 .. n + 1 -> Seq(S)]
  PROVE  FlattenSeq(f) = FlattenSeq([i \in 1 .. n |-> f[i]]) \o f[n + 1]
<1> DEFINE g == [i \in 1 .. n |-> f[i]]
<1>1. g \in [1 .. n -> Seq(S)] /\ n + 1 \in Nat /\ n + 1 # 0 /\ \A i \in 1 .. n : g[i] = f[i]
  OBVIOUS
<1>2. PICK h : FlattenSeq(f) = h[n + 1] /\ Joined(h, f, n + 1, S)
  BY <1>1, FlattenSteps
<1> HIDE DEF g
<1>3. CASE n = 0
  <2>1. FlattenSeq(g) = <<>>
    BY <1>1, <1>3, FlattenSteps
  <2>2. h[1] = f[1] /\ f[1] \in Seq(S)
    BY <1>2, <1>3 DEF Joined
  <2> QED
    BY <1>2, <1>3, <2>1, <2>2, ConcatEmptySeq DEF g
<1>4. CASE n # 0
  <2>1. PICK e : FlattenSeq(g) = e[n] /\ Joined(e, g, n, S)
    BY <1>1, <1>4, FlattenSteps
  <2> DEFINE p == [k \in 1 .. n |-> IF h[k] = e[k] THEN 0 ELSE 1]
  <2>2. p[1] \in {0}
    BY <1>1, <1>2, <1>4, <2>1 DEF Joined
  <2>3. ASSUME NEW k \in 1 + 1 .. n, p[k - 1] \in {0}
        PROVE  p[k] \in {0}
    <3>1. k \in 2 .. n + 1 /\ k \in 2 .. n /\ k \in 1 .. n /\ k - 1 \in 1 .. n
      OBVIOUS
    <3>2. h[k - 1] = e[k - 1]
      BY <2>3, <3>1
    <3>3. h[k] = h[k - 1] \o f[k]
      BY <1>2, <3>1 DEF Joined
    <3>4. e[k] = e[k - 1] \o g[k]
      BY <2>1, <3>1 DEF Joined
    <3> QED
      BY <1>1, <3>1, <3>2, <3>3, <3>4
  <2>4. \A k \in 1 .. n : p[k] \in {0}
    <3> DEFINE Q == {0}
    <3>1. 1 \in Int /\ n \in Int /\ p[1] \in Q
      BY <2>2
    <3>2. \A k \in 1 + 1 .. n : p[k - 1] \in Q => p[k] \in Q
      BY <2>3
    <3> HIDE DEF p, Q
    <3>3. \A k \in 1 .. n : p[k] \in Q
      BY <3>1, <3>2, RecursionTyped
    <3> QED
      BY <3>3 DEF Q
  <2>5. h[n] = e[n]
    <3>1. n \in 1 .. n /\ p[n] \in {0}
      BY <2>4, <1>4
    <3> QED
      BY <3>1
  <2>6. h[n + 1] = h[n] \o f[n + 1]
    <3>1. \A k \in 2 .. n + 1 : h[k] = h[k - 1] \o f[k]
      BY <1>2 DEF Joined
    <3>2. \A k : k = n + 1 => k \in 2 .. n + 1 /\ k - 1 = n
      BY <1>4
    <3> QED
      BY <3>1, <3>2
  <2> QED
    BY <1>2, <2>1, <2>5, <2>6 DEF g
<1> QED
  BY <1>3, <1>4

LEMMA FlattenNone == FlattenSeq(<<>>) = <<>>
<1>1. [i \in 1 .. 0 |-> i] = <<>> /\ <<>> \in [1 .. 0 -> Seq({})]
  OBVIOUS
<1> QED
  BY <1>1, FlattenSteps

LEMMA FlattenOne ==
  ASSUME NEW S, NEW s \in Seq(S)
  PROVE  FlattenSeq(<<s>>) = s
<1> DEFINE f == <<s>>
<1>1. f \in [1 .. 0 + 1 -> Seq(S)] /\ f[0 + 1] = s /\ [i \in 1 .. 0 |-> f[i]] = <<>>
  OBVIOUS
<1>2. FlattenSeq(f) = FlattenSeq([i \in 1 .. 0 |-> f[i]]) \o f[0 + 1]
  <2>1. 0 \in Nat
    OBVIOUS
  <2> HIDE DEF f
  <2> QED
    BY <1>1, <2>1, FlattenAppend
<1>3. FlattenSeq(f) = <<>> \o s
  BY <1>1, <1>2, FlattenNone
<1> QED
  BY <1>3, ConcatEmptySeq

\* What is joined behind a sequence, element by element.
FirstOf(s, m) == [i \in 1 .. m |-> s[i]]

LEMMA ConcatIs ==
  ASSUME NEW Q, NEW a \in Seq(Q), NEW c \in Seq(Q), NEW n \in Nat, n = Len(a) + Len(c)
  PROVE  /\ a \o c \in [1 .. n -> Q]
         /\ \A i \in 1 .. n : (a \o c)[i] = IF i <= Len(a) THEN a[i] ELSE c[i - Len(a)]
<1> DEFINE f == a \o c
<1>1. /\ f \in Seq(Q) /\ Len(f) = Len(a) + Len(c)
      /\ \A i \in 1 .. Len(a) + Len(c) : f[i] = IF i <= Len(a) THEN a[i] ELSE c[i - Len(a)]
  BY ConcatProperties
<1> HIDE DEF f
<1>2. f \in [1 .. Len(f) -> Q]
  BY <1>1
<1>3. f \in [1 .. n -> Q] /\ \A i \in 1 .. n : f[i] = IF i <= Len(a) THEN a[i] ELSE c[i - Len(a)]
  BY <1>1, <1>2
<1> QED
  BY <1>3 DEF f

\* A sequence with the first elements of another behind it.
PutBehind(a, b, m) == a \o FirstOf(b, m)

LEMMA ConcatNext ==
  ASSUME NEW Q, NEW a \in Seq(Q), NEW b \in Seq(Q), NEW m \in Nat, m + 1 <= Len(b),
         NEW n, n = Len(a) + m
  PROVE  /\ n \in Nat /\ PutBehind(a, b, m + 1) \in [1 .. n + 1 -> Q]
         /\ PutBehind(a, b, m + 1)[n + 1] = b[m + 1]
         /\ FirstOf(PutBehind(a, b, m + 1), n) = PutBehind(a, b, m)
<1> DEFINE c == FirstOf(b, m + 1)
           f == a \o c
           d == FirstOf(b, m)
           g == a \o d
<1>1. Len(a) \in Nat /\ n \in Nat /\ m + 1 \in Nat /\ n + 1 \in Nat /\ n + 1 = Len(a) + (m + 1)
  OBVIOUS
<1>2. /\ c \in Seq(Q) /\ Len(c) = m + 1 /\ d \in Seq(Q) /\ Len(d) = m
      /\ c[m + 1] = b[m + 1] /\ \A i \in 1 .. m : c[i] = d[i]
  BY DEF FirstOf
<1> HIDE DEF c, d
<1>4. /\ f \in [1 .. n + 1 -> Q]
      /\ \A i \in 1 .. n + 1 : f[i] = IF i <= Len(a) THEN a[i] ELSE c[i - Len(a)]
  <2>1. n + 1 = Len(a) + Len(c)
    BY <1>1, <1>2
  <2>2. c \in Seq(Q) /\ n + 1 \in Nat
    BY <1>1, <1>2
  <2> QED
    BY <2>1, <2>2, ConcatIs
<1>5. /\ g \in [1 .. n -> Q]
      /\ \A i \in 1 .. n : g[i] = IF i <= Len(a) THEN a[i] ELSE d[i - Len(a)]
  <2>1. n = Len(a) + Len(d)
    BY <1>1, <1>2
  <2>2. d \in Seq(Q) /\ n \in Nat
    BY <1>1, <1>2
  <2> QED
    BY <2>1, <2>2, ConcatIs
<1>8. f = PutBehind(a, b, m + 1) /\ g = PutBehind(a, b, m)
  BY DEF PutBehind, c, d
<1> HIDE DEF f, g
<1>6. f[n + 1] = b[m + 1]
  <2>1. n + 1 \in 1 .. n + 1 /\ ~(n + 1 <= Len(a)) /\ n + 1 - Len(a) = m + 1
    BY <1>1
  <2> QED
    BY <1>2, <1>4, <2>1
<1>7. FirstOf(f, n) = g
  <2>1. ASSUME NEW i \in 1 .. n
        PROVE  f[i] = g[i]
    <3>1. i \in 1 .. n + 1 /\ (~(i <= Len(a)) => i - Len(a) \in 1 .. m)
      BY <1>1
    <3> QED
      BY <1>2, <1>4, <1>5, <3>1
  <2>2. FirstOf(f, n) = [i \in 1 .. n |-> f[i]]
    BY DEF FirstOf
  <2> QED
    BY <1>5, <2>1, <2>2
<1> QED
  BY <1>1, <1>4, <1>6, <1>7, <1>8

LEMMA FirstFacts ==
  ASSUME NEW Q, NEW s \in Seq(Q)
  PROVE  /\ FirstOf(s, 0) = <<>> /\ FirstOf(s, Len(s)) = s /\ Len(s) \in Nat
         /\ s \in [1 .. Len(s) -> Q]
         /\ \A m \in 0 .. Len(s) : FirstOf(s, m) \in [1 .. m -> Q] /\ FirstOf(s, m) \in Seq(Q)
                                 /\ Len(FirstOf(s, m)) = m
BY DEF FirstOf

\* Sequences of sequences joined one after another are joined as one.
Sequences(S) == Seq(Seq(S))
JoinedAsOne(a, b, m) == FlattenSeq(PutBehind(a, b, m)) = FlattenSeq(a) \o FlattenSeq(FirstOf(b, m))

LEMMA FlattenOneMore ==
  ASSUME NEW S, NEW a \in Sequences(S), NEW b \in Sequences(S), NEW m \in Nat, m + 1 <= Len(b),
         JoinedAsOne(a, b, m)
  PROVE  JoinedAsOne(a, b, m + 1)
<1> DEFINE Q == Seq(S)
           n == Len(a) + m
           f == PutBehind(a, b, m + 1)
           g == FirstOf(b, m + 1)
           x == b[m + 1]
           u == FlattenSeq(a)
           v == FlattenSeq(FirstOf(b, m))
<1>1. a \in Seq(Q) /\ b \in Seq(Q) /\ Len(a) \in Nat /\ a \in [1 .. Len(a) -> Q] /\ Len(b) \in Nat
  BY DEF Sequences
<1>2. m + 1 \in 0 .. Len(b) /\ m \in 0 .. Len(b) /\ m + 1 \in 1 .. Len(b)
  BY <1>1
<1>3. /\ n \in Nat /\ f \in [1 .. n + 1 -> Q] /\ f[n + 1] = x
      /\ FirstOf(f, n) = PutBehind(a, b, m)
  <2> HIDE DEF Q
  <2> QED
    BY <1>1, ConcatNext
<1>4. g \in [1 .. m + 1 -> Q] /\ FirstOf(b, m) \in [1 .. m -> Q] /\ x \in Q
  <2>1. x \in Q
    BY <1>1, <1>2
  <2> HIDE DEF Q
  <2> QED
    BY <1>1, <1>2, <2>1, FirstFacts
<1>5. g[m + 1] = x /\ FirstOf(g, m) = FirstOf(b, m)
  BY DEF FirstOf
<1>6. FlattenSeq(f) = FlattenSeq(FirstOf(f, n)) \o x
  <2> HIDE DEF f, x, n
  <2> QED
    BY <1>3, FlattenAppend DEF FirstOf
<1>7. FlattenSeq(g) = FlattenSeq(FirstOf(g, m)) \o x
  <2> HIDE DEF g, x
  <2> QED
    BY <1>4, <1>5, FlattenAppend DEF FirstOf
<1>8. u \in Q /\ v \in Q
  BY <1>1, <1>4, FlattenType
<1>9. (u \o v) \o x = u \o (v \o x)
  <2>1. u \in Seq(S) /\ v \in Seq(S) /\ x \in Seq(S)
    BY <1>4, <1>8
  <2> HIDE DEF u, v, x, f, g, Q, n
  <2> QED
    BY <2>1, ConcatAssociative
<1>10. FlattenSeq(f) = (u \o v) \o x
  BY <1>3, <1>6 DEF JoinedAsOne
<1>11. FlattenSeq(g) = v \o x
  BY <1>5, <1>7
<1> QED
  BY <1>9, <1>10, <1>11 DEF JoinedAsOne

LEMMA FlattenConcat ==
  ASSUME NEW S, NEW a \in Seq(Seq(S)), NEW b \in Seq(Seq(S))
  PROVE  FlattenSeq(a \o b) = FlattenSeq(a) \o FlattenSeq(b)
<1> DEFINE T == {m \in Nat : m <= Len(b) => JoinedAsOne(a, b, m)}
<1>1. Len(a) \in Nat /\ Len(b) \in Nat /\ a \in [1 .. Len(a) -> Seq(S)]
  OBVIOUS
<1>2. FlattenSeq(a) \in Seq(S)
  BY <1>1, FlattenType
<1>3. 0 \in T
  <2>1. FirstOf(b, 0) = <<>> /\ a \o <<>> = a
    BY ConcatEmptySeq DEF FirstOf
  <2>2. FlattenSeq(a) \o <<>> = FlattenSeq(a)
    BY <1>2, ConcatEmptySeq
  <2>3. JoinedAsOne(a, b, 0)
    BY <2>1, <2>2, FlattenNone DEF JoinedAsOne, PutBehind
  <2> QED
    BY <2>3
<1>4. ASSUME NEW m \in T PROVE m + 1 \in T
  <2> SUFFICES ASSUME m + 1 <= Len(b) PROVE JoinedAsOne(a, b, m + 1)
    OBVIOUS
  <2>1. m \in Nat /\ JoinedAsOne(a, b, m)
    BY <1>1
  <2>2. a \in Sequences(S) /\ b \in Sequences(S)
    BY DEF Sequences
  <2> QED
    BY <2>1, <2>2, FlattenOneMore
<1>5. T = Nat
  <2>1. T \subseteq Nat
    OBVIOUS
  <2> HIDE DEF T
  <2> QED
    BY <1>3, <1>4, <2>1, InductionOnNat
<1>6. Len(b) \in T
  BY <1>1, <1>5
<1>7. FirstOf(b, Len(b)) = b
  BY FirstFacts
<1> QED
  BY <1>1, <1>6, <1>7 DEF JoinedAsOne, PutBehind
=============================================================================
