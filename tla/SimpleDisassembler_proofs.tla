---------------------- MODULE SimpleDisassembler_proofs ---------------------
(***************************************************************************)
(* Proofs about what the models of the disassemblers are built from: folds *)
(* over sequences, the bytes of a format, and tables of opcodes.           *)
(***************************************************************************)
EXTENDS SimpleDisassembler, Induction_proofs

----------------------------------------------------------------------------
(***************************************************************************)
(* Folds.  FoldLeft is defined by recursion over the sets of the indices   *)
(* from 1 to some number, the largest of which is taken away first.        *)
(***************************************************************************)
Folds(h, n, a, G) ==
  \A s \in SUBSET (1 .. n) : h[s] = IF s = {} THEN a ELSE G[Max(s)][h[s \ {Max(s)}]]

FoldSolvable(S, a, n, G) == \E h \in [SUBSET (1 .. n) -> S] : Folds(h, n, a, G)

LEMMA GreatestOfPrefix ==
  ASSUME NEW n \in Nat, NEW s \in SUBSET (1 .. n + 1), n + 1 \in s
  PROVE  Max(s) = n + 1 /\ s \ {n + 1} \in SUBSET (1 .. n)
<1>1. \A y \in s : n + 1 >= y
  OBVIOUS
<1>2. \A x \in s : (\A y \in s : x >= y) => x = n + 1
  OBVIOUS
<1>3. Max(s) = n + 1
  BY <1>1, <1>2 DEF Max
<1> QED
  BY <1>3

LEMMA FoldExists ==
  ASSUME NEW S, NEW a \in S, NEW n \in Nat, NEW G,
         \A i \in 1 .. n : \A x \in S : G[i][x] \in S
  PROVE  FoldSolvable(S, a, n, G)
<1> DEFINE T == {m \in Nat : m <= n => FoldSolvable(S, a, m, G)}
<1>1. 0 \in T
  <2> DEFINE h == [s \in SUBSET (1 .. 0) |-> a]
  <2>1. \A s \in SUBSET (1 .. 0) : s = {}
    OBVIOUS
  <2>2. h \in [SUBSET (1 .. 0) -> S] /\ Folds(h, 0, a, G)
    BY <2>1 DEF Folds
  <2> QED
    BY <2>2 DEF FoldSolvable
<1>2. ASSUME NEW m \in T
      PROVE  m + 1 \in T
  <2> SUFFICES ASSUME m + 1 <= n PROVE FoldSolvable(S, a, m + 1, G)
    OBVIOUS
  <2>1. m \in Nat /\ m <= n /\ m + 1 \in 1 .. n
    OBVIOUS
  <2>2. PICK f \in [SUBSET (1 .. m) -> S] : Folds(f, m, a, G)
    BY <2>1 DEF FoldSolvable
  <2> DEFINE h == [s \in SUBSET (1 .. m + 1) |->
                     IF m + 1 \in s THEN G[m + 1][f[s \ {m + 1}]] ELSE f[s]]
  <2>3. ASSUME NEW s \in SUBSET (1 .. m + 1), m + 1 \in s
        PROVE  /\ h[s] \in S /\ s # {} /\ h[s] = G[Max(s)][h[s \ {Max(s)}]]
    <3>1. Max(s) = m + 1 /\ s \ {m + 1} \in SUBSET (1 .. m)
      BY <2>1, <2>3, GreatestOfPrefix
    <3>2. s \ {m + 1} \in SUBSET (1 .. m + 1) /\ m + 1 \notin s \ {m + 1}
      OBVIOUS
    <3>3. h[s \ {m + 1}] = f[s \ {m + 1}]
      BY <3>2
    <3>4. h[s] = G[m + 1][f[s \ {m + 1}]]
      BY <2>3
    <3>5. f[s \ {m + 1}] \in S
      BY <3>1, <2>2
    <3> QED
      BY <3>1, <3>3, <3>4, <3>5, <2>1, <2>3
  <2>4. ASSUME NEW s \in SUBSET (1 .. m + 1), m + 1 \notin s
        PROVE  /\ h[s] \in S
               /\ h[s] = IF s = {} THEN a ELSE G[Max(s)][h[s \ {Max(s)}]]
    <3> DEFINE r == s \ {Max(s)}
    <3>1. s \in SUBSET (1 .. m)
      BY <2>1, <2>4
    <3>2. r \in SUBSET (1 .. m) /\ r \in SUBSET (1 .. m + 1) /\ m + 1 \notin r
      BY <3>1, <2>4
    <3> HIDE DEF r
    <3>3. h[s] = f[s] /\ h[r] = f[r]
      BY <3>2, <2>4
    <3>4. f[s] \in S
      BY <3>1, <2>2
    <3> HIDE DEF h
    <3>5. f[s] = IF s = {} THEN a ELSE G[Max(s)][f[r]]
      BY <3>1, <2>2 DEF Folds, r
    <3> QED
      BY <3>3, <3>4, <3>5 DEF r
  <2>5. h \in [SUBSET (1 .. m + 1) -> S]
    <3> DEFINE e(s) == IF m + 1 \in s THEN G[m + 1][f[s \ {m + 1}]] ELSE f[s]
    <3>1. \A s \in SUBSET (1 .. m + 1) : h[s] = e(s)
      OBVIOUS
    <3>2. \A s \in SUBSET (1 .. m + 1) : e(s) \in S
      BY <2>3, <2>4, <3>1
    <3>3. h = [s \in SUBSET (1 .. m + 1) |-> e(s)]
      OBVIOUS
    <3> HIDE DEF e, h
    <3> QED
      BY <3>2, <3>3
  <2>6. Folds(h, m + 1, a, G)
    <3> HIDE DEF h
    <3> QED
      BY <2>3, <2>4 DEF Folds
  <2> QED
    BY <2>5, <2>6 DEF FoldSolvable
<1>3. T = Nat
  <2>1. T \subseteq Nat
    OBVIOUS
  <2> HIDE DEF T
  <2> QED
    BY <1>1, <1>2, <2>1, InductionOnNat
<1> QED
  BY <1>3

\* Along the indices from 1 on, a fold is a recursion over numbers.
LEMMA FoldAlong ==
  ASSUME NEW n \in Nat, NEW h, NEW a, NEW G, Folds(h, n, a, G)
  PROVE  /\ h[1 .. 0] = a
         /\ \A k \in 1 .. n : h[1 .. k] = G[k][h[1 .. k - 1]]
<1>1. 1 .. 0 = {} /\ 1 .. 0 \in SUBSET (1 .. n)
  OBVIOUS
<1>2. h[1 .. 0] = a
  BY <1>1 DEF Folds
<1>3. ASSUME NEW k \in 1 .. n
      PROVE  h[1 .. k] = G[k][h[1 .. k - 1]]
  <2> DEFINE s == 1 .. k
             j == k - 1
  <2>1. j \in Nat /\ k = j + 1 /\ s \in SUBSET (1 .. j + 1) /\ k \in s /\ s # {} /\ s \in SUBSET (1 .. n)
    OBVIOUS
  <2>2. s \ {k} = 1 .. k - 1
    OBVIOUS
  <2> HIDE DEF s, j
  <2>3. Max(s) = k
    BY <2>1, GreatestOfPrefix
  <2>4. h[s] = G[k][h[s \ {k}]]
    BY <2>1, <2>3 DEF Folds
  <2> QED
    BY <2>2, <2>4 DEF s
<1> QED
  BY <1>2, <1>3

LEMMA GreatestExists ==
  ASSUME NEW n \in Nat, NEW s \in SUBSET (1 .. n), s # {}
  PROVE  Max(s) \in s
<1> DEFINE T == {d \in Nat : n - d \in s}
<1>1. T # {}
  <2>1. PICK x \in s : TRUE
    OBVIOUS
  <2>2. n - x \in Nat /\ n - (n - x) = x
    OBVIOUS
  <2> QED
    BY <2>1, <2>2
<1>2. PICK d \in T : \A e \in T : d <= e
  <2>1. T \subseteq Nat
    OBVIOUS
  <2> HIDE DEF T
  <2> QED
    BY <1>1, <2>1, LeastNatural
<1>3. ASSUME NEW y \in s PROVE n - d >= y
  <2>1. n - y \in Nat /\ n - (n - y) = y
    OBVIOUS
  <2>2. d <= n - y
    BY <1>2, <2>1
  <2> QED
    BY <2>1, <2>2
<1> QED
  BY <1>2, <1>3 DEF Max

(***************************************************************************)
(* Sums of sizes.                                                          *)
(***************************************************************************)
Sums(h, n, sizes) ==
  \A s \in SUBSET (1 .. n) : h[s] = IF s = {} THEN 0 ELSE h[s \ {Max(s)}] + sizes[Max(s)]

LEMMA SumExists ==
  ASSUME NEW n \in Nat, NEW sizes, \A i \in 1 .. n : sizes[i] \in Nat
  PROVE  \E f \in [SUBSET (1 .. n) -> Nat] : Sums(f, n, sizes)
<1> DEFINE G == [i \in 1 .. n |-> [x \in Nat |-> x + sizes[i]]]
<1>1. \A i \in 1 .. n : \A x \in Nat : G[i][x] = x + sizes[i] /\ G[i][x] \in Nat
  OBVIOUS
<1> HIDE DEF G
<1>2. PICK f \in [SUBSET (1 .. n) -> Nat] : Folds(f, n, 0, G)
  BY <1>1, FoldExists DEF FoldSolvable
<1>3. ASSUME NEW s \in SUBSET (1 .. n), s # {}
      PROVE  f[s] = f[s \ {Max(s)}] + sizes[Max(s)]
  <2>1. Max(s) \in 1 .. n /\ s \ {Max(s)} \in SUBSET (1 .. n)
    BY <1>3, GreatestExists
  <2>2. f[s \ {Max(s)}] \in Nat
    BY <2>1, <1>2
  <2> QED
    BY <2>1, <2>2, <1>1, <1>2, <1>3 DEF Folds
<1> QED
  BY <1>2, <1>3 DEF Folds, Sums

LEMMA SumAlong ==
  ASSUME NEW n \in Nat, NEW sizes, \A i \in 1 .. n : sizes[i] \in Nat,
         NEW h, Sums(h, n, sizes)
  PROVE  h[1 .. 0] = 0 /\ \A k \in 1 .. n : h[1 .. k] = h[1 .. k - 1] + sizes[k]
<1> DEFINE H == [k \in 1 .. n |-> [x \in {h[s] : s \in SUBSET (1 .. n)} |-> x + sizes[k]]]
<1>1. Folds(h, n, 0, H)
  <2>1. ASSUME NEW s \in SUBSET (1 .. n), s # {}
        PROVE  h[s] = H[Max(s)][h[s \ {Max(s)}]]
    <3>1. Max(s) \in 1 .. n /\ s \ {Max(s)} \in SUBSET (1 .. n)
      BY <2>1, GreatestExists
    <3> QED
      BY <2>1, <3>1 DEF Sums
  <2> HIDE DEF H
  <2> QED
    BY <2>1 DEF Folds, Sums
<1>2. \A k \in 1 .. n : H[k][h[1 .. k - 1]] = h[1 .. k - 1] + sizes[k]
  <2>1. \A k \in 1 .. n : 1 .. k - 1 \in SUBSET (1 .. n)
    OBVIOUS
  <2> QED
    BY <2>1
<1> HIDE DEF H
<1> QED
  BY <1>1, <1>2, FoldAlong

LEMMA SumInNat ==
  ASSUME NEW n \in Nat, NEW sizes, \A i \in 1 .. n : sizes[i] \in Nat,
         NEW h, Sums(h, n, sizes)
  PROVE  h[1 .. n] \in Nat
<1> DEFINE g == [k \in 0 .. n |-> h[1 .. k]]
<1>1. h[1 .. 0] = 0 /\ \A k \in 1 .. n : h[1 .. k] = h[1 .. k - 1] + sizes[k]
  BY SumAlong
<1>2. g[0] \in Nat /\ \A k \in 0 + 1 .. n : g[k - 1] \in Nat => g[k] \in Nat
  <2>1. g[0] = 0 /\ \A k \in 0 + 1 .. n : g[k] = g[k - 1] + sizes[k] /\ sizes[k] \in Nat
    BY <1>1
  <2> HIDE DEF g
  <2> QED
    BY <2>1
<1>3. \A k \in 0 .. n : g[k] \in Nat
  <2>1. 0 \in Int /\ n \in Int
    OBVIOUS
  <2> HIDE DEF g
  <2> QED
    BY <1>2, <2>1, RecursionTyped
<1> QED
  BY <1>3

\* The bytes of a format are those of its letters, one after another.
Letters == {"N", "U", "b", "B", "s", "w", "i", "d"}
Running(g, format) ==
  /\ g[0] = 0
  /\ \A k \in 1 .. Len(format) : g[k] = g[k - 1] + BytesOf(format[k])

LEMMA BytesOneByOne ==
  ASSUME NEW format \in Seq(Letters)
  PROVE  \E g : Running(g, format) /\ FormatBytes(format) = g[Len(format)]
<1> DEFINE n == Len(format)
           sizes == [i \in 1 .. n |-> BytesOf(format[i])]
           Eqn(h) == h = [s \in SUBSET (DOMAIN format) |->
                            IF s = {} THEN 0 ELSE h[s \ {Max(s)}] + BytesOf(format[Max(s)])]
           iter == CHOOSE h : Eqn(h)
<1>1. n \in Nat /\ DOMAIN format = 1 .. n /\ \A i \in 1 .. n : sizes[i] \in Nat
  BY DEF BytesOf, Letters
<1>2. ASSUME NEW s \in SUBSET (1 .. n), s # {}
      PROVE  sizes[Max(s)] = BytesOf(format[Max(s)])
  BY <1>1, <1>2, GreatestExists
<1> HIDE DEF n, sizes
<1>3. \E h : Eqn(h)
  <2>1. PICK f \in [SUBSET (1 .. n) -> Nat] : Sums(f, n, sizes)
    BY <1>1, SumExists
  <2> QED
    BY <2>1, <1>1, <1>2 DEF Sums
<1>4. Eqn(iter)
  <2> HIDE DEF Eqn
  <2> QED
    BY <1>3
<1>5. FormatBytes(format) = iter[DOMAIN format]
  BY DEF FormatBytes, FoldLeft, MapThenFoldSet
<1> HIDE DEF iter
<1>6. Sums(iter, n, sizes)
  BY <1>1, <1>2, <1>4 DEF Sums
<1> HIDE DEF Eqn
<1> DEFINE g == [k \in 0 .. n |-> iter[1 .. k]]
<1>7. iter[1 .. 0] = 0 /\ \A k \in 1 .. n : iter[1 .. k] = iter[1 .. k - 1] + sizes[k]
  BY <1>1, <1>6, SumAlong
<1>8. /\ g[0] = 0 /\ g[n] = iter[1 .. n]
      /\ \A k \in 1 .. n : g[k] = g[k - 1] + sizes[k]
  BY <1>1, <1>7
<1>9. \A k \in 1 .. n : sizes[k] = BytesOf(format[k])
  BY <1>1 DEF sizes
<1>10. n = Len(format)
  BY DEF n
<1> HIDE DEF g
<1> QED
  BY <1>1, <1>5, <1>8, <1>9, <1>10 DEF Running

LEMMA BytesAddUp ==
  ASSUME NEW format \in Seq(Letters)
  PROVE  FormatBytes(format) \in Nat
<1>1. PICK g : Running(g, format) /\ FormatBytes(format) = g[Len(format)]
  BY BytesOneByOne
<1> DEFINE n == Len(format)
<1>2. n \in Nat /\ \A k \in 1 .. n : BytesOf(format[k]) \in Nat
  BY DEF BytesOf, Letters
<1>3. g[0] \in Nat /\ \A k \in 0 + 1 .. n : g[k - 1] \in Nat => g[k] \in Nat
  BY <1>1, <1>2 DEF Running
<1>4. \A k \in 0 .. n : g[k] \in Nat
  <2>1. 0 \in Int /\ n \in Int
    BY <1>2
  <2> HIDE DEF n
  <2> QED
    BY <1>3, <2>1, RecursionTyped
<1> QED
  BY <1>1, <1>2, <1>4

----------------------------------------------------------------------------
(***************************************************************************)
(* Tables put together of tables whose entries have a class and a format   *)
(* of given sets, and a stack effect, have such entries.                   *)
(***************************************************************************)
Described(table, classes, formats) ==
  \A op \in DOMAIN table :
    table[op].class \in classes /\ table[op].params \in formats /\ table[op].change \in Int

LEMMA TablesOf ==
  ASSUME NEW C, NEW F
  PROVE  /\ \A S, v : v.class \in C /\ v.params \in F /\ v.change \in Int =>
                       Described(Each(S, v), C, F)
         /\ \A f, g : Described(f, C, F) /\ Described(g, C, F) => Described(f ++ g, C, F)
<1>1. ASSUME NEW S, NEW v, v.class \in C, v.params \in F, v.change \in Int
      PROVE  Described(Each(S, v), C, F)
  BY <1>1 DEF Described, Each
<1>2. ASSUME NEW f, NEW g, Described(f, C, F), Described(g, C, F)
      PROVE  Described(f ++ g, C, F)
  <2>1. DOMAIN (f ++ g) = DOMAIN f \cup DOMAIN g
    BY DEF ++
  <2>2. \A op \in DOMAIN f : (f ++ g)[op] = f[op]
    BY DEF ++
  <2>3. \A op \in DOMAIN g : op \notin DOMAIN f => (f ++ g)[op] = g[op]
    BY DEF ++
  <2> QED
    BY <1>2, <2>1, <2>2, <2>3 DEF Described
<1> QED
  BY <1>1, <1>2

\* Tables whose entries are of a set V.
Valued(table, V) == \A op \in DOMAIN table : table[op] \in V

LEMMA TablesIn ==
  ASSUME NEW V
  PROVE  /\ \A S : \A v \in V : Valued(Each(S, v), V)
         /\ \A f, g : Valued(f, V) /\ Valued(g, V) => Valued(f ++ g, V)
<1>1. ASSUME NEW S, NEW v \in V
      PROVE  Valued(Each(S, v), V)
  BY DEF Valued, Each
<1>2. ASSUME NEW f, NEW g, Valued(f, V), Valued(g, V)
      PROVE  Valued(f ++ g, V)
  <2>1. DOMAIN (f ++ g) = DOMAIN f \cup DOMAIN g
    BY DEF ++
  <2>2. \A op \in DOMAIN f : (f ++ g)[op] = f[op]
    BY DEF ++
  <2>3. \A op \in DOMAIN g : op \notin DOMAIN f => (f ++ g)[op] = g[op]
    BY DEF ++
  <2> QED
    BY <1>2, <2>1, <2>2, <2>3 DEF Valued
<1> QED
  BY <1>1, <1>2

\* What two tables in one have of each.
LEMMA TwoTables ==
  ASSUME NEW f, NEW g
  PROVE  /\ DOMAIN (f ++ g) = DOMAIN f \cup DOMAIN g
         /\ \A op \in DOMAIN f : (f ++ g)[op] = f[op]
         /\ \A op \in DOMAIN g : op \notin DOMAIN f => (f ++ g)[op] = g[op]
<1>1. DOMAIN (f ++ g) = DOMAIN f \cup DOMAIN g
  BY DEF ++
<1>2. \A op \in DOMAIN f : (f ++ g)[op] = f[op]
  BY DEF ++
<1>3. \A op \in DOMAIN g : op \notin DOMAIN f => (f ++ g)[op] = g[op]
  BY DEF ++
<1> QED
  BY <1>1, <1>2, <1>3

\* A table with one entry in front of another table.
Overlays(h, k, v, g) ==
  /\ DOMAIN h = {k} \cup DOMAIN g
  /\ h[k] = v
  /\ \A x \in DOMAIN g : x # k => h[x] = g[x]

LEMMA Overlaid ==
  ASSUME NEW k, NEW v, NEW g
  PROVE  Overlays(Each({k}, v) ++ g, k, v, g)
BY DEF Overlays, ++, Each

\* What an entry of a table is: that of the first of its parts that has one.
Has(table, k, v) == k \in DOMAIN table /\ table[k] = v
Lacks(table, k) == k \notin DOMAIN table

LEMMA EntriesOf ==
  /\ \A S, v, k : k \in S => Has(Each(S, v), k, v)
  /\ \A S, v, k : k \notin S => Lacks(Each(S, v), k)
  /\ \A f, g, k, v : Has(f, k, v) => Has(f ++ g, k, v)
  /\ \A f, g, k, v : Lacks(f, k) /\ Has(g, k, v) => Has(f ++ g, k, v)
  /\ \A f, g, k : Lacks(f, k) /\ Lacks(g, k) => Lacks(f ++ g, k)
<1>1. \A S, v, k : k \in S => Has(Each(S, v), k, v)
  BY DEF Has, Each
<1>2. \A S, v, k : k \notin S => Lacks(Each(S, v), k)
  BY DEF Lacks, Each
<1>3. ASSUME NEW f, NEW g, NEW k, NEW v
      PROVE  /\ Has(f, k, v) => Has(f ++ g, k, v)
             /\ Lacks(f, k) /\ Has(g, k, v) => Has(f ++ g, k, v)
             /\ Lacks(f, k) /\ Lacks(g, k) => Lacks(f ++ g, k)
  <2>1. DOMAIN (f ++ g) = DOMAIN f \cup DOMAIN g
    BY DEF ++
  <2>2. k \in DOMAIN f => (f ++ g)[k] = f[k]
    BY DEF ++
  <2>3. k \in DOMAIN g => (k \notin DOMAIN f => (f ++ g)[k] = g[k])
    BY DEF ++
  <2> QED
    BY <2>1, <2>2, <2>3 DEF Has, Lacks
<1> QED
  BY <1>1, <1>2, <1>3
=============================================================================
