---------------------------- MODULE SumsProofs ----------------------------
(***************************************************************************)
(* Facts about running totals and sums over finite sets, for every integer *)
(* function; about the cardinality of sets, finite orders, the flattening  *)
(* of sequences of sequences and what is kept of a sequence.  Induction is *)
(* done by the least counterexample, since the natural numbers are well    *)
(* ordered.                                                                *)
(***************************************************************************)
EXTENDS Sums, SequencesExt, FiniteSetTheorems, WellFoundedInduction, TLAPS

\* Every nonempty set of natural numbers has a least element.
LEMMA LeastNatural ==
    ASSUME NEW S \in SUBSET Nat, S # {}
    PROVE  \E m \in S : \A k \in S : m <= k
<1>1. PICK m \in S : \A k \in S : ~ (<<k, m>> \in OpToRel(<, Nat))
  BY NatLessThanWellFounded, WFMin
<1>2. ASSUME NEW k \in S PROVE m <= k
  <2>1. k \in Nat /\ m \in Nat
    OBVIOUS
  <2>2. k < m => <<k, m>> \in OpToRel(<, Nat)
    BY <2>1 DEF OpToRel
  <2>3. ~ (k < m)
    BY <1>1, <2>2, Zenon
  <2> QED BY <2>1, <2>3
<1> QED BY <1>2

\* Induction as far as N, for a property given as the set of numbers that have it.
LEMMA UpToInduction ==
    ASSUME NEW N \in Nat, NEW Good,
           0 \in Good, \A n \in 1 .. N : n - 1 \in Good => n \in Good
    PROVE  0 .. N \subseteq Good
<1> DEFINE Bad == {n \in 0 .. N : n \notin Good}
<1>1. SUFFICES ASSUME Bad # {} PROVE FALSE
  OBVIOUS
<1>2. PICK m \in Bad : \A k \in Bad : m <= k
  <2>1. Bad \in SUBSET Nat
    OBVIOUS
  <2> HIDE DEF Bad
  <2> QED BY <1>1, <2>1, LeastNatural
<1>3. m \in 1 .. N /\ m \notin Good
  OBVIOUS
<1>4. m - 1 \in 0 .. N /\ m - 1 \notin Good
  BY <1>3
<1>5. m <= m - 1
  BY <1>2, <1>4
<1> QED BY <1>3, <1>5

\* A value for each number as far as N, each made from the one before.
IsStep(step, N, V) == step \in [(1 .. N) \X V -> V]
IsRecursion(f, N, V, base, step) ==
    /\ f \in [0 .. N -> V]
    /\ f[0] = base
    /\ \A n \in 1 .. N : f[n] = step[<<n, f[n - 1]>>]

LEMMA RecursionExists ==
    ASSUME NEW N \in Nat, NEW V, NEW base \in V, NEW step, IsStep(step, N, V)
    PROVE  \E f : IsRecursion(f, N, V, base, step)
<1> USE DEF IsStep
<1> DEFINE Reaches(f, n) == f[0] = base /\ \A i \in 1 .. n : f[i] = step[<<i, f[i - 1]>>]
           Good == {n \in 0 .. N : \E f \in [0 .. N -> V] : Reaches(f, n)}
<1>1. 0 \in Good
  <2> DEFINE g == [i \in 0 .. N |-> base]
  <2>1. g \in [0 .. N -> V] /\ g[0] = base /\ 0 \in 0 .. N
    OBVIOUS
  <2>2. Reaches(g, 0)
    BY <2>1
  <2> QED BY <2>1, <2>2
<1>2. ASSUME NEW n \in 1 .. N, n - 1 \in Good PROVE n \in Good
  <2>1. PICK f \in [0 .. N -> V] : Reaches(f, n - 1)
    BY <1>2
  <2> DEFINE g == [f EXCEPT ![n] = step[<<n, f[n - 1]>>]]
  <2>2. n \in 0 .. N /\ n - 1 \in 0 .. N /\ n # n - 1 /\ n # 0
    OBVIOUS
  <2>3. step[<<n, f[n - 1]>>] \in V
    BY <2>2
  <2>4. g \in [0 .. N -> V] /\ g[n] = step[<<n, f[n - 1]>>]
        /\ \A i \in 0 .. N : i # n => g[i] = f[i]
    BY <2>2, <2>3
  <2> HIDE DEF g
  <2>5. g[0] = base
    BY <2>1, <2>2, <2>4
  <2>6. ASSUME NEW i \in 1 .. n PROVE g[i] = step[<<i, g[i - 1]>>]
    <3>1. i - 1 \in 0 .. N /\ i - 1 # n /\ i \in 0 .. N
      BY <2>2
    <3>2. g[i - 1] = f[i - 1]
      BY <2>4, <3>1
    <3>3. CASE i = n
      BY <2>4, <3>2, <3>3
    <3>4. CASE i # n
      <4>1. i \in 1 .. (n - 1)
        BY <3>4
      <4> QED BY <2>1, <2>4, <3>1, <3>2, <3>4, <4>1
    <3> QED BY <3>3, <3>4
  <2> QED BY <2>2, <2>4, <2>5, <2>6
<1>3. N \in Good
  <2> HIDE DEF Good
  <2>1. 0 .. N \subseteq Good
    BY <1>1, <1>2, UpToInduction
  <2> QED BY <2>1
<1> QED BY <1>3 DEF IsRecursion

\* g is the running total of f as far as n.
LOCAL IsSumTo(g, f, n) ==
    /\ g \in [0 .. n -> Int]
    /\ g[0] = 0
    /\ \A i \in 1 .. n : g[i] = g[i - 1] + f[i]

\* Running totals exist as far as any n.
LEMMA SumToExists ==
    ASSUME NEW f \in [Nat -> Int]
    PROVE  \A n \in Nat : \E g : IsSumTo(g, f, n)
<1> DEFINE Bad == {n \in Nat : ~ \E g : IsSumTo(g, f, n)}
<1>1. SUFFICES ASSUME Bad # {} PROVE FALSE
  OBVIOUS
<1>2. PICK m \in Bad : \A k \in Bad : m <= k
  <2>1. PICK k \in Bad : TRUE
    BY <1>1
  <2>2. Bad \in SUBSET Nat
    OBVIOUS
  <2> HIDE DEF Bad
  <2> QED BY <2>1, <2>2, LeastNatural
<1>3. m \in Nat /\ ~ \E g : IsSumTo(g, f, m)
  OBVIOUS
<1>4. m # 0
  <2>1. IsSumTo([i \in 0 .. 0 |-> 0], f, 0)
    BY DEF IsSumTo
  <2> QED BY <2>1, <1>3
<1>5. m - 1 \in Nat /\ m - 1 \notin Bad
  BY <1>2, <1>3, <1>4
<1>6. PICK g : IsSumTo(g, f, m - 1)
  BY <1>5
<1> DEFINE h == [i \in 0 .. m |-> IF i = m THEN g[m - 1] + f[m] ELSE g[i]]
<1>7. IsSumTo(h, f, m)
  <2>1. h \in [0 .. m -> Int]
    BY <1>3, <1>5, <1>6 DEF IsSumTo
  <2>2. h[0] = 0
    BY <1>3, <1>4, <1>6 DEF IsSumTo
  <2>3. ASSUME NEW i \in 1 .. m PROVE h[i] = h[i - 1] + f[i]
    <3>1. CASE i = m
      BY <1>3, <1>5, <3>1
    <3>2. CASE i # m
      <4>1. i \in 1 .. (m - 1) /\ i - 1 \in 0 .. m /\ i - 1 # m /\ i \in 0 .. m
        BY <1>3, <3>2
      <4>2. g[i] = g[i - 1] + f[i]
        BY <1>6, <4>1 DEF IsSumTo
      <4> QED BY <3>2, <4>1, <4>2
    <3> QED BY <3>1, <3>2
  <2> QED BY <2>1, <2>2, <2>3 DEF IsSumTo
<1> QED BY <1>3, <1>7

\* Two running totals agree where both are defined.
LEMMA SumToUnique ==
    ASSUME NEW f \in [Nat -> Int], NEW n \in Nat, NEW k \in Nat,
           NEW g, NEW h, IsSumTo(g, f, n), IsSumTo(h, f, k)
    PROVE  \A i \in Nat : i <= n /\ i <= k => g[i] = h[i]
<1> DEFINE Bad == {i \in Nat : i <= n /\ i <= k /\ g[i] # h[i]}
<1>1. SUFFICES ASSUME Bad # {} PROVE FALSE
  OBVIOUS
<1>2. PICK m \in Bad : \A j \in Bad : m <= j
  <2>1. PICK j \in Bad : TRUE
    BY <1>1
  <2>2. Bad \in SUBSET Nat
    OBVIOUS
  <2> HIDE DEF Bad
  <2> QED BY <2>1, <2>2, LeastNatural
<1>3. m # 0
  BY DEF IsSumTo
<1>4. g[m - 1] = h[m - 1]
  BY <1>2, <1>3
<1> QED BY <1>2, <1>3, <1>4 DEF IsSumTo

\* PrefixSum(f) is the running total that its definition says it is.
LEMMA PrefixSumDef ==
    ASSUME NEW f \in [Nat -> Int]
    PROVE  /\ PrefixSum(f) \in [Nat -> Int]
           /\ PrefixSum(f)[0] = 0
           /\ \A n \in Nat : n > 0 => PrefixSum(f)[n] = PrefixSum(f)[n - 1] + f[n]
<1> DEFINE G(n) == CHOOSE g : IsSumTo(g, f, n)
           s == [n \in Nat |-> G(n)[n]]
           Rec(g) == [n \in Nat |-> IF n = 0 THEN 0 ELSE g[n - 1] + f[n]]
<1>1. \A n \in Nat : IsSumTo(G(n), f, n)
  BY SumToExists
<1>2. s \in [Nat -> Int]
  BY <1>1 DEF IsSumTo
<1>3. s[0] = 0
  BY <1>1 DEF IsSumTo
<1>4. ASSUME NEW n \in Nat, n > 0 PROVE s[n] = s[n - 1] + f[n]
  <2>1. n - 1 \in Nat
    BY <1>4
  <2>2. IsSumTo(G(n), f, n) /\ IsSumTo(G(n - 1), f, n - 1)
    BY <1>1, <2>1
  <2> HIDE DEF G
  <2>3. G(n)[n - 1] = G(n - 1)[n - 1]
    BY <2>1, <2>2, SumToUnique
  <2>4. G(n)[n] = G(n)[n - 1] + f[n]
    BY <1>4, <2>2 DEF IsSumTo
  <2> QED BY <2>1, <2>3, <2>4
<1>5. s = Rec(s)
  <2> HIDE DEF s
  <2>1. \A n \in Nat : s[n] = Rec(s)[n]
    BY <1>2, <1>3, <1>4
  <2> QED BY <1>2, <2>1
<1>6. PrefixSum(f) = CHOOSE g : g = Rec(g)
  BY DEF PrefixSum
<1>7. PrefixSum(f) = Rec(PrefixSum(f))
  <2> HIDE DEF s, Rec
  <2> QED BY <1>5, <1>6
<1>8. ASSUME NEW g, g = Rec(g)
      PROVE  /\ g \in [Nat -> Int]
             /\ g[0] = 0
             /\ \A n \in Nat : n > 0 => g[n] = g[n - 1] + f[n]
  <2>1. g[0] = 0
    BY <1>8
  <2>2. \A n \in Nat : n > 0 => g[n] = g[n - 1] + f[n]
    BY <1>8
  <2> DEFINE Bad == {n \in Nat : g[n] \notin Int}
  <2>3. ASSUME Bad # {} PROVE FALSE
    <3>1. PICK k \in Bad : TRUE
      BY <2>3
    <3>2. Bad \in SUBSET Nat
      OBVIOUS
    <3> HIDE DEF Bad
    <3>3. PICK m \in Bad : \A j \in Bad : m <= j
      BY <3>1, <3>2, LeastNatural
    <3> USE DEF Bad
    <3>4. m # 0
      BY <2>1
    <3>5. m - 1 \in Nat /\ g[m - 1] \in Int
      BY <3>3, <3>4
    <3>6. g[m] = g[m - 1] + f[m]
      BY <2>2, <3>4
    <3> QED BY <3>5, <3>6
  <2>4. \A n \in Nat : g[n] \in Int
    BY <2>3
  <2>5. g \in [Nat -> Int]
    BY <1>8, <2>4
  <2> QED BY <2>1, <2>2, <2>5
<1> HIDE DEF Rec
<1> QED BY <1>7, <1>8

\* Two functions that differ at most at k have totals that differ by f[k] - g[k]
\* from k on.
LEMMA PrefixSumUpdate ==
    ASSUME NEW f \in [Nat -> Int], NEW g \in [Nat -> Int], NEW k \in Nat, k > 0,
           \A i \in Nat : i > 0 /\ i # k => f[i] = g[i]
    PROVE  \A n \in Nat :
              PrefixSum(f)[n] = PrefixSum(g)[n] + (IF n >= k THEN f[k] - g[k] ELSE 0)
<1> DEFINE F == PrefixSum(f)
           G == PrefixSum(g)
           Off(n) == IF n >= k THEN f[k] - g[k] ELSE 0
           Bad == {n \in Nat : F[n] # G[n] + Off(n)}
<1>1. F \in [Nat -> Int] /\ F[0] = 0
      /\ \A n \in Nat : n > 0 => F[n] = F[n - 1] + f[n]
  BY PrefixSumDef
<1>2. G \in [Nat -> Int] /\ G[0] = 0
      /\ \A n \in Nat : n > 0 => G[n] = G[n - 1] + g[n]
  BY PrefixSumDef
<1> HIDE DEF F, G
<1>3. ASSUME Bad # {} PROVE FALSE
  <2>1. Bad \in SUBSET Nat
    OBVIOUS
  <2>2. PICK m \in Bad : \A j \in Bad : m <= j
    <3> HIDE DEF Bad
    <3> QED BY <1>3, <2>1, LeastNatural
  <2>3. m > 0
    BY <1>1, <1>2
  <2>4. m - 1 \in Nat /\ F[m - 1] = G[m - 1] + Off(m - 1)
    BY <2>2, <2>3
  <2>5. F[m] = F[m - 1] + f[m] /\ G[m] = G[m - 1] + g[m]
    BY <1>1, <1>2, <2>3
  <2>6. Off(m) = Off(m - 1) + f[m] - g[m]
    <3>1. CASE m = k
      BY <3>1
    <3>2. CASE m # k
      <4>1. f[m] = g[m]
        BY <2>3, <3>2
      <4> QED BY <2>4, <3>2, <4>1
    <3> QED BY <3>1, <3>2
  <2>7. Off(m) \in Int /\ Off(m - 1) \in Int /\ f[m] \in Int /\ g[m] \in Int
    BY <2>4
  <2>8. F[m - 1] \in Int /\ G[m - 1] \in Int
    BY <1>1, <1>2, <2>4
  <2> HIDE DEF Off
  <2>9. F[m] = G[m] + Off(m)
    BY <2>4, <2>5, <2>6, <2>7, <2>8
  <2> QED BY <2>9
<1>4. \A n \in Nat : F[n] = G[n] + Off(n)
  BY <1>3
<1> QED BY <1>4 DEF F, G

\* A change at k beyond n does not change the total up to n, and a change at
\* k within 1 .. n changes it by f[k] - g[k].
LEMMA TotalUpdate ==
    ASSUME NEW f \in [Nat -> Int], NEW g \in [Nat -> Int], NEW n \in Nat,
           NEW k \in 1 .. n,
           \A i \in Nat : i > 0 /\ i # k => f[i] = g[i]
    PROVE  Total(f, n) = Total(g, n) + f[k] - g[k]
<1>1. k \in Nat /\ k > 0 /\ n >= k
  OBVIOUS
<1>2. PrefixSum(f)[n] = PrefixSum(g)[n] + (IF n >= k THEN f[k] - g[k] ELSE 0)
  BY <1>1, PrefixSumUpdate
<1>3. PrefixSum(g)[n] \in Int /\ f[k] \in Int /\ g[k] \in Int
  BY <1>1, PrefixSumDef
<1> QED BY <1>1, <1>2, <1>3 DEF Total

\* One more summand.
LEMMA TotalExtend ==
    ASSUME NEW f \in [Nat -> Int], NEW g \in [Nat -> Int], NEW n \in Nat,
           \A i \in Nat : i > 0 /\ i # n + 1 => f[i] = g[i]
    PROVE  Total(f, n + 1) = Total(g, n) + f[n + 1]
<1>1. PrefixSum(f)[n] = PrefixSum(g)[n]
  <2>1. n + 1 \in Nat /\ n + 1 > 0 /\ ~ (n >= n + 1)
    OBVIOUS
  <2>2. PrefixSum(f)[n] = PrefixSum(g)[n]
            + (IF n >= n + 1 THEN f[n + 1] - g[n + 1] ELSE 0)
    BY <2>1, PrefixSumUpdate
  <2>3. PrefixSum(g)[n] \in Int
    BY PrefixSumDef
  <2> QED BY <2>1, <2>2, <2>3
<1>2. PrefixSum(f)[n + 1] = PrefixSum(f)[n] + f[n + 1]
  BY PrefixSumDef, n + 1 \in Nat, (n + 1) - 1 = n
<1> QED BY <1>1, <1>2 DEF Total

\* A total of nothing but zeros.
LEMMA TotalEmpty ==
    ASSUME NEW f \in [Nat -> Int], NEW n \in Nat, \A i \in 1 .. n : f[i] = 0
    PROVE  Total(f, n) = 0
<1> DEFINE F == PrefixSum(f)
           Bad == {i \in Nat : i <= n /\ F[i] # 0}
<1>1. F \in [Nat -> Int] /\ F[0] = 0
      /\ \A i \in Nat : i > 0 => F[i] = F[i - 1] + f[i]
  BY PrefixSumDef
<1> HIDE DEF F
<1>2. ASSUME Bad # {} PROVE FALSE
  <2>1. Bad \in SUBSET Nat
    OBVIOUS
  <2>2. PICK m \in Bad : \A j \in Bad : m <= j
    <3> HIDE DEF Bad
    <3> QED BY <1>2, <2>1, LeastNatural
  <2>3. m > 0
    BY <1>1
  <2>4. m - 1 \in Nat /\ F[m - 1] = 0
    BY <2>2, <2>3
  <2>5. f[m] = 0 /\ F[m] = F[m - 1] + f[m]
    BY <1>1, <2>3
  <2> QED BY <2>4, <2>5
<1>3. F[n] = 0
  BY <1>2
<1> QED BY <1>3 DEF F, Total

\* A total of amounts that are never negative is at least each of them.
LEMMA TotalBounds ==
    ASSUME NEW f \in [Nat -> Int], NEW n \in Nat,
           \A i \in 1 .. n : f[i] >= 0
    PROVE  /\ Total(f, n) >= 0
           /\ \A k \in 1 .. n : f[k] <= Total(f, n)
<1> DEFINE F == PrefixSum(f)
           Good(i) == F[i] >= 0 /\ \A k \in 1 .. i : f[k] <= F[i]
           Bad == {i \in Nat : i <= n /\ ~ Good(i)}
<1>1. F \in [Nat -> Int] /\ F[0] = 0
      /\ \A i \in Nat : i > 0 => F[i] = F[i - 1] + f[i]
  BY PrefixSumDef
<1> HIDE DEF F
<1>2. ASSUME Bad # {} PROVE FALSE
  <2>1. Bad \in SUBSET Nat
    OBVIOUS
  <2>2. PICK m \in Bad : \A j \in Bad : m <= j
    <3> HIDE DEF Bad
    <3> QED BY <1>2, <2>1, LeastNatural
  <2>3. m > 0
    BY <1>1
  <2>4. m - 1 \in Nat /\ m - 1 <= n /\ Good(m - 1)
    BY <2>2, <2>3
  <2>5. f[m] >= 0 /\ F[m] = F[m - 1] + f[m] /\ F[m - 1] \in Int /\ f[m] \in Int
    BY <1>1, <2>3, <2>4
  <2>6. \A k \in 1 .. m : f[k] <= F[m]
    BY <2>4, <2>5
  <2> QED BY <2>4, <2>5, <2>6
<1>3. Good(n)
  BY <1>2
<1> QED BY <1>3 DEF F, Total

-----------------------------------------------------------------------------
(* Sums of a function over a finite set (SumFunctionOnSet) *)

\* Induction over the subsets of a finite set, for a property given as the set
\* of the subsets that have it: a subset has it if it is empty or all those with
\* one element less have it.
LEMMA SubsetInduction ==
    ASSUME NEW S, IsFiniteSet(S), NEW Good,
           {} \in Good,
           \A s \in SUBSET S : s # {} /\ (\A x \in s : s \ {x} \in Good) => s \in Good
    PROVE  SUBSET S \subseteq Good
<1> DEFINE Bad == {n \in Nat : \E s \in SUBSET S : Cardinality(s) = n /\ s \notin Good}
<1>1. SUFFICES ASSUME NEW t \in SUBSET S, t \notin Good PROVE FALSE
  OBVIOUS
<1>2. \A s \in SUBSET S : IsFiniteSet(s) /\ Cardinality(s) \in Nat
  BY FS_Subset, FS_CardinalityType
<1>3. Bad \in SUBSET Nat /\ Bad # {}
  BY <1>1, <1>2
<1>4. PICK n \in Bad : \A k \in Bad : n <= k
  <2> HIDE DEF Bad
  <2> QED BY <1>3, LeastNatural
<1>5. PICK s \in SUBSET S : Cardinality(s) = n /\ s \notin Good
  BY <1>4
<1>6. PICK x \in s : s \ {x} \notin Good
  BY <1>5
<1>7. Cardinality(s \ {x}) = n - 1 /\ Cardinality(s \ {x}) \in Nat /\ s \ {x} \in SUBSET S
  BY <1>2, <1>5, FS_RemoveElement
<1>8. n - 1 \in Bad
  BY <1>6, <1>7
<1>9. n \in Nat /\ ~(n <= n - 1)
  OBVIOUS
<1> HIDE DEF Bad
<1> QED BY <1>4, <1>8, <1>9

Pick(s) == CHOOSE x \in s : TRUE

\* g is the recursive function that SumFunctionOnSet takes its value from.
IsSumOver(g, f, S) ==
    g = [s \in SUBSET S |-> IF s = {} THEN 0 ELSE f[Pick(s)] + g[s \ {Pick(s)}]]

LEMMA SumIsFold == \A f, S : SumFunctionOnSet(f, S) = (CHOOSE g : IsSumOver(g, f, S))[S]
BY DEF SumFunctionOnSet, FoldFunctionOnSet, MapThenFoldSet, IsSumOver, Pick

\* Such a function exists: a value for sets of n + 1 elements comes from one for
\* sets of n elements.
LEMMA SumOverExists ==
    ASSUME NEW S, IsFiniteSet(S), NEW f, \A x \in S : f[x] \in Int
    PROVE  \E g : IsSumOver(g, f, S) /\ g \in [SUBSET S -> Int]
<1> DEFINE Next(g) == [s \in SUBSET S |-> IF s = {} THEN 0 ELSE f[Pick(s)] + g[s \ {Pick(s)}]]
           UpTo(g, n) == /\ g \in [SUBSET S -> Int]
                         /\ \A s \in SUBSET S : Cardinality(s) <= n => g[s] = Next(g)[s]
           Bad == {n \in Nat : ~ \E g : UpTo(g, n)}
<1>1. \A s \in SUBSET S : /\ IsFiniteSet(s) /\ Cardinality(s) \in Nat
                          /\ Cardinality(s) <= Cardinality(S)
                          /\ Cardinality(s) = 0 => s = {}
  BY FS_Subset, FS_CardinalityType, FS_EmptySet
<1>2. \A s \in SUBSET S : s # {} => /\ Pick(s) \in s
                                    /\ s \ {Pick(s)} \in SUBSET S
                                    /\ Cardinality(s \ {Pick(s)}) = Cardinality(s) - 1
  BY <1>1, FS_RemoveElement DEF Pick
<1>3. ASSUME NEW g \in [SUBSET S -> Int] PROVE Next(g) \in [SUBSET S -> Int]
  BY <1>2
<1>4. 0 \notin Bad
  <2> DEFINE g == [s \in SUBSET S |-> 0]
  <2>1. ASSUME NEW s \in SUBSET S, Cardinality(s) <= 0 PROVE g[s] = Next(g)[s]
    <3>1. s = {}
      BY <1>1, <2>1
    <3> QED BY <3>1
  <2>2. g \in [SUBSET S -> Int]
    OBVIOUS
  <2>3. UpTo(g, 0)
    BY <2>1, <2>2
  <2> QED BY <2>3
<1>5. ASSUME NEW n \in Nat, n \notin Bad PROVE n + 1 \notin Bad
  <2>1. PICK g : UpTo(g, n)
    BY <1>5
  <2>2. Next(g) \in [SUBSET S -> Int]
    BY <1>3, <2>1
  <2>3. ASSUME NEW s \in SUBSET S, Cardinality(s) <= n + 1 PROVE Next(g)[s] = Next(Next(g))[s]
    <3>1. CASE s = {}
      BY <3>1
    <3>2. CASE s # {}
      <4>1. s \ {Pick(s)} \in SUBSET S /\ Cardinality(s \ {Pick(s)}) <= n
        BY <1>1, <1>2, <2>3, <3>2
      <4>2. Next(g)[s \ {Pick(s)}] = g[s \ {Pick(s)}]
        BY <2>1, <4>1
      <4> QED BY <3>2, <4>1, <4>2
    <3> QED BY <3>1, <3>2
  <2>4. UpTo(Next(g), n + 1)
    BY <2>2, <2>3
  <2> QED BY <2>4
<1>6. Bad = {}
  <2>1. SUFFICES ASSUME Bad # {} PROVE FALSE
    OBVIOUS
  <2>2. PICK n \in Bad : \A k \in Bad : n <= k
    <3>1. Bad \in SUBSET Nat
      OBVIOUS
    <3> HIDE DEF Bad
    <3> QED BY <2>1, <3>1, LeastNatural
  <2>3. n \in Nat
    OBVIOUS
  <2> HIDE DEF Bad
  <2>4. n - 1 \in Nat /\ n - 1 \notin Bad
    BY <1>4, <2>2, <2>3
  <2>5. (n - 1) + 1 \notin Bad
    BY <1>5, <2>4
  <2> QED BY <2>3, <2>5
<1>7. Cardinality(S) \in Nat
  BY FS_CardinalityType
<1>8. PICK g : UpTo(g, Cardinality(S))
  BY <1>6, <1>7
<1>9. g = Next(g)
  <2>1. Next(g) \in [SUBSET S -> Int]
    BY <1>3, <1>8
  <2>2. \A s \in SUBSET S : g[s] = Next(g)[s]
    BY <1>1, <1>8
  <2> HIDE DEF Next
  <2> QED BY <1>8, <2>1, <2>2
<1> QED BY <1>8, <1>9 DEF IsSumOver

\* What a sum is, without the choice of the function: Sums is the function that
\* takes every subset of S to its sum.
IsSumsOf(sums, f, S) ==
    /\ sums[{}] = 0
    /\ \A s \in SUBSET S : s # {} => sums[s] = f[Pick(s)] + sums[s \ {Pick(s)}]

\* Where two functions agree, their sums do, whatever sets they are taken over.
LEMMA SumsAgree ==
    ASSUME NEW S, IsFiniteSet(S), NEW f, NEW g, NEW F, NEW G, NEW T, NEW U,
           S \subseteq T, S \subseteq U,
           IsSumsOf(F, f, T), IsSumsOf(G, g, U),
           \A x \in S : f[x] = g[x]
    PROVE  F[S] = G[S]
<1> DEFINE Good == {s \in SUBSET S : F[s] = G[s]}
<1>1. {} \in Good
  BY DEF IsSumsOf
<1>2. ASSUME NEW s \in SUBSET S, s # {}, \A x \in s : s \ {x} \in Good PROVE s \in Good
  <2>1. Pick(s) \in s
    BY <1>2 DEF Pick
  <2>2. F[s \ {Pick(s)}] = G[s \ {Pick(s)}] /\ f[Pick(s)] = g[Pick(s)]
    BY <1>2, <2>1
  <2>3. F[s] = f[Pick(s)] + F[s \ {Pick(s)}]
    BY <1>2 DEF IsSumsOf
  <2>4. G[s] = g[Pick(s)] + G[s \ {Pick(s)}]
    BY <1>2 DEF IsSumsOf
  <2> QED BY <2>2, <2>3, <2>4
<1> HIDE DEF Good
<1>3. SUBSET S \subseteq Good
  BY <1>1, <1>2, SubsetInduction
<1> QED BY <1>3 DEF Good

\* Sums are defined over finite sets of integers.
Summable(f, S) == IsFiniteSet(S) /\ \A x \in S : f[x] \in Int

LEMMA SummableSubset ==
    ASSUME NEW S, NEW f, Summable(f, S), NEW s \in SUBSET S
    PROVE  Summable(f, s)
BY FS_Subset DEF Summable

\* The equations of a sum: it is an integer, zero over the empty set, and Pick
\* names an element to begin with.
LEMMA SetSumDef ==
    ASSUME NEW S, NEW f, Summable(f, S)
    PROVE  /\ SumFunctionOnSet(f, S) \in Int
           /\ SumFunctionOnSet(f, {}) = 0
           /\ S # {} => SumFunctionOnSet(f, S) = f[Pick(S)] + SumFunctionOnSet(f, S \ {Pick(S)})
<1>1. IsFiniteSet(S) /\ \A x \in S : f[x] \in Int
  BY DEF Summable
<1>2. PICK sums : IsSumOver(sums, f, S) /\ sums \in [SUBSET S -> Int]
  BY <1>1, SumOverExists
<1>3. IsSumsOf(sums, f, S)
  BY <1>2 DEF IsSumOver, IsSumsOf
<1>4. ASSUME NEW s \in SUBSET S PROVE SumFunctionOnSet(f, s) = sums[s]
  <2> DEFINE g == CHOOSE h : IsSumOver(h, f, s)
  <2>1. IsFiniteSet(s)
    BY <1>1, FS_Subset
  <2>2. \E h : IsSumOver(h, f, s)
    BY <1>1, <2>1, SumOverExists
  <2>3. IsSumOver(g, f, s)
    BY <2>2
  <2>4. SumFunctionOnSet(f, s) = g[s]
    BY SumIsFold
  <2> HIDE DEF g
  <2>5. IsSumsOf(g, f, s)
    BY <2>3 DEF IsSumOver, IsSumsOf
  <2>6. g[s] = sums[s]
    BY <1>3, <2>1, <2>5, SumsAgree
  <2> QED BY <2>4, <2>6
<1>5. SumFunctionOnSet(f, S) = sums[S] /\ SumFunctionOnSet(f, {}) = sums[{}]
  BY <1>4
<1>6. SumFunctionOnSet(f, S \ {Pick(S)}) = sums[S \ {Pick(S)}]
  BY <1>4
<1> QED BY <1>2, <1>3, <1>5, <1>6 DEF IsSumsOf

\* Any element may be added last.
LEMMA SetSumRemove ==
    ASSUME NEW S, NEW f, Summable(f, S), NEW x \in S
    PROVE  SumFunctionOnSet(f, S) = f[x] + SumFunctionOnSet(f, S \ {x})
<1> DEFINE F(s) == SumFunctionOnSet(f, s)
           Good == {s \in SUBSET S : \A y \in s : F(s) = f[y] + F(s \ {y})}
<1>1. \A s \in SUBSET S : F(s) \in Int /\ (s # {} => F(s) = f[Pick(s)] + F(s \ {Pick(s)}))
  BY SetSumDef, SummableSubset
<1>2. \A s \in SUBSET S : s # {} => Pick(s) \in s
  BY DEF Pick
<1>3. \A y \in S : f[y] \in Int
  BY DEF Summable
<1> HIDE DEF F
<1>4. {} \in Good
  OBVIOUS
<1>5. ASSUME NEW s \in SUBSET S, s # {}, \A y \in s : s \ {y} \in Good PROVE s \in Good
  <2> SUFFICES ASSUME NEW y \in s PROVE F(s) = f[y] + F(s \ {y})
    OBVIOUS
  <2>1. PICK first \in s : F(s) = f[first] + F(s \ {first})
    BY <1>1, <1>2, <1>5
  <2>2. CASE y = first
    BY <2>1, <2>2
  <2>3. CASE y # first
    <3>1. F(s \ {first}) = f[y] + F((s \ {first}) \ {y})
      BY <1>5, <2>3
    <3>2. (s \ {y}) \ {first} = (s \ {first}) \ {y}
      OBVIOUS
    <3>3. F(s \ {y}) = f[first] + F((s \ {first}) \ {y})
      BY <1>5, <2>3, <3>2
    <3>4. F((s \ {first}) \ {y}) \in Int /\ f[y] \in Int /\ f[first] \in Int
      BY <1>1, <1>3
    <3> QED BY <2>1, <3>1, <3>3, <3>4
  <2> QED BY <2>2, <2>3
<1> HIDE DEF Good
<1>6. SUBSET S \subseteq Good
  <2>1. IsFiniteSet(S)
    BY DEF Summable
  <2> QED BY <1>4, <1>5, <2>1, SubsetInduction
<1>7. S \in Good
  BY <1>6
<1> QED BY <1>7 DEF Good, F

\* Functions that agree on a set have the same sum over it.
LEMMA SetSumSame ==
    ASSUME NEW S, NEW f, NEW g, Summable(f, S), \A x \in S : f[x] = g[x]
    PROVE  SumFunctionOnSet(f, S) = SumFunctionOnSet(g, S)
<1> DEFINE F(s) == SumFunctionOnSet(f, s)
           G(s) == SumFunctionOnSet(g, s)
           Good == {s \in SUBSET S : F(s) = G(s)}
<1>1. Summable(g, S)
  BY DEF Summable
<1>2. \A s \in SUBSET S : s # {} => /\ F(s) = f[Pick(s)] + F(s \ {Pick(s)})
                                    /\ G(s) = g[Pick(s)] + G(s \ {Pick(s)})
                                    /\ Pick(s) \in s
  BY <1>1, SetSumDef, SummableSubset DEF Pick
<1>3. F({}) = G({})
  BY <1>1, SetSumDef
<1> HIDE DEF F, G
<1>4. {} \in Good
  BY <1>3
<1>5. ASSUME NEW s \in SUBSET S, s # {}, \A y \in s : s \ {y} \in Good PROVE s \in Good
  BY <1>2, <1>5
<1> HIDE DEF Good
<1>6. SUBSET S \subseteq Good
  <2>1. IsFiniteSet(S)
    BY DEF Summable
  <2> QED BY <1>4, <1>5, <2>1, SubsetInduction
<1>7. S \in Good
  BY <1>6
<1> QED BY <1>7 DEF Good, F, G

\* A change of one value changes the sum by as much.
LEMMA SetSumUpdate ==
    ASSUME NEW S, NEW f, NEW g, Summable(f, S), Summable(g, S),
           NEW x \in S, \A y \in S : y # x => g[y] = f[y]
    PROVE  SumFunctionOnSet(g, S) = SumFunctionOnSet(f, S) + g[x] - f[x]
<1>1. SumFunctionOnSet(f, S) = f[x] + SumFunctionOnSet(f, S \ {x})
  BY SetSumRemove
<1>2. SumFunctionOnSet(g, S) = g[x] + SumFunctionOnSet(g, S \ {x})
  BY SetSumRemove
<1>3. Summable(f, S \ {x})
  BY SummableSubset
<1>4. SumFunctionOnSet(f, S \ {x}) = SumFunctionOnSet(g, S \ {x})
  BY <1>3, SetSumSame
<1>5. SumFunctionOnSet(f, S \ {x}) \in Int /\ f[x] \in Int /\ g[x] \in Int
  BY <1>3, SetSumDef DEF Summable
<1> QED BY <1>1, <1>2, <1>4, <1>5

\* Larger values have a larger sum.
LEMMA SetSumMonotonic ==
    ASSUME NEW S, NEW f, NEW g, Summable(f, S), Summable(g, S),
           \A x \in S : f[x] <= g[x]
    PROVE  SumFunctionOnSet(f, S) <= SumFunctionOnSet(g, S)
<1> DEFINE F(s) == SumFunctionOnSet(f, s)
           G(s) == SumFunctionOnSet(g, s)
           Good == {s \in SUBSET S : F(s) <= G(s)}
<1>1. \A s \in SUBSET S : s # {} => /\ F(s) = f[Pick(s)] + F(s \ {Pick(s)})
                                    /\ G(s) = g[Pick(s)] + G(s \ {Pick(s)})
                                    /\ Pick(s) \in s
  BY SetSumDef, SummableSubset DEF Pick
<1>2. F({}) = 0 /\ G({}) = 0
  BY SetSumDef
<1>3. \A s \in SUBSET S : F(s) \in Int /\ G(s) \in Int
  BY SetSumDef, SummableSubset
<1>4. \A x \in S : f[x] \in Int /\ g[x] \in Int
  BY DEF Summable
<1> HIDE DEF F, G
<1>5. {} \in Good
  BY <1>2
<1>6. ASSUME NEW s \in SUBSET S, s # {}, \A y \in s : s \ {y} \in Good PROVE s \in Good
  <2>1. PICK y \in s : F(s) = f[y] + F(s \ {y}) /\ G(s) = g[y] + G(s \ {y})
    BY <1>1, <1>6
  <2>2. F(s \ {y}) <= G(s \ {y})
    BY <1>6
  <2>3. F(s \ {y}) \in Int /\ G(s \ {y}) \in Int /\ f[y] \in Int /\ g[y] \in Int
    BY <1>3, <1>4
  <2> QED BY <2>1, <2>2, <2>3
<1> HIDE DEF Good
<1>7. SUBSET S \subseteq Good
  <2>1. IsFiniteSet(S)
    BY DEF Summable
  <2> QED BY <1>5, <1>6, <2>1, SubsetInduction
<1>8. S \in Good
  BY <1>7
<1> QED BY <1>8 DEF Good, F, G

\* The sum over a set and one over a set disjoint from it add up.
LEMMA SetSumUnion ==
    ASSUME NEW S, NEW T, NEW f, Summable(f, S \cup T), S \cap T = {}
    PROVE  SumFunctionOnSet(f, S \cup T) = SumFunctionOnSet(f, S) + SumFunctionOnSet(f, T)
<1> DEFINE F(s) == SumFunctionOnSet(f, s)
           Good == {s \in SUBSET S : F(s \cup T) = F(s) + F(T)}
<1>1. Summable(f, S) /\ Summable(f, T)
  BY SummableSubset
<1>2. \A s \in SUBSET (S \cup T) : F(s) \in Int
  BY SetSumDef, SummableSubset
<1>3. \A s \in SUBSET (S \cup T) : \A x \in s : F(s) = f[x] + F(s \ {x})
  BY SetSumRemove, SummableSubset
<1>4. F({}) = 0
  BY <1>1, SetSumDef
<1>5. \A x \in S : f[x] \in Int
  BY <1>1 DEF Summable
<1> HIDE DEF F
<1>6. {} \in Good
  <2>1. {} \cup T = T /\ F(T) \in Int
    BY <1>2
  <2> QED BY <1>4, <2>1
<1>7. ASSUME NEW s \in SUBSET S, s # {}, \A x \in s : s \ {x} \in Good PROVE s \in Good
  <2>1. PICK x : x \in s
    BY <1>7
  <2>2. F((s \ {x}) \cup T) = F(s \ {x}) + F(T)
    BY <1>7, <2>1
  <2>3. (s \cup T) \ {x} = (s \ {x}) \cup T
    BY <2>1
  <2>4. F(s) = f[x] + F(s \ {x})
    BY <1>3, <2>1
  <2>5. F(s \cup T) = f[x] + F((s \ {x}) \cup T)
    BY <1>3, <2>1, <2>3
  <2>6. F(s \ {x}) \in Int /\ F(T) \in Int /\ f[x] \in Int
    BY <1>2, <1>5, <2>1
  <2> QED BY <2>2, <2>4, <2>5, <2>6
<1> HIDE DEF Good
<1>8. SUBSET S \subseteq Good
  <2>1. IsFiniteSet(S)
    BY <1>1 DEF Summable
  <2> QED BY <1>6, <1>7, <2>1, SubsetInduction
<1>9. S \in Good
  BY <1>8
<1> QED BY <1>9 DEF Good, F

LEMMA SetSumZero ==
    ASSUME NEW S, NEW f, Summable(f, S), \A x \in S : f[x] = 0
    PROVE  SumFunctionOnSet(f, S) = 0
<1> DEFINE F(s) == SumFunctionOnSet(f, s)
           Good == {s \in SUBSET S : F(s) = 0}
<1>1. \A s \in SUBSET S : F(s) \in Int /\ F({}) = 0 /\ (s # {} => F(s) = f[Pick(s)] + F(s \ {Pick(s)}))
  BY SetSumDef, SummableSubset
<1>2. \A s \in SUBSET S : s # {} => Pick(s) \in s
  BY DEF Pick
<1> HIDE DEF F
<1>3. {} \in Good
  BY <1>1
<1>4. ASSUME NEW s \in SUBSET S, s # {}, \A x \in s : s \ {x} \in Good
      PROVE  s \in Good
  <2>1. Pick(s) \in s /\ f[Pick(s)] = 0
    BY <1>2, <1>4
  <2>2. F(s \ {Pick(s)}) = 0
    BY <1>4, <2>1
  <2> QED BY <1>1, <1>4, <2>1, <2>2
<1> HIDE DEF Good
<1>5. IsFiniteSet(S)
  BY DEF Summable
<1>6. SUBSET S \subseteq Good
  BY <1>3, <1>4, <1>5, SubsetInduction
<1> QED BY <1>6 DEF Good, F

-----------------------------------------------------------------------------
(* Cardinalities and sequences *)

\* Sets that differ by what one set has more differ by no more in size.
LEMMA CardinalityGrows ==
    ASSUME NEW small, NEW big, NEW x, IsFiniteSet(small), big \subseteq small \cup {x}
    PROVE  /\ IsFiniteSet(big) /\ Cardinality(big) \in Nat /\ Cardinality(small) \in Nat
           /\ Cardinality(big) <= Cardinality(small) + 1
<1>1. /\ IsFiniteSet(small \cup {x}) /\ Cardinality(small) \in Nat
      /\ Cardinality(small \cup {x}) <= Cardinality(small) + 1
  BY FS_AddElement, FS_CardinalityType
<1>2. IsFiniteSet(big) /\ Cardinality(big) <= Cardinality(small \cup {x})
  BY <1>1, FS_Subset
<1> QED BY <1>1, <1>2, FS_CardinalityType

LEMMA CardinalityShrinks ==
    ASSUME NEW big, NEW small \in SUBSET big, IsFiniteSet(big)
    PROVE  Cardinality(small) \in Nat /\ Cardinality(big) \in Nat /\ Cardinality(small) <= Cardinality(big)
BY FS_Subset, FS_CardinalityType

LEMMA Concatenated ==
    ASSUME NEW S, NEW a \in Seq(S), NEW b \in Seq(S)
    PROVE  /\ a \o b \in Seq(S) /\ Len(a \o b) = Len(a) + Len(b)
           /\ \A j \in 1 .. Len(a) + Len(b) :
                 (a \o b)[j] = IF j <= Len(a) THEN a[j] ELSE b[j - Len(a)]
OBVIOUS

LEMMA RangeFinite ==
    ASSUME NEW S, NEW s \in Seq(S)
    PROVE  IsFiniteSet(ToSet(s)) /\ ToSet(s) \subseteq S
<1>1. ToSet(s) = {s[i] : i \in 1 .. Len(s)} /\ Len(s) \in Nat
  BY DEF ToSet
<1>2. IsFiniteSet(1 .. Len(s))
  BY <1>1, FS_Interval
<1>3. IsFiniteSet({s[i] : i \in 1 .. Len(s)})
  <2> DEFINE f == [i \in 1 .. Len(s) |-> s[i]]
             R == {s[i] : i \in 1 .. Len(s)}
  <2>1. f \in Surjection(1 .. Len(s), R)
    BY DEF Surjection
  <2> QED BY <1>2, <2>1, FS_Surjection
<1> QED BY <1>1, <1>3

\* A sequence with one of its elements taken out.
LEMMA Removed ==
    ASSUME NEW S, NEW s \in Seq(S), NEW p \in DOMAIN s
    PROVE  /\ RemoveAt(s, p) \in Seq(S)
           /\ Len(RemoveAt(s, p)) = Len(s) - 1
           /\ \A j \in 1 .. Len(s) - 1 :
                 RemoveAt(s, p)[j] = IF j < p THEN s[j] ELSE s[j + 1]
           /\ IsInjective(s) => IsInjective(RemoveAt(s, p))
           /\ ToSet(RemoveAt(s, p)) \subseteq ToSet(s)
<1> DEFINE left == SubSeq(s, 1, p - 1)
           right == SubSeq(s, p + 1, Len(s))
           r == left \o right
<1>1. p \in 1 .. Len(s) /\ Len(s) \in Nat /\ DOMAIN s = 1 .. Len(s)
  OBVIOUS
<1>2. /\ left \in Seq(S) /\ Len(left) = p - 1
      /\ \A j \in 1 .. p - 1 : left[j] = s[j]
  BY <1>1
<1>3. /\ right \in Seq(S) /\ Len(right) = Len(s) - p
      /\ \A j \in 1 .. Len(s) - p : right[j] = s[j + p]
  BY <1>1
<1> HIDE DEF left, right
<1>4. r \in Seq(S) /\ Len(r) = Len(s) - 1 /\ DOMAIN r = 1 .. Len(s) - 1
  <2>1. r \in Seq(S) /\ Len(r) = Len(left) + Len(right)
    BY <1>2, <1>3, Concatenated
  <2>2. Len(left) + Len(right) = Len(s) - 1
    BY <1>1, <1>2, <1>3
  <2> HIDE DEF r
  <2> QED BY <2>1, <2>2
<1>5. ASSUME NEW j \in 1 .. Len(s) - 1 PROVE r[j] = IF j < p THEN s[j] ELSE s[j + 1]
  <2>1. CASE j < p
    BY <1>1, <1>2, <1>3, <2>1
  <2>2. CASE ~(j < p)
    <3>0. j - (p - 1) \in 1 .. Len(s) - p /\ j \in Len(left) + 1 .. Len(left) + Len(right)
      BY <1>1, <1>2, <1>3, <2>2
    <3>1. r[j] = right[j - (p - 1)] /\ j - (p - 1) \in 1 .. Len(s) - p
      <4>1. r[j] = right[j - Len(left)]
        <5>1. j \in 1 .. Len(left) + Len(right) /\ ~(j <= Len(left))
          BY <1>1, <1>2, <1>3, <3>0
        <5> QED BY <1>2, <1>3, <5>1, Concatenated
      <4> QED BY <1>2, <3>0, <4>1
    <3>2. right[j - (p - 1)] = s[j - (p - 1) + p] /\ j - (p - 1) + p = j + 1
      BY <1>1, <1>3, <3>1
    <3> QED BY <2>2, <3>1, <3>2
  <2> QED BY <2>1, <2>2
<1> HIDE DEF r
<1>6. IsInjective(s) => IsInjective(r)
  <2> SUFFICES ASSUME IsInjective(s), NEW a \in DOMAIN r, NEW b \in DOMAIN r, r[a] = r[b]
               PROVE  a = b
    BY DEF IsInjective
  <2>1. PICK i \in DOMAIN s : r[a] = s[i] /\ i = IF a < p THEN a ELSE a + 1
    BY <1>1, <1>4, <1>5
  <2>2. PICK k \in DOMAIN s : r[b] = s[k] /\ k = IF b < p THEN b ELSE b + 1
    BY <1>1, <1>4, <1>5
  <2>3. i = k
    BY <2>1, <2>2 DEF IsInjective
  <2> QED BY <1>1, <1>4, <2>1, <2>2, <2>3
<1>7. ToSet(r) \subseteq ToSet(s)
  BY <1>1, <1>4, <1>5 DEF ToSet
<1> QED BY <1>4, <1>5, <1>6, <1>7 DEF RemoveAt, r, left, right


\* The recursive function behind FlattenSeq.
IsFlattening(f, seqs, S) ==
    /\ f \in [0 .. Len(seqs) -> Seq(S)]
    /\ f[0] = <<>>
    /\ \A n \in 1 .. Len(seqs) : f[n] = f[n - 1] \o seqs[n]
    /\ FlattenSeq(seqs) = f[Len(seqs)]

LEMMA FlatteningExists ==
    ASSUME NEW S, NEW seqs \in Seq(Seq(S))
    PROVE  \E f : IsFlattening(f, seqs, S)
<1> DEFINE N == Len(seqs)
           V == Seq(S)
           step == [p \in (1 .. N) \X V |-> p[2] \o seqs[p[1]]]
           Body(f) == [i \in 1 .. N |-> IF i = 1 THEN seqs[i] ELSE f[i - 1] \o seqs[i]]
           flatten == CHOOSE f : f = Body(f)
           base == <<>>
<1>1. N \in Nat /\ \A n \in 1 .. N : seqs[n] \in V
  OBVIOUS
<1>2. base \in V
  OBVIOUS
<1>3. step \in [(1 .. N) \X V -> V]
  <2> SUFFICES ASSUME NEW n \in 1 .. N, NEW v \in V PROVE v \o seqs[n] \in V
    OBVIOUS
  <2> QED BY <1>1, Concatenated
<1>4. \A n \in 1 .. N, v \in V : step[<<n, v>>] = v \o seqs[n]
  OBVIOUS
<1> HIDE DEF step, N, V
<1>5. PICK f : IsRecursion(f, N, V, base, step)
  <2> HIDE DEF base
  <2> QED BY <1>1, <1>2, <1>3, RecursionExists DEF IsStep
<1>6. f \in [0 .. N -> V] /\ f[0] = base /\ \A n \in 1 .. N : f[n] = f[n - 1] \o seqs[n]
  <2> HIDE DEF base
  <2>1. f \in [0 .. N -> V] /\ f[0] = base /\ \A n \in 1 .. N : f[n] = step[<<n, f[n - 1]>>]
    BY <1>5 DEF IsRecursion
  <2>2. \A n \in 1 .. N : n - 1 \in 0 .. N
    BY <1>1
  <2>3. \A n \in 1 .. N : f[n - 1] \in V
    BY <2>1, <2>2
  <2> QED BY <1>4, <2>1, <2>3
<1>7. N = 0 => FlattenSeq(seqs) = f[N]
  BY <1>6 DEF FlattenSeq, N
<1>8. ASSUME N > 0 PROVE FlattenSeq(seqs) = f[N]
  <2> DEFINE g == [i \in 1 .. N |-> f[i]]
  <2>1. ASSUME NEW i \in 1 .. N PROVE g[i] = Body(g)[i]
    <3>1. CASE i = 1
      <4>1. f[1] = <<>> \o seqs[1] /\ seqs[1] \in V
        <5>1. 1 - 1 = 0 /\ f[0] = <<>> /\ 1 \in 1 .. N
          BY <1>6, <3>1
        <5> QED BY <1>1, <1>6, <5>1
      <4>2. f[1] = seqs[1]
        BY <4>1 DEF V
      <4> QED BY <3>1, <4>2
    <3>2. CASE i # 1
      <4>1. i - 1 \in 1 .. N
        BY <1>1, <3>2
      <4> QED BY <1>6, <3>2, <4>1
    <3> QED BY <3>1, <3>2
  <2>2. g = Body(g)
    BY <2>1
  <2>3. flatten = Body(flatten)
    <3> HIDE DEF Body, g
    <3> QED BY <2>2
  <2>4. \A i \in 1 .. N : flatten[i] = IF i = 1 THEN seqs[i] ELSE flatten[i - 1] \o seqs[i]
    <3> HIDE DEF flatten
    <3>1. \A i \in 1 .. N : flatten[i] = Body(flatten)[i]
      BY <2>3, Zenon
    <3> QED BY <3>1
  <2> DEFINE Good == {n \in 0 .. N : n > 0 => flatten[n] = f[n]}
  <2> HIDE DEF flatten
  <2>5. 0 \in Good
    BY <1>1
  <2>6. ASSUME NEW n \in 1 .. N, n - 1 \in Good PROVE n \in Good
    <3>1. CASE n = 1
      <4>1. g[1] = f[1] /\ Body(g)[1] = seqs[1]
        BY <1>1, <3>1
      <4>2. flatten[1] = seqs[1]
        BY <2>4, <3>1
      <4>3. 1 \in 1 .. N /\ 1 \in 0 .. N
        BY <1>1, <3>1
      <4>4. flatten[1] = f[1]
        <5>1. g[1] = Body(g)[1]
          BY <2>1, <4>3
        <5> HIDE DEF g, Body
        <5> QED BY <4>1, <4>2, <5>1
      <4> QED BY <3>1, <4>3, <4>4
    <3>2. CASE n # 1
      <4>1. n - 1 \in 0 .. N /\ n - 1 > 0 /\ n \in 0 .. N
        BY <1>1, <3>2
      <4>2. flatten[n - 1] = f[n - 1]
        BY <2>6, <4>1
      <4>3. flatten[n] = f[n]
        BY <1>6, <2>4, <3>2, <4>2
      <4> QED BY <4>1, <4>3
    <3> QED BY <3>1, <3>2
  <2>7. 0 .. N \subseteq Good
    <3> HIDE DEF Good
    <3> QED BY <1>1, <2>5, <2>6, UpToInduction
  <2>8. flatten[N] = f[N]
    BY <1>1, <1>8, <2>7
  <2>9. FlattenSeq(seqs) = flatten[N]
    BY <1>8 DEF FlattenSeq, flatten, N
  <2> QED BY <2>8, <2>9
<1>9. FlattenSeq(seqs) = f[N]
  BY <1>1, <1>7, <1>8
<1> QED BY <1>6, <1>9 DEF IsFlattening, N, V

\* The flattened sequence has the elements of every part and no others, and is
\* no shorter than the list of parts when none of these is empty.
LEMMA FlattenedElements ==
    ASSUME NEW S, NEW seqs \in Seq(Seq(S))
    PROVE  /\ FlattenSeq(seqs) \in Seq(S)
           /\ \A i \in 1 .. Len(seqs) : ToSet(seqs[i]) \subseteq ToSet(FlattenSeq(seqs))
           /\ \A x \in ToSet(FlattenSeq(seqs)) : \E i \in 1 .. Len(seqs) : x \in ToSet(seqs[i])
           /\ (\A i \in 1 .. Len(seqs) : seqs[i] # <<>>) => Len(FlattenSeq(seqs)) >= Len(seqs)
<1> DEFINE N == Len(seqs)
<1>1. PICK f : IsFlattening(f, seqs, S)
  BY FlatteningExists
<1>2. /\ N \in Nat /\ f[0] = <<>> /\ FlattenSeq(seqs) = f[N]
      /\ \A n \in 0 .. N : f[n] \in Seq(S)
      /\ \A n \in 1 .. N : f[n] = f[n - 1] \o seqs[n] /\ seqs[n] \in Seq(S)
  <2>1. \A n \in 1 .. N : seqs[n] \in Seq(S)
    OBVIOUS
  <2>2. f \in [0 .. N -> Seq(S)] /\ f[0] = <<>> /\ FlattenSeq(seqs) = f[N]
        /\ \A n \in 1 .. N : f[n] = f[n - 1] \o seqs[n]
    BY <1>1 DEF IsFlattening
  <2>3. N \in Nat
    OBVIOUS
  <2> HIDE DEF N
  <2> QED BY <2>1, <2>2, <2>3
<1> DEFINE Full == \A i \in 1 .. N : seqs[i] # <<>>
           Holds(v, n) == /\ \A i \in 1 .. n : ToSet(seqs[i]) \subseteq ToSet(v)
                          /\ \A x \in ToSet(v) : \E i \in 1 .. n : x \in ToSet(seqs[i])
                          /\ Full => Len(v) >= n
           Good == {n \in 0 .. N : Holds(f[n], n)}
<1> HIDE DEF N
<1>3. 0 \in Good
  <2>1. ToSet(<<>>) = {} /\ Len(<<>>) = 0
    BY DEF ToSet
  <2>2. Holds(<<>>, 0)
    BY <2>1
  <2> QED BY <1>2, <2>2
<1>4. ASSUME NEW n \in 1 .. N, n - 1 \in Good PROVE n \in Good
  <2> DEFINE v == f[n - 1]
             w == seqs[n]
  <2>1. n - 1 \in 0 .. N /\ n \in 0 .. N
    BY <1>2
  <2>2. v \in Seq(S) /\ w \in Seq(S) /\ f[n] = v \o w
    BY <1>2, <2>1
  <2>3. Holds(v, n - 1)
    BY <1>4
  <2>4. Full => Len(w) >= 1
    <3>1. Full => w # <<>>
      OBVIOUS
    <3>2. Len(w) \in Nat /\ (Len(w) = 0 => w = <<>>)
      <4> HIDE DEF w
      <4> QED BY <2>2
    <3> HIDE DEF w, Full
    <3> QED BY <3>1, <3>2
  <2>5. \A i \in 1 .. n : i = n \/ i \in 1 .. (n - 1)
    BY <1>2
  <2>6. \A i \in 1 .. (n - 1) : i \in 1 .. n
    BY <1>2
  <2>7. n \in 1 .. n
    BY <1>2
  <2> HIDE DEF v, Full
  <2>8. ToSet(v \o w) = ToSet(v) \cup ToSet(w) /\ Len(v \o w) = Len(v) + Len(w)
    <3>1. /\ v \o w \in Seq(S) /\ Len(v \o w) = Len(v) + Len(w)
          /\ \A j \in 1 .. Len(v) + Len(w) : (v \o w)[j] = IF j <= Len(v) THEN v[j] ELSE w[j - Len(v)]
      BY <2>2, Concatenated
    <3>0. /\ DOMAIN v = 1 .. Len(v) /\ DOMAIN w = 1 .. Len(w) /\ Len(v) \in Nat /\ Len(w) \in Nat
          /\ DOMAIN (v \o w) = 1 .. Len(v) + Len(w)
      BY <2>2, <3>1
    <3>2. ToSet(v \o w) \subseteq ToSet(v) \cup ToSet(w)
      <4> SUFFICES ASSUME NEW j \in 1 .. Len(v) + Len(w) PROVE (v \o w)[j] \in ToSet(v) \cup ToSet(w)
        BY <3>0 DEF ToSet
      <4>1. CASE j <= Len(v)
        <5>1. j \in DOMAIN v /\ (v \o w)[j] = v[j]
          BY <3>0, <3>1, <4>1
        <5> QED BY <5>1 DEF ToSet
      <4>2. CASE ~(j <= Len(v))
        <5>1. j - Len(v) \in DOMAIN w /\ (v \o w)[j] = w[j - Len(v)]
          BY <3>0, <3>1, <4>2
        <5> QED BY <5>1 DEF ToSet
      <4> QED BY <4>1, <4>2
    <3>3. ToSet(v) \subseteq ToSet(v \o w)
      <4> SUFFICES ASSUME NEW k \in 1 .. Len(v) PROVE v[k] \in ToSet(v \o w)
        BY <3>0 DEF ToSet
      <4>1. k \in DOMAIN (v \o w) /\ (v \o w)[k] = v[k]
        BY <3>0, <3>1
      <4> QED BY <4>1 DEF ToSet
    <3>4. ToSet(w) \subseteq ToSet(v \o w)
      <4>0. DOMAIN w = 1 .. Len(w)
        BY <3>0
      <4> SUFFICES ASSUME NEW k \in 1 .. Len(w) PROVE w[k] \in ToSet(v \o w)
        BY <4>0 DEF ToSet
      <4>1. /\ Len(v) + k \in 1 .. Len(v) + Len(w) /\ ~(Len(v) + k <= Len(v))
            /\ Len(v) + k - Len(v) = k
        BY <2>2
      <4>2. (v \o w)[Len(v) + k] = w[k]
        BY <3>1, <4>1
      <4>3. Len(v) + k \in DOMAIN (v \o w)
        BY <3>1, <4>1
      <4> QED BY <4>2, <4>3 DEF ToSet
    <3> QED BY <3>1, <3>2, <3>3, <3>4
  <2>9. Holds(v \o w, n)
    <3>1. \A i \in 1 .. n : ToSet(seqs[i]) \subseteq ToSet(v \o w)
      BY <2>3, <2>5, <2>8
    <3>2. \A x \in ToSet(v \o w) : \E i \in 1 .. n : x \in ToSet(seqs[i])
      <4> SUFFICES ASSUME NEW x \in ToSet(v) \cup ToSet(w) PROVE \E i \in 1 .. n : x \in ToSet(seqs[i])
        BY <2>8
      <4> QED BY <2>3, <2>6, <2>7
    <3>3. Full => Len(v \o w) >= n
      <4>1. Full => Len(v) >= n - 1
        BY <2>3
      <4>2. Len(v) \in Nat /\ Len(w) \in Nat /\ n \in Nat
        BY <2>2, <1>2
      <4> QED BY <2>4, <2>8, <4>1, <4>2
    <3> QED BY <3>1, <3>2, <3>3
  <2> QED BY <2>1, <2>2, <2>9
<1>5. N \in Good
  <2> HIDE DEF Holds
  <2>1. 0 .. N \subseteq Good
    <3> HIDE DEF Good
    <3> QED BY <1>2, <1>3, <1>4, UpToInduction
  <2> QED BY <1>2, <2>1
<1> QED BY <1>2, <1>5 DEF N

\* Any two elements of the sequence, at different places, are related by R.
Apart(s, R) == \A a, b \in DOMAIN s : a # b => <<s[a], s[b]>> \in R

\* Elements that are apart within each part and between parts are apart in the
\* whole.
LEMMA FlattenedApart ==
    ASSUME NEW S, NEW seqs \in Seq(Seq(S)), NEW R,
           \A i \in 1 .. Len(seqs) : Apart(seqs[i], R),
           \A i, k \in 1 .. Len(seqs) : i # k =>
              \A x \in ToSet(seqs[i]), y \in ToSet(seqs[k]) : <<x, y>> \in R
    PROVE  Apart(FlattenSeq(seqs), R)
<1> DEFINE N == Len(seqs)
<1>1. PICK f : IsFlattening(f, seqs, S)
  BY FlatteningExists
<1>2. /\ N \in Nat /\ f[0] = <<>> /\ FlattenSeq(seqs) = f[N]
      /\ \A n \in 0 .. N : f[n] \in Seq(S)
      /\ \A n \in 1 .. N : f[n] = f[n - 1] \o seqs[n] /\ seqs[n] \in Seq(S)
  <2>1. \A n \in 1 .. N : seqs[n] \in Seq(S)
    OBVIOUS
  <2>2. f \in [0 .. N -> Seq(S)] /\ f[0] = <<>> /\ FlattenSeq(seqs) = f[N]
        /\ \A n \in 1 .. N : f[n] = f[n - 1] \o seqs[n]
    BY <1>1 DEF IsFlattening
  <2>3. N \in Nat
    OBVIOUS
  <2> HIDE DEF N
  <2> QED BY <2>1, <2>2, <2>3
<1> DEFINE From(v, n) == \A a \in DOMAIN v : \E i \in 1 .. n : v[a] \in ToSet(seqs[i])
           Good == {n \in 0 .. N : Apart(f[n], R) /\ From(f[n], n)}
<1>3. \A i, k \in 1 .. N : i # k => \A x \in ToSet(seqs[i]), y \in ToSet(seqs[k]) : <<x, y>> \in R
  OBVIOUS
<1>4. \A i \in 1 .. N : Apart(seqs[i], R)
  OBVIOUS
<1> HIDE DEF N
<1>5. 0 \in Good
  BY <1>2 DEF Apart
<1>6. ASSUME NEW n \in 1 .. N, n - 1 \in Good PROVE n \in Good
  <2> DEFINE v == f[n - 1]
             w == seqs[n]
             u == f[n]
  <2>1. n - 1 \in 0 .. N /\ n \in 0 .. N
    BY <1>2
  <2>2. v \in Seq(S) /\ w \in Seq(S) /\ u = v \o w
    BY <1>2, <2>1
  <2>3. Apart(v, R) /\ From(v, n - 1) /\ Apart(w, R)
    BY <1>4, <1>6
  <2>4. /\ u \in Seq(S) /\ Len(u) = Len(v) + Len(w)
        /\ \A j \in 1 .. Len(v) + Len(w) : u[j] = IF j <= Len(v) THEN v[j] ELSE w[j - Len(v)]
    <3> HIDE DEF v, w, u
    <3> QED BY <2>2, Concatenated
  <2>5. \A i \in 1 .. (n - 1) : i \in 1 .. N /\ i # n /\ i \in 1 .. n
    BY <1>2
  <2> HIDE DEF v, w, u
  <2>6. ASSUME NEW a \in DOMAIN u
        PROVE  \/ a \in DOMAIN v /\ u[a] = v[a]
               \/ a > Len(v) /\ a - Len(v) \in DOMAIN w /\ u[a] = w[a - Len(v)]
    BY <2>2, <2>4, <2>6
  <2>7. \A a \in DOMAIN v : \E i \in 1 .. (n - 1) : v[a] \in ToSet(seqs[i])
    BY <2>3
  <2>8. \A k \in DOMAIN w : w[k] \in ToSet(seqs[n])
    BY DEF w, ToSet
  <2>9. ASSUME NEW a \in DOMAIN v, NEW k \in DOMAIN w PROVE <<v[a], w[k]>> \in R /\ <<w[k], v[a]>> \in R
    <3>1. PICK i \in 1 .. (n - 1) : v[a] \in ToSet(seqs[i])
      BY <2>7
    <3> QED BY <1>3, <2>5, <2>8, <3>1
  <2>10. Apart(u, R)
    <3> SUFFICES ASSUME NEW a \in DOMAIN u, NEW b \in DOMAIN u, a # b PROVE <<u[a], u[b]>> \in R
      BY DEF Apart
    <3>1. a \in Nat /\ b \in Nat /\ Len(v) \in Nat
      BY <2>2, <2>4
    <3>2. CASE a \in DOMAIN v /\ u[a] = v[a] /\ b \in DOMAIN v /\ u[b] = v[b]
      BY <2>3, <3>2 DEF Apart
    <3>3. CASE /\ a > Len(v) /\ a - Len(v) \in DOMAIN w /\ u[a] = w[a - Len(v)]
               /\ b > Len(v) /\ b - Len(v) \in DOMAIN w /\ u[b] = w[b - Len(v)]
      <4>1. a - Len(v) # b - Len(v)
        BY <3>1
      <4> QED BY <2>3, <3>3, <4>1 DEF Apart
    <3>4. CASE \/ a \in DOMAIN v /\ u[a] = v[a] /\ b - Len(v) \in DOMAIN w /\ u[b] = w[b - Len(v)]
               \/ b \in DOMAIN v /\ u[b] = v[b] /\ a - Len(v) \in DOMAIN w /\ u[a] = w[a - Len(v)]
      BY <2>9, <3>4
    <3> QED BY <2>6, <3>2, <3>3, <3>4
  <2>11. From(u, n)
    <3> SUFFICES ASSUME NEW a \in DOMAIN u PROVE \E i \in 1 .. n : u[a] \in ToSet(seqs[i])
      OBVIOUS
    <3>1. n \in 1 .. n
      BY <1>2
    <3> QED BY <2>5, <2>6, <2>7, <2>8, <3>1
  <2> QED BY <2>1, <2>10, <2>11 DEF u
<1>7. N \in Good
  <2>1. 0 .. N \subseteq Good
    <3> HIDE DEF Good
    <3> QED BY <1>2, <1>5, <1>6, UpToInduction
  <2> QED BY <1>2, <2>1
<1> QED BY <1>2, <1>7

-----------------------------------------------------------------------------
(* Quotients and products *)

\* The whole part of a quotient, bounded.
LEMMA Quotient ==
    ASSUME NEW n \in Int, NEW d \in Nat \ {0}
    PROVE  /\ n \div d \in Int /\ d * (n \div d) <= n /\ n < d * (n \div d) + d
           /\ n >= 0 => n \div d >= 0
OBVIOUS

\* A larger dividend has no smaller quotient.
LEMMA QuotientMonotonic ==
    ASSUME NEW m \in Int, NEW n \in Int, NEW d \in Nat \ {0}, m <= n
    PROVE  m \div d <= n \div d
<1> DEFINE p == m \div d
           q == n \div d
<1>1. p \in Int /\ q \in Int /\ d * p <= m /\ n < d * q + d
  BY Quotient
<1> HIDE DEF p, q
<1>2. ~ (q + 1 <= p)
  <2> SUFFICES ASSUME q + 1 <= p PROVE FALSE
    OBVIOUS
  <2>1. d * (q + 1) <= d * p
    BY <1>1
  <2>2. d * (q + 1) = d * q + d
    BY <1>1
  <2> QED BY <1>1, <2>1, <2>2
<1>3. p <= q
  BY <1>1, <1>2
<1> QED BY <1>3 DEF p, q

\* Times of one window lie less than a window apart.
LEMMA OneWindow ==
    ASSUME NEW m \in Int, NEW n \in Int, NEW d \in Nat \ {0}, m \div d = n \div d
    PROVE  m - n < d
<1> DEFINE q == n \div d
<1>1. q \in Int /\ d * q \in Int /\ m < d * q + d /\ d * q <= n
  BY Quotient
<1> HIDE DEF q
<1> QED BY <1>1

\* The product is monotonic.
LEMMA ProductMonotonic ==
    ASSUME NEW k \in Nat, NEW m \in Int, NEW n \in Int, m <= n
    PROVE  k * m <= k * n /\ k * m \in Int /\ k * n \in Int
OBVIOUS

-----------------------------------------------------------------------------
(* Chains of neighbours *)

IsOrder(R, G) ==
    /\ \A x, y \in G : x # y => <<x, y>> \in R \/ <<y, x>> \in R
    /\ \A x, y, z \in G : <<x, y>> \in R /\ <<y, z>> \in R => <<x, z>> \in R
    /\ \A x \in G : <<x, x>> \notin R
UpTo(R, G, x, y) == {z \in G : <<x, z>> \in R /\ (z = y \/ <<z, y>> \in R)}
NextTo(R, G, x, y) == <<x, y>> \in R /\ \A z \in G : ~(<<x, z>> \in R /\ <<z, y>> \in R)

\* When no two neighbours of a finite order differ by more than `step', no two
\* members differ by more than all the steps together.
LEMMA ChainOfSteps ==
    ASSUME NEW G, IsFiniteSet(G), NEW R, IsOrder(R, G), NEW val \in [G -> Int], NEW step \in Nat,
           \A x, y \in G : NextTo(R, G, x, y) => val[y] - val[x] <= step
    PROVE  \A x, y \in G : <<x, y>> \in R => val[y] - val[x] <= step * (Cardinality(G) - 1)
<1> DEFINE Size(x, y) == Cardinality(UpTo(R, G, x, y))
           Bad == {n \in Nat : \E x, y \in G : /\ <<x, y>> \in R /\ Size(x, y) = n
                                              /\ ~(val[y] - val[x] <= step * n)}
<1>1. \A x, y \in G : IsFiniteSet(UpTo(R, G, x, y)) /\ Size(x, y) \in Nat
  BY CardinalityShrinks, FS_Subset, FS_CardinalityType DEF UpTo
<1>2. \A x, y \in G : <<x, y>> \in R => Size(x, y) >= 1
  <2> SUFFICES ASSUME NEW x \in G, NEW y \in G, <<x, y>> \in R PROVE Size(x, y) >= 1
    OBVIOUS
  <2>1. y \in UpTo(R, G, x, y)
    BY DEF UpTo
  <2>2. Size(x, y) # 0
    BY <1>1, <2>1, FS_EmptySet
  <2> HIDE DEF Size
  <2> QED BY <1>1, <2>2
<1>3. Bad = {}
  <2> SUFFICES ASSUME Bad # {} PROVE FALSE
    OBVIOUS
  <2>1. PICK n \in Bad : \A k \in Bad : n <= k
    <3>1. Bad \subseteq Nat
      OBVIOUS
    <3> HIDE DEF Bad
    <3> QED BY <3>1, LeastNatural
  <2>2. PICK x \in G, y \in G : <<x, y>> \in R /\ Size(x, y) = n /\ ~(val[y] - val[x] <= step * n)
    BY <2>1
  <2>3. n \in Nat /\ n >= 1 /\ val[x] \in Int /\ val[y] \in Int /\ step * n \in Int
    BY <1>2, <2>2
  <2>4. PICK m \in G : <<x, m>> \in R /\ <<m, y>> \in R
    <3> SUFFICES ASSUME \A m \in G : ~(<<x, m>> \in R /\ <<m, y>> \in R) PROVE FALSE
      OBVIOUS
    <3>1. val[y] - val[x] <= step
      BY <2>2 DEF NextTo
    <3>2. step * 1 <= step * n
      BY <2>3, ProductMonotonic
    <3> QED BY <2>2, <2>3, <3>1, <3>2
  <2> DEFINE j == Size(x, m)
             k == Size(m, y)
  <2>5. j + k = n
    <3>1. UpTo(R, G, x, y) = UpTo(R, G, x, m) \cup UpTo(R, G, m, y)
      BY <2>2, <2>4 DEF UpTo, IsOrder
    <3>2. UpTo(R, G, x, m) \cap UpTo(R, G, m, y) = {}
      BY <2>2, <2>4 DEF UpTo, IsOrder
    <3>3. /\ IsFiniteSet(UpTo(R, G, x, m)) /\ IsFiniteSet(UpTo(R, G, m, y))
      BY <1>1
    <3>4. Cardinality(UpTo(R, G, x, m) \cup UpTo(R, G, m, y))
            = j + k - Cardinality(UpTo(R, G, x, m) \cap UpTo(R, G, m, y))
      BY <3>3, FS_Union
    <3>5. Cardinality(UpTo(R, G, x, m) \cap UpTo(R, G, m, y)) = 0
      BY <3>2, FS_EmptySet
    <3>6. j \in Nat /\ k \in Nat
      BY <1>1
    <3>7. n = Cardinality(UpTo(R, G, x, m) \cup UpTo(R, G, m, y))
      BY <2>2, <3>1
    <3> HIDE DEF j, k
    <3> QED BY <3>4, <3>5, <3>6, <3>7
  <2>6. j \in Nat /\ k \in Nat /\ j >= 1 /\ k >= 1
    BY <1>1, <1>2, <2>4
  <2>7. j \notin Bad /\ k \notin Bad
    <3> HIDE DEF j, k, Bad
    <3> QED BY <2>1, <2>3, <2>5, <2>6
  <2>8. val[m] - val[x] <= step * j /\ val[y] - val[m] <= step * k
    BY <2>4, <2>6, <2>7
  <2>9. step * n = step * j + step * k /\ step * j \in Int /\ step * k \in Int /\ val[m] \in Int
    <3> HIDE DEF j, k
    <3> QED BY <2>5, <2>6
  <2> HIDE DEF j, k
  <2> QED BY <2>2, <2>3, <2>8, <2>9
<1> SUFFICES ASSUME NEW x \in G, NEW y \in G, <<x, y>> \in R
             PROVE  val[y] - val[x] <= step * (Cardinality(G) - 1)
  OBVIOUS
<1>4. val[y] - val[x] <= step * Size(x, y)
  BY <1>1, <1>3
<1>5. Size(x, y) <= Cardinality(G) - 1 /\ Cardinality(G) - 1 \in Nat
  <2>1. UpTo(R, G, x, y) \subseteq G \ {x}
    BY DEF UpTo, IsOrder
  <2>2. IsFiniteSet(G \ {x}) /\ Cardinality(G \ {x}) = Cardinality(G) - 1 /\ Cardinality(G \ {x}) \in Nat
    BY FS_RemoveElement, FS_CardinalityType
  <2>3. Size(x, y) <= Cardinality(G \ {x})
    BY <2>1, <2>2, CardinalityShrinks
  <2> QED BY <2>2, <2>3
<1>6. step * Size(x, y) <= step * (Cardinality(G) - 1)
  BY <1>1, <1>5, ProductMonotonic
<1>7. val[x] \in Int /\ val[y] \in Int /\ step * Size(x, y) \in Int /\ step * (Cardinality(G) - 1) \in Int
  <2>1. Size(x, y) \in Nat
    BY <1>1
  <2> HIDE DEF Size
  <2> QED BY <1>5, <2>1
<1> HIDE DEF Size
<1> QED BY <1>4, <1>6, <1>7

\* The image of a finite set under a function.
LEMMA ImageFinite ==
    ASSUME NEW S, IsFiniteSet(S), NEW f
    PROVE  /\ IsFiniteSet({f[x] : x \in S})
           /\ Cardinality({f[x] : x \in S}) \in Nat /\ Cardinality({f[x] : x \in S}) <= Cardinality(S)
<1> DEFINE T == {f[x] : x \in S}
           g == [x \in S |-> f[x]]
<1>1. g \in Surjection(S, T)
  BY DEF Surjection
<1>2. IsFiniteSet(T) /\ Cardinality(T) <= Cardinality(S)
  BY <1>1, FS_Surjection
<1> QED BY <1>2, FS_CardinalityType

\* A finite set of integers has a greatest member.
LEMMA GreatestOf ==
    ASSUME NEW S \in SUBSET Int, IsFiniteSet(S), S # {}
    PROVE  \E h \in S : \A k \in S : k <= h
<1> DEFINE Good == {s \in SUBSET S : s # {} => \E h \in s : \A k \in s : k <= h}
<1>1. {} \in Good
  OBVIOUS
<1>2. ASSUME NEW s \in SUBSET S, s # {}, \A x \in s : s \ {x} \in Good PROVE s \in Good
  <2>1. PICK x \in s : TRUE
    BY <1>2
  <2>2. CASE s = {x}
    BY <2>1, <2>2
  <2>3. CASE s # {x}
    <3>1. PICK h \in s \ {x} : \A k \in s \ {x} : k <= h
      BY <1>2, <2>1, <2>3
    <3>2. CASE x <= h
      BY <3>1, <3>2
    <3>3. CASE ~(x <= h)
      <4>1. \A k \in s : k \in Int /\ k <= x
        BY <3>1, <3>3
      <4> QED BY <2>1, <4>1
    <3> QED BY <3>2, <3>3
  <2> QED BY <2>2, <2>3
<1>3. SUBSET S \subseteq Good
  <2> HIDE DEF Good
  <2> QED BY <1>1, <1>2, SubsetInduction
<1> QED BY <1>3

\* A nonempty finite set has a member of the greatest value.
LEMMA Dearest ==
    ASSUME NEW S, IsFiniteSet(S), S # {}, NEW f, \A x \in S : f[x] \in Int
    PROVE  \E x \in S : \A y \in S : f[y] <= f[x]
<1> DEFINE T == {f[x] : x \in S}
<1>1. T \subseteq Int /\ T # {}
  OBVIOUS
<1>2. IsFiniteSet(T)
  BY ImageFinite
<1>3. PICK h \in T : \A k \in T : k <= h
  <2> HIDE DEF T
  <2> QED BY <1>1, <1>2, GreatestOf
<1> QED BY <1>3

\* A finite set in some order.
LEMMA SetEnumerated ==
    ASSUME NEW S, IsFiniteSet(S)
    PROVE  SetToSeq(S) \in Seq(S) /\ IsInjective(SetToSeq(S))
<1>1. ExistsBijection(1 .. Cardinality(S), S) /\ Cardinality(S) \in Nat
  BY FS_CardinalityType
<1>2. \E f \in [1 .. Cardinality(S) -> S] : IsInjective(f)
  BY <1>1 DEF ExistsBijection, Bijection, Injection
<1>3. SetToSeq(S) \in [1 .. Cardinality(S) -> S] /\ IsInjective(SetToSeq(S))
  BY <1>2 DEF SetToSeq
<1> QED BY <1>1, <1>3

-----------------------------------------------------------------------------
(* Parts of a sequence *)

\* v is made of members of s, at indexes of the set up to n, in order.
KeptBy(pos, v, s, indexes, n) ==
    /\ pos \in [1 .. Len(v) -> 1 .. n]
    /\ \A j \in 1 .. Len(v) : v[j] = s[pos[j]] /\ pos[j] \in indexes
    /\ \A j, k \in 1 .. Len(v) : j < k => pos[j] < pos[k]
KeptFrom(v, s, indexes, n) == \E pos : KeptBy(pos, v, s, indexes, n)

LEMMA OneMoreKept ==
    ASSUME NEW S, NEW s \in Seq(S), NEW indexes, NEW n \in 1 .. Len(s), NEW v \in Seq(S),
           KeptFrom(v, s, indexes, n - 1)
    PROVE  /\ KeptFrom(v, s, indexes, n)
           /\ n \in indexes => KeptFrom(Append(v, s[n]), s, indexes, n)
<1>1. PICK pos : KeptBy(pos, v, s, indexes, n - 1)
  BY DEF KeptFrom
<1>2. n \in Nat /\ Len(v) \in Nat
  OBVIOUS
<1>3. KeptFrom(v, s, indexes, n)
  <2>1. pos \in [1 .. Len(v) -> 1 .. n]
    BY <1>1, <1>2 DEF KeptBy
  <2> QED BY <1>1, <2>1 DEF KeptFrom, KeptBy
<1>4. ASSUME n \in indexes PROVE KeptFrom(Append(v, s[n]), s, indexes, n)
  <2> DEFINE L == Len(v)
             w == Append(v, s[n])
             more == [j \in 1 .. L + 1 |-> IF j = L + 1 THEN n ELSE pos[j]]
  <2>1. s[n] \in S
    OBVIOUS
  <2>2. Len(w) = L + 1 /\ w[L + 1] = s[n] /\ \A j \in 1 .. L : w[j] = v[j]
    BY <2>1
  <2>3. \A j \in 1 .. L : pos[j] \in 1 .. n - 1
    BY <1>1 DEF KeptBy
  <2>4. more \in [1 .. L + 1 -> 1 .. n]
    BY <1>2, <2>3
  <2>5. more[L + 1] = n /\ \A j \in 1 .. L : more[j] = pos[j] /\ more[j] < n
    BY <1>2, <2>3
  <2>6. \A j \in 1 .. L + 1 : j = L + 1 \/ j \in 1 .. L
    BY <1>2
  <2> HIDE DEF w, more
  <2>7. \A j \in 1 .. L + 1 : w[j] = s[more[j]] /\ more[j] \in indexes
    BY <1>1, <1>4, <2>2, <2>5, <2>6 DEF KeptBy
  <2>8. \A j, k \in 1 .. L + 1 : j < k => more[j] < more[k]
    <3> SUFFICES ASSUME NEW j \in 1 .. L + 1, NEW k \in 1 .. L + 1, j < k PROVE more[j] < more[k]
      OBVIOUS
    <3>1. j \in 1 .. L
      BY <1>2
    <3>2. CASE k = L + 1
      BY <2>5, <3>1, <3>2
    <3>3. CASE k \in 1 .. L
      BY <1>1, <2>5, <3>1, <3>3 DEF KeptBy
    <3> QED BY <2>6, <3>2, <3>3
  <2> QED BY <2>2, <2>4, <2>7, <2>8 DEF KeptFrom, KeptBy, w
<1> QED BY <1>3, <1>4

\* The members at some indexes: of the sequence, at those indexes, in order.
LEMMA MembersKept ==
    ASSUME NEW S, NEW s \in Seq(S), NEW indexes
    PROVE  MembersAt(s, indexes) \in Seq(S) /\ KeptFrom(MembersAt(s, indexes), s, indexes, Len(s))
<1> DEFINE N == Len(s)
           V == Seq(S)
           Body(f) == [n \in 0 .. N |->
                          IF n = 0 THEN <<>>
                          ELSE IF n \in indexes THEN Append(f[n - 1], s[n]) ELSE f[n - 1]]
           taken == CHOOSE f : f = Body(f)
           step == [p \in (1 .. N) \X V |-> IF p[1] \in indexes THEN Append(p[2], s[p[1]]) ELSE p[2]]
<1>1. N \in Nat /\ \A n \in 1 .. N : s[n] \in S
  OBVIOUS
<1>2. taken = Body(taken)
  <2>1. step \in [(1 .. N) \X V -> V] /\ <<>> \in V
    BY <1>1
  <2>2. \A n \in 1 .. N, v \in V : step[<<n, v>>] = IF n \in indexes THEN Append(v, s[n]) ELSE v
    OBVIOUS
  <2> DEFINE base == <<>>
  <2> HIDE DEF V, step, N, base
  <2>3. base \in V
    BY <2>1 DEF base
  <2>4. PICK f : IsRecursion(f, N, V, base, step)
    <3>1. N \in Nat /\ IsStep(step, N, V)
      BY <1>1, <2>1 DEF IsStep
    <3> QED BY <2>3, <3>1, RecursionExists
  <2>5. f[0] = <<>> /\ f \in [0 .. N -> V] /\ \A n \in 1 .. N : f[n] = step[<<n, f[n - 1]>>]
    BY <2>4 DEF base, IsRecursion
  <2>6. ASSUME NEW n \in 0 .. N PROVE f[n] = Body(f)[n]
    <3>1. CASE n = 0
      BY <2>5, <3>1
    <3>2. CASE n # 0
      <4>1. n \in 1 .. N /\ n - 1 \in 0 .. N
        BY <1>1, <3>2
      <4>2. f[n - 1] \in V
        BY <2>5, <4>1
      <4> QED BY <2>2, <2>5, <3>2, <4>1, <4>2
    <3> QED BY <3>1, <3>2
  <2>7. f = Body(f)
    BY <2>5, <2>6
  <2> HIDE DEF Body
  <2> QED BY <2>7
<1>3. /\ taken[0] = <<>>
      /\ \A n \in 1 .. N : taken[n] = IF n \in indexes THEN Append(taken[n - 1], s[n]) ELSE taken[n - 1]
  <2> HIDE DEF taken, N
  <2>1. 0 \in 0 .. N /\ \A n \in 1 .. N : n \in 0 .. N /\ n # 0
    BY <1>1
  <2>2. \A n \in 0 .. N : taken[n] = Body(taken)[n]
    BY <1>2, Zenon
  <2> QED BY <2>1, <2>2
<1> DEFINE Good == {n \in 0 .. N : taken[n] \in V /\ KeptFrom(taken[n], s, indexes, n)}
<1> HIDE DEF taken
<1>4. 0 \in Good
  <2> DEFINE none == [j \in 1 .. Len(<<>>) |-> 0]
  <2>1. Len(<<>>) = 0 /\ 1 .. 0 = {} /\ <<>> \in V
    OBVIOUS
  <2>2. KeptBy(none, <<>>, s, indexes, 0)
    BY <2>1 DEF KeptBy
  <2> HIDE DEF none
  <2>3. KeptFrom(<<>>, s, indexes, 0)
    BY <2>2 DEF KeptFrom
  <2>4. taken[0] \in V /\ KeptFrom(taken[0], s, indexes, 0) /\ 0 \in 0 .. N
    <3> HIDE DEF N
    <3> QED BY <1>1, <1>3, <2>1, <2>3
  <2> QED BY <2>4
<1>5. ASSUME NEW n \in 1 .. N, n - 1 \in Good PROVE n \in Good
  <2> DEFINE v == taken[n - 1]
  <2>1. v \in V /\ KeptFrom(v, s, indexes, n - 1)
    BY <1>5
  <2>2. taken[n] = (IF n \in indexes THEN Append(v, s[n]) ELSE v) /\ n \in 0 .. N /\ s[n] \in S
    BY <1>1, <1>3
  <2> HIDE DEF v
  <2>3. KeptFrom(v, s, indexes, n) /\ (n \in indexes => KeptFrom(Append(v, s[n]), s, indexes, n))
    BY <2>1, OneMoreKept
  <2>4. taken[n] \in V /\ KeptFrom(taken[n], s, indexes, n)
    <3>1. CASE n \in indexes
      <4>1. Append(v, s[n]) \in V
        BY <2>1, <2>2
      <4> QED BY <2>2, <2>3, <3>1, <4>1
    <3>2. CASE n \notin indexes
      BY <2>1, <2>2, <2>3, <3>2
    <3> QED BY <3>1, <3>2
  <2> QED BY <2>2, <2>4
<1>6. N \in Good
  <2> HIDE DEF Good
  <2>1. 0 .. N \subseteq Good
    BY <1>1, <1>4, <1>5, UpToInduction
  <2> QED BY <1>1, <2>1
<1>7. MembersAt(s, indexes) = taken[N]
  BY DEF MembersAt, taken
<1> QED BY <1>6, <1>7

\* No more is kept than there was.
LEMMA NoMoreKept ==
    ASSUME NEW S, NEW s \in Seq(S), NEW indexes
    PROVE  /\ MembersAt(s, indexes) \in Seq(S) /\ Len(MembersAt(s, indexes)) <= Len(s)
           /\ \A j \in DOMAIN MembersAt(s, indexes) :
                 \E i \in DOMAIN s \cap indexes : MembersAt(s, indexes)[j] = s[i]
<1> DEFINE v == MembersAt(s, indexes)
           N == Len(s)
           L == Len(v)
<1>1. v \in Seq(S) /\ KeptFrom(v, s, indexes, N)
  BY MembersKept
<1> HIDE DEF v
<1>2. N \in Nat /\ L \in Nat /\ DOMAIN s = 1 .. N /\ DOMAIN v = 1 .. L
  BY <1>1
<1>3. PICK pos : /\ pos \in [1 .. L -> 1 .. N]
                 /\ \A j \in 1 .. L : v[j] = s[pos[j]] /\ pos[j] \in indexes
                 /\ \A j, k \in 1 .. L : j < k => pos[j] < pos[k]
  BY <1>1 DEF KeptFrom, KeptBy
<1> HIDE DEF L, N
<1>4. \A j, k \in 1 .. L : j # k => pos[j] # pos[k]
  <2> SUFFICES ASSUME NEW j \in 1 .. L, NEW k \in 1 .. L, j # k PROVE pos[j] # pos[k]
    OBVIOUS
  <2>1. pos[j] \in 1 .. N /\ pos[k] \in 1 .. N /\ (j < k \/ k < j)
    BY <1>2, <1>3
  <2> QED BY <1>2, <1>3, <2>1
<1>5. L <= N
  <2>1. pos \in Injection(1 .. L, 1 .. N)
    BY <1>3, <1>4 DEF Injection, IsInjective
  <2>2. /\ IsFiniteSet(1 .. N) /\ Cardinality(1 .. N) = N
        /\ IsFiniteSet(1 .. L) /\ Cardinality(1 .. L) = L
    <3>1. \A n \in Nat : IsFiniteSet(1 .. n) /\ Cardinality(1 .. n) = n
      BY FS_Interval
    <3> QED BY <1>2, <3>1
  <2>3. Cardinality(1 .. L) <= Cardinality(1 .. N)
    BY <2>1, <2>2, FS_Injection
  <2> QED BY <2>2, <2>3
<1>6. ASSUME NEW j \in 1 .. L PROVE \E i \in DOMAIN s \cap indexes : v[j] = s[i]
  <2>1. pos[j] \in DOMAIN s \cap indexes /\ v[j] = s[pos[j]]
    BY <1>2, <1>3
  <2> QED BY <2>1
<1> QED BY <1>1, <1>2, <1>5, <1>6 DEF v, L, N

\* A sequence without its first element.
LEMMA TailOf ==
    ASSUME NEW S, NEW s \in Seq(S), s # <<>>
    PROVE  /\ Tail(s) \in Seq(S) /\ Len(Tail(s)) = Len(s) - 1 /\ Len(s) \in Nat \ {0}
           /\ \A j \in 1 .. Len(s) - 1 : Tail(s)[j] = s[j + 1]
           /\ Head(s) \in S /\ Head(s) = s[1]
           /\ IsInjective(s) => IsInjective(Tail(s))
<1>1. /\ Tail(s) \in Seq(S) /\ Len(Tail(s)) = Len(s) - 1 /\ Len(s) \in Nat \ {0}
      /\ \A j \in 1 .. Len(s) - 1 : Tail(s)[j] = s[j + 1]
      /\ Head(s) \in S /\ Head(s) = s[1]
  OBVIOUS
<1>2. DOMAIN s = 1 .. Len(s) /\ DOMAIN Tail(s) = 1 .. Len(s) - 1
  BY <1>1
<1>3. ASSUME IsInjective(s), NEW a \in DOMAIN Tail(s), NEW b \in DOMAIN Tail(s), Tail(s)[a] = Tail(s)[b]
      PROVE  a = b
  <2>1. a + 1 \in DOMAIN s /\ b + 1 \in DOMAIN s /\ s[a + 1] = s[b + 1]
    BY <1>1, <1>2, <1>3
  <2>2. a + 1 = b + 1
    BY <1>3, <2>1 DEF IsInjective
  <2> QED BY <1>2, <2>2
<1>4. IsInjective(s) => IsInjective(Tail(s))
  BY <1>3 DEF IsInjective
<1> QED BY <1>1, <1>4
=============================================================================
