--------------------------- MODULE Operators_proofs ---------------------------
(***************************************************************************)
(* Lemmas about the operators the searches are built from, for the proofs  *)
(* of the modules that take steps with them.                               *)
(*                                                                         *)
(* Orders: the order of integer keys is total, so a finite set has a best  *)
(* element, and a sum of naturals is one.  RepeatWindows: the recurrence   *)
(* of the spacing totals has a solution in the natural numbers.            *)
(* AnchoredPath: whatever the limits prune, an option is a path the        *)
(* reference accepts, with the reference's own sum, bottleneck and         *)
(* guidance; and with limits that cut nothing the search is exact.         *)
(***************************************************************************)
EXTENDS AnchoredPath, FiniteSetTheorems, SequenceTheorems, WellFoundedInduction, TLAPS

LEMMA LeastNatural ==
  ASSUME NEW S \in SUBSET Nat, S # {}
  PROVE  \E m \in S : \A n \in S : m <= n
<1> DEFINE Smaller == {ss \in Nat \X Nat : ss[1] < ss[2]}
<1>1. IsWellFoundedOn(Smaller, Nat)
  BY NatLessThanWellFounded DEF OpToRel
<1>2. \A x, y \in Nat : <<y, x>> \in Smaller <=> y < x
  OBVIOUS
<1> HIDE DEF Smaller
<1>3. PICK m \in S : \A n \in S : ~(<<n, m>> \in Smaller)
  BY <1>1, WFMin
<1>4. ASSUME NEW n \in S PROVE m <= n
  <2>1. m \in Nat /\ n \in Nat /\ ~(<<n, m>> \in Smaller)
    BY <1>3
  <2>2. ~(n < m)
    BY <1>2, <2>1
  <2> QED
    BY <2>1, <2>2
<1> QED
  BY <1>4

-----------------------------------------------------------------------------
Keys(n) == [1..n -> Int]

LEMMA LexIrreflexive ==
  ASSUME NEW n \in Nat, NEW a \in Keys(n)
  PROVE  ~LexBefore(a, a)
  BY DEF Keys, LexBefore

LEMMA LexTransitive ==
  ASSUME NEW n \in Nat, NEW a \in Keys(n), NEW b \in Keys(n), NEW c \in Keys(n),
         LexBefore(a, b), LexBefore(b, c)
  PROVE  LexBefore(a, c)
<1>1. PICK i \in 1..n : a[i] < b[i] /\ \A j \in 1..(i - 1) : a[j] = b[j]
  BY DEF Keys, LexBefore
<1>2. PICK k \in 1..n : b[k] < c[k] /\ \A j \in 1..(k - 1) : b[j] = c[j]
  BY DEF Keys, LexBefore
<1>3. \A j \in 1..n : a[j] \in Int /\ b[j] \in Int /\ c[j] \in Int
  BY DEF Keys
<1>4. CASE i <= k
  <2>1. a[i] < c[i] /\ \A j \in 1..(i - 1) : a[j] = c[j]
    BY <1>1, <1>2, <1>3, <1>4
  <2> QED
    BY <2>1 DEF Keys, LexBefore
<1>5. CASE k < i
  <2>1. a[k] < c[k] /\ \A j \in 1..(k - 1) : a[j] = c[j]
    BY <1>1, <1>2, <1>3, <1>5
  <2> QED
    BY <2>1 DEF Keys, LexBefore
<1> QED
  BY <1>4, <1>5

\* Two different keys differ in a first place.
LEMMA LexTotal ==
  ASSUME NEW n \in Nat, NEW a \in Keys(n), NEW b \in Keys(n), a # b
  PROVE  LexBefore(a, b) \/ LexBefore(b, a)
<1> DEFINE Differ == {i \in 1..n : a[i] # b[i]}
<1>1. Differ # {} /\ Differ \in SUBSET Nat
  BY DEF Keys
<1>2. PICK i \in Differ : \A j \in Differ : i <= j
  BY <1>1, LeastNatural
<1>3. i \in 1..n /\ a[i] # b[i] /\ \A j \in 1..(i - 1) : a[j] = b[j]
  BY <1>2
<1>4. a[i] \in Int /\ b[i] \in Int
  BY <1>3 DEF Keys
<1>5. a[i] < b[i] \/ b[i] < a[i]
  BY <1>3, <1>4
<1> QED
  BY <1>3, <1>5 DEF Keys, LexBefore

\* What it means for a pair not to be beaten by another.
LEMMA PairNotBeaten ==
  ASSUME NEW a \in Keys(2), NEW b \in Keys(2), ~LexBefore(a, b)
  PROVE  b[1] < a[1] \/ (b[1] = a[1] /\ b[2] <= a[2])
<1>1. /\ a[1] \in Int /\ a[2] \in Int /\ b[1] \in Int /\ b[2] \in Int
      /\ 1 \in DOMAIN a \cap DOMAIN b /\ 2 \in DOMAIN a \cap DOMAIN b
  BY DEF Keys
<1>2. ASSUME a[1] < b[1] PROVE FALSE
  <2>1. \A j \in 1..(1 - 1) : a[j] = b[j]
    OBVIOUS
  <2> QED
    BY <1>1, <1>2, <2>1 DEF LexBefore
<1>3. ASSUME a[1] = b[1], a[2] < b[2] PROVE FALSE
  <2>1. \A j \in 1..(2 - 1) : a[j] = b[j]
    BY <1>3
  <2> QED
    BY <1>1, <1>3, <2>1 DEF LexBefore
<1> QED
  BY <1>1, <1>2, <1>3

\* The elements of S whose keys come before that of s.
Predecessors(S, key, s) == {t \in S : LexBefore(key[t], key[s])}

LEMMA FewerPredecessors ==
  ASSUME NEW S, IsFiniteSet(S), NEW n \in Nat, NEW key \in [S -> Keys(n)],
         NEW s \in S, NEW t \in S, LexBefore(key[t], key[s])
  PROVE  /\ Cardinality(Predecessors(S, key, s)) \in Nat
         /\ Cardinality(Predecessors(S, key, t)) \in Nat
         /\ Cardinality(Predecessors(S, key, t)) < Cardinality(Predecessors(S, key, s))
<1>1. Predecessors(S, key, t) \subseteq Predecessors(S, key, s)
  BY LexTransitive DEF Predecessors
<1>2. t \in Predecessors(S, key, s) /\ t \notin Predecessors(S, key, t)
  BY LexIrreflexive DEF Predecessors
<1>3. IsFiniteSet(Predecessors(S, key, s)) /\ IsFiniteSet(Predecessors(S, key, t))
  BY FS_Subset DEF Predecessors
<1> QED
  BY <1>1, <1>2, <1>3, FS_Subset, FS_CardinalityType

\* What Best chooses exists.
LEMMA BestExists ==
  ASSUME NEW S, IsFiniteSet(S), S # {}, NEW n \in Nat, NEW key \in [S -> Keys(n)]
  PROVE  \E s \in S : \A t \in S : ~LexBefore(key[t], key[s])
<1> DEFINE Counts == {Cardinality(Predecessors(S, key, s)) : s \in S}
<1>1. \A s \in S : Cardinality(Predecessors(S, key, s)) \in Nat
  BY FS_Subset, FS_CardinalityType DEF Predecessors
<1>2. Counts \in SUBSET Nat /\ Counts # {}
  BY <1>1
<1> HIDE DEF Counts
<1>3. PICK m \in Counts : \A k \in Counts : m <= k
  BY <1>2, LeastNatural
<1>4. PICK s \in S : m = Cardinality(Predecessors(S, key, s))
  BY <1>3 DEF Counts
<1>5. ASSUME NEW t \in S, LexBefore(key[t], key[s]) PROVE FALSE
  <2>1. Cardinality(Predecessors(S, key, t)) < m
    BY <1>4, <1>5, FewerPredecessors
  <2>2. m <= Cardinality(Predecessors(S, key, t))
    BY <1>3 DEF Counts
  <2> QED
    BY <1>1, <1>4, <2>1, <2>2
<1> QED
  BY <1>5

LEMMA MaximumExists ==
  ASSUME NEW S \in SUBSET Int, IsFiniteSet(S), S # {}
  PROVE  \E m \in S : \A n \in S : m >= n
<1> DEFINE key == [s \in S |-> [i \in 1..1 |-> 0 - s]]
<1>1. key \in [S -> Keys(1)]
  BY DEF Keys
<1>2. PICK m \in S : \A n \in S : ~LexBefore(key[n], key[m])
  BY <1>1, BestExists
<1>3. ASSUME NEW n \in S, m < n PROVE FALSE
  <2>1. key[n][1] < key[m][1] /\ 1 \in DOMAIN key[n] /\ 1 \in DOMAIN key[m]
    BY <1>3
  <2> QED
    BY <1>2, <2>1 DEF LexBefore
<1> QED
  BY <1>3

\* If all keys differ, the last of k + 1 elements has k before it.
LEMMA LastHasAllBefore ==
  ASSUME NEW S, IsFiniteSet(S), S # {}, NEW n \in Nat, NEW key \in [S -> Keys(n)],
         \A s, t \in S : key[s] = key[t] => s = t
  PROVE  \E s \in S : Cardinality(Predecessors(S, key, s)) = Cardinality(S) - 1
<1> DEFINE Counts == {Cardinality(Predecessors(S, key, s)) : s \in S}
<1>1. \A s \in S : Cardinality(Predecessors(S, key, s)) \in Nat
  BY FS_Subset, FS_CardinalityType DEF Predecessors
<1>2. Counts \in SUBSET Int /\ Counts # {}
  BY <1>1
<1>3. IsFiniteSet(Counts)
  <2> DEFINE count == [s \in S |-> Cardinality(Predecessors(S, key, s))]
  <2>1. count \in Surjection(S, Counts)
    BY DEF Surjection
  <2> QED
    BY <2>1, FS_Surjection
<1> HIDE DEF Counts
<1>4. PICK m \in Counts : \A k \in Counts : m >= k
  BY <1>2, <1>3, MaximumExists
<1>5. PICK s \in S : m = Cardinality(Predecessors(S, key, s))
  BY <1>4 DEF Counts
<1>6. ASSUME NEW t \in S \ {s} PROVE LexBefore(key[t], key[s])
  <2>1. ~LexBefore(key[s], key[t])
    <3> SUFFICES ASSUME LexBefore(key[s], key[t]) PROVE FALSE
      OBVIOUS
    <3>1. m < Cardinality(Predecessors(S, key, t))
      BY <1>5, FewerPredecessors
    <3>2. Cardinality(Predecessors(S, key, t)) <= m
      BY <1>1, <1>4, <1>5 DEF Counts
    <3> QED
      BY <1>1, <1>5, <3>1, <3>2
  <2> QED
    BY <2>1, LexTotal
<1>7. Predecessors(S, key, s) = S \ {s}
  BY <1>6, LexIrreflexive DEF Predecessors
<1> QED
  BY <1>7, FS_RemoveElement

\* What Least keeps, with the keys as a function.
Leading(S, n, key) == {s \in S : Cardinality(Predecessors(S, key, s)) < n}

\* A limit that is wide enough cuts nothing off.
LEMMA AllKept ==
  ASSUME NEW S, IsFiniteSet(S), NEW d \in Nat, NEW key \in [S -> Keys(d)],
         NEW n \in Nat, Cardinality(S) <= n
  PROVE  Leading(S, n, key) = S
<1> SUFFICES ASSUME NEW s \in S PROVE Cardinality(Predecessors(S, key, s)) < n
  BY DEF Leading
<1>1. Predecessors(S, key, s) \subseteq S \ {s}
  BY LexIrreflexive DEF Predecessors
<1>2. IsFiniteSet(S \ {s}) /\ Cardinality(S \ {s}) = Cardinality(S) - 1
  BY FS_RemoveElement
<1>3. /\ Cardinality(Predecessors(S, key, s)) <= Cardinality(S \ {s})
      /\ IsFiniteSet(Predecessors(S, key, s))
  BY <1>1, <1>2, FS_Subset
<1> QED
  BY <1>2, <1>3, FS_CardinalityType

\* To cut twice is to cut once, at the smaller limit.
LEMMA LeadingOfLeading ==
  ASSUME NEW S, IsFiniteSet(S), NEW d \in Nat, NEW key \in [S -> Keys(d)],
         NEW m \in Nat, NEW n \in Nat, n <= m
  PROVE  Leading(Leading(S, m, key), n, key) = Leading(S, n, key)
<1> DEFINE T == Leading(S, m, key)
<1>1. \A s \in S : Cardinality(Predecessors(S, key, s)) \in Nat
  BY FS_Subset, FS_CardinalityType DEF Predecessors
<1>2. ASSUME NEW s \in T PROVE Predecessors(T, key, s) = Predecessors(S, key, s)
  <2>1. s \in S /\ Cardinality(Predecessors(S, key, s)) < m /\ T \subseteq S
    BY DEF Leading
  <2>2. ASSUME NEW t \in Predecessors(S, key, s) PROVE t \in T
    <3>1. t \in S /\ LexBefore(key[t], key[s])
      BY DEF Predecessors
    <3>2. Cardinality(Predecessors(S, key, t)) < Cardinality(Predecessors(S, key, s))
      BY <2>1, <3>1, FewerPredecessors
    <3>3. Cardinality(Predecessors(S, key, t)) < m
      BY <1>1, <2>1, <3>1, <3>2
    <3> QED
      BY <3>1, <3>3 DEF Leading
  <2> HIDE DEF T
  <2> QED
    BY <2>1, <2>2 DEF Predecessors
<1>3. \A s \in S : Cardinality(Predecessors(S, key, s)) < n => s \in T
  BY <1>1 DEF Leading
<1>4. T \subseteq S
  BY DEF Leading
<1> HIDE DEF T
<1> SUFFICES Leading(T, n, key) = Leading(S, n, key)
  BY DEF T
<1> QED
  BY <1>2, <1>3, <1>4 DEF Leading

\* The sequences of one length over a finite set are finite in number.
LEMMA FiniteSequences ==
  ASSUME NEW S, IsFiniteSet(S), NEW n \in Nat
  PROVE  IsFiniteSet([1..n -> S])
<1> DEFINE Pairs == (1..n) \X S
           graph == [f \in [1..n -> S] |-> {<<i, f[i]>> : i \in 1..n}]
<1>1. IsFiniteSet(1..n)
  BY FS_Interval
<1>2. IsFiniteSet(Pairs)
  BY <1>1, FS_Product
<1>3. IsFiniteSet(SUBSET Pairs)
  <2> HIDE DEF Pairs
  <2> QED
    BY <1>2, FS_SUBSET
<1>4. graph \in [[1..n -> S] -> SUBSET Pairs]
  OBVIOUS
<1>5. ASSUME NEW f \in [1..n -> S], NEW g \in [1..n -> S], graph[f] = graph[g]
      PROVE  f = g
  <2>1. ASSUME NEW i \in 1..n PROVE f[i] = g[i]
    <3>1. <<i, f[i]>> \in graph[g]
      BY <1>5
    <3> QED
      BY <3>1
  <2> QED
    BY <2>1
<1> HIDE DEF graph, Pairs
<1>6. graph \in Injection([1..n -> S], SUBSET Pairs)
  BY <1>4, <1>5 DEF Injection, IsInjective
<1> QED
  BY <1>3, <1>6, FS_Injection

-----------------------------------------------------------------------------
AreSums(f, n, values) ==
  /\ f \in [0..n -> Int]
  /\ \A m \in 0..n : f[m] = IF m = 0 THEN 0 ELSE f[m - 1] + values[m]

\* The sums of the first values exist, for every number of values.
LEMMA SumsExist ==
  ASSUME NEW n \in Nat, NEW values \in [1..n -> Int]
  PROVE  \E f : AreSums(f, n, values)
<1> DEFINE Bad == {k \in 0..n : ~ \E f : AreSums(f, k, values)}
<1>1. ASSUME Bad # {} PROVE FALSE
  <2>1. Bad \in SUBSET Nat
    OBVIOUS
  <2> HIDE DEF Bad
  <2>2. PICK k \in Bad : \A j \in Bad : k <= j
    BY <1>1, <2>1, LeastNatural
  <2>3. k \in 0..n /\ ~ \E f : AreSums(f, k, values)
    BY DEF Bad
  <2>4. CASE k = 0
    <3>1. AreSums([m \in 0..0 |-> 0], 0, values)
      BY DEF AreSums
    <3> QED
      BY <2>3, <2>4, <3>1
  <2>5. CASE k # 0
    <3>1. k - 1 \in 0..n /\ ~(k <= k - 1)
      BY <2>3, <2>5
    <3>2. PICK f : AreSums(f, k - 1, values)
      BY <2>2, <3>1 DEF Bad
    <3> DEFINE g == [m \in 0..k |-> IF m = k THEN f[k - 1] + values[k] ELSE f[m]]
    <3>3. f[k - 1] \in Int /\ values[k] \in Int
      BY <2>3, <2>5, <3>2 DEF AreSums
    <3>4. g \in [0..k -> Int]
      BY <3>2, <3>3, <2>3 DEF AreSums
    <3>5. ASSUME NEW m \in 0..k
          PROVE  g[m] = IF m = 0 THEN 0 ELSE g[m - 1] + values[m]
      <4>1. CASE m = k
        <5>1. k - 1 \in 0..k /\ k - 1 # k /\ k \in 0..k
          BY <2>3, <2>5
        <5>2. g[k - 1] = f[k - 1] /\ g[k] = f[k - 1] + values[k]
          BY <5>1
        <5> QED
          BY <4>1, <5>2, <2>5
      <4>2. CASE m # k
        <5>1. m \in 0..(k - 1) /\ (m # 0 => m - 1 \in 0..k /\ m - 1 # k)
          BY <4>2, <2>3
        <5>2. g[m] = f[m] /\ (m # 0 => g[m - 1] = f[m - 1])
          BY <4>2, <5>1
        <5> QED
          BY <3>2, <5>1, <5>2 DEF AreSums
      <4> QED
        BY <4>1, <4>2
    <3> HIDE DEF g
    <3>6. AreSums(g, k, values)
      BY <3>4, <3>5 DEF AreSums
    <3> QED
      BY <2>3, <3>6
  <2> QED
    BY <2>4, <2>5
<1>2. n \in 0..n
  OBVIOUS
<1> QED
  BY <1>1, <1>2

\* Sums are the sums: what the recursive function of Orders computes.
LEMMA SumsAre ==
  ASSUME NEW n \in Nat, NEW values \in [1..n -> Int]
  PROVE  AreSums(Sums(values), n, values)
<1> DEFINE Computed(f) ==
      f = [m \in 0..n |-> IF m = 0 THEN 0 ELSE f[m - 1] + values[m]]
<1>1. Len(values) = n
  OBVIOUS
<1>2. Sums(values) = CHOOSE f : Computed(f)
  BY <1>1 DEF Sums
<1>3. PICK f : AreSums(f, n, values)
  BY SumsExist
<1>4. Computed(f)
  BY <1>3 DEF AreSums
<1> DEFINE h == Sums(values)
<1>5. Computed(h)
  BY <1>2, <1>4
<1> HIDE DEF h
<1>6. \A m \in 0..n : h[m] = IF m = 0 THEN 0 ELSE h[m - 1] + values[m]
  BY <1>5
<1> DEFINE Bad == {m \in 0..n : h[m] # f[m]}
<1>7. ASSUME Bad # {} PROVE FALSE
  <2>1. Bad \in SUBSET Nat
    OBVIOUS
  <2> HIDE DEF Bad
  <2>2. PICK m \in Bad : \A k \in Bad : m <= k
    BY <1>7, <2>1, LeastNatural
  <2>3. m \in 0..n /\ h[m] # f[m]
    BY DEF Bad
  <2>4. m # 0
    BY <1>3, <1>6, <2>3 DEF AreSums
  <2>5. m - 1 \in 0..n /\ ~(m <= m - 1)
    BY <2>3, <2>4
  <2>6. h[m - 1] = f[m - 1]
    BY <2>2, <2>5 DEF Bad
  <2> QED
    BY <1>3, <1>6, <2>3, <2>4, <2>6 DEF AreSums
<1>8. DOMAIN h = 0..n
  BY <1>5
<1>9. h \in [0..n -> Int]
  <2>1. \A m \in 0..n : h[m] \in Int
    BY <1>3, <1>7 DEF AreSums
  <2>2. h = [m \in 0..n |-> h[m]]
    BY <1>5
  <2> QED
    BY <2>1, <2>2
<1> QED
  BY <1>6, <1>9 DEF AreSums, h

\* Sums of the same first values are the same.
LEMMA SumsAgree ==
  ASSUME NEW n \in Nat, NEW k \in 0..n,
         NEW f, NEW values \in [1..n -> Int], AreSums(f, n, values),
         NEW g, NEW others \in [1..k -> Int], AreSums(g, k, others),
         \A m \in 1..k : values[m] = others[m]
  PROVE  f[k] = g[k]
<1> DEFINE Bad == {m \in 0..k : f[m] # g[m]}
<1>1. ASSUME Bad # {} PROVE FALSE
  <2>1. Bad \in SUBSET Nat
    OBVIOUS
  <2> HIDE DEF Bad
  <2>2. PICK m \in Bad : \A l \in Bad : m <= l
    BY <1>1, <2>1, LeastNatural
  <2>3. m \in 0..k /\ m \in 0..n /\ f[m] # g[m]
    BY DEF Bad
  <2>4. m # 0
    BY <2>3 DEF AreSums
  <2>5. m - 1 \in 0..k /\ ~(m <= m - 1) /\ m \in 1..k
    BY <2>3, <2>4
  <2>6. f[m - 1] = g[m - 1]
    BY <2>2, <2>5 DEF Bad
  <2> QED
    BY <2>3, <2>4, <2>5, <2>6 DEF AreSums
<1>2. k \in 0..k
  OBVIOUS
<1> QED
  BY <1>1, <1>2

LEMMA TotalOfNothing == Total(<<>>) = 0
<1>1. <<>> \in [1..0 -> Int] /\ Len(<<>>) = 0
  OBVIOUS
<1>2. AreSums(Sums(<<>>), 0, <<>>)
  BY <1>1, SumsAre
<1> QED
  BY <1>1, <1>2 DEF Total, AreSums

LEMMA TotalIsInt ==
  ASSUME NEW n \in Nat, NEW values \in [1..n -> Int]
  PROVE  Total(values) \in Int
<1>1. Len(values) = n /\ n \in 0..n
  OBVIOUS
<1> QED
  BY <1>1, SumsAre DEF Total, AreSums

LEMMA TotalOfAppend ==
  ASSUME NEW n \in Nat, NEW values \in [1..n -> Int], NEW more \in [1..(n + 1) -> Int],
         \A m \in 1..n : more[m] = values[m]
  PROVE  Total(more) = Total(values) + more[n + 1]
<1>1. Len(values) = n /\ Len(more) = n + 1 /\ n \in 0..(n + 1) /\ n + 1 \in 0..(n + 1)
  OBVIOUS
<1>2. AreSums(Sums(values), n, values) /\ AreSums(Sums(more), n + 1, more)
  BY SumsAre
<1>3. Sums(more)[n] = Sums(values)[n]
  <2> DEFINE k == n + 1
             f == Sums(more)
             g == Sums(values)
  <2>1. /\ k \in Nat /\ n \in 0..k /\ more \in [1..k -> Int]
        /\ AreSums(f, k, more) /\ AreSums(g, n, values)
    BY <1>2
  <2> HIDE DEF k, f, g
  <2>2. f[n] = g[n]
    BY <2>1, SumsAgree
  <2> QED
    BY <2>2 DEF f, g
<1>4. Sums(more)[n + 1] = Sums(more)[n] + more[n + 1]
  <2>1. n + 1 # 0 /\ (n + 1) - 1 = n
    OBVIOUS
  <2> QED
    BY <1>1, <1>2, <2>1 DEF AreSums
<1> QED
  BY <1>1, <1>3, <1>4 DEF Total

LEMMA TotalIsNat ==
  ASSUME NEW n \in Nat, NEW values \in [1..n -> Nat]
  PROVE  Total(values) \in Nat
<1> DEFINE h == Sums(values)
<1>1. Len(values) = n /\ values \in [1..n -> Int] /\ n \in 0..n
  OBVIOUS
<1>2. AreSums(h, n, values)
  BY <1>1, SumsAre
<1> HIDE DEF h
<1> DEFINE Bad == {m \in 0..n : h[m] \notin Nat}
<1>3. ASSUME Bad # {} PROVE FALSE
  <2>1. Bad \in SUBSET Nat
    OBVIOUS
  <2> HIDE DEF Bad
  <2>2. PICK m \in Bad : \A k \in Bad : m <= k
    BY <1>3, <2>1, LeastNatural
  <2>3. m \in 0..n /\ h[m] \notin Nat
    BY DEF Bad
  <2>4. m # 0
    BY <1>2, <2>3 DEF AreSums
  <2>5. m - 1 \in 0..n /\ ~(m <= m - 1) /\ m \in 1..n
    BY <2>3, <2>4
  <2>6. h[m - 1] \in Nat
    BY <2>2, <2>5 DEF Bad
  <2>7. h[m] = h[m - 1] + values[m]
    BY <1>2, <2>3, <2>4 DEF AreSums
  <2> QED
    BY <2>3, <2>5, <2>6, <2>7
<1> QED
  BY <1>1, <1>3 DEF Total, h

-----------------------------------------------------------------------------
\* A request that passed the validation.
Admitted(req) == IsRequest(req) /\ ValidRequest(req)

LEMMA Concatenated ==
  ASSUME NEW S, NEW a \in Seq(S), NEW b \in Seq(S)
  PROVE  /\ a \o b \in Seq(S)
         /\ Len(a) \in Nat /\ Len(b) \in Nat /\ Len(a \o b) = Len(a) + Len(b)
         /\ \A i \in 1..Len(a) : (a \o b)[i] = a[i]
         /\ \A i \in 1..Len(b) : (a \o b)[Len(a) + i] = b[i]
<1>1. Len(a) \in Nat /\ Len(b) \in Nat /\ Len(a \o b) = Len(a) + Len(b)
  OBVIOUS
<1>2. \A i \in 1..Len(a) : (a \o b)[i] = a[i]
  BY <1>1
<1>3. \A i \in 1..Len(b) : (a \o b)[Len(a) + i] = b[i]
  BY <1>1
<1> QED
  BY <1>1, <1>2, <1>3

\* What the validation leaves to rely on.
LEMMA AdmittedFacts ==
  ASSUME NEW req, Admitted(req)
  PROVE  /\ RepeatPrefix(req) \in Seq(Nat) /\ req.prefix \in Seq(Nat)
         /\ Len(req.prefix) \in Nat /\ Len(req.prefix) >= 1
         /\ req.prefix[Len(req.prefix)] = req.left
         /\ Len(RepeatPrefix(req)) \in Nat /\ Len(RepeatPrefix(req)) >= 1
         /\ RepeatPrefix(req)[Len(RepeatPrefix(req))] = req.left
         /\ req.left \in DOMAIN req.tracks /\ req.right \in DOMAIN req.tracks
         /\ req.left \in Nat /\ req.right \in Nat
         /\ Available(req) \subseteq DOMAIN req.candidates
         /\ Available(req) \subseteq DOMAIN req.tracks
         /\ Available(req) \subseteq Nat /\ IsFiniteSet(Available(req))
         /\ Cardinality(Available(req)) \in Nat
<1>1. /\ req.history \in Seq(Nat) /\ req.prefix \in Seq(Nat)
      /\ req.left \in Nat /\ req.right \in Nat
      /\ DOMAIN req.candidates \subseteq Nat /\ IsFiniteSet(DOMAIN req.candidates)
  BY DEF Admitted, IsRequest
<1>2. /\ req.prefix # <<>> /\ Last(req.prefix) = req.left
      /\ req.left \in DOMAIN req.tracks /\ req.right \in DOMAIN req.tracks
      /\ DOMAIN req.candidates \subseteq DOMAIN req.tracks
  BY DEF Admitted, ValidRequest
<1>3. Len(req.prefix) \in Nat /\ Len(req.prefix) >= 1
  BY <1>1, <1>2
<1>4. req.prefix[Len(req.prefix)] = req.left
  BY <1>2 DEF Last
<1>5. /\ RepeatPrefix(req) \in Seq(Nat)
      /\ Len(RepeatPrefix(req)) = Len(req.history) + Len(req.prefix)
      /\ Len(req.history) \in Nat
  BY <1>1 DEF RepeatPrefix
<1>6. RepeatPrefix(req)[Len(RepeatPrefix(req))] = req.left
  <2>1. Len(req.prefix) \in 1..Len(req.prefix)
    BY <1>3
  <2>2. (req.history \o req.prefix)[Len(req.history) + Len(req.prefix)]
          = req.prefix[Len(req.prefix)]
    BY <1>1, <2>1, Concatenated
  <2> QED
    BY <1>4, <1>5, <2>2 DEF RepeatPrefix
<1>7. Available(req) \subseteq DOMAIN req.candidates
  BY DEF Available
<1>8. IsFiniteSet(Available(req)) /\ Cardinality(Available(req)) \in Nat
  BY <1>1, <1>7, FS_Subset, FS_CardinalityType
<1>9. Len(RepeatPrefix(req)) \in Nat /\ Len(RepeatPrefix(req)) >= 1
  <2>1. /\ Len(RepeatPrefix(req)) = Len(req.history) + Len(req.prefix)
        /\ Len(req.history) \in Nat /\ Len(req.prefix) \in Nat /\ Len(req.prefix) >= 1
    BY <1>3, <1>5
  <2>2. ASSUME NEW a \in Nat, NEW b \in Nat, b >= 1 PROVE a + b \in Nat /\ a + b >= 1
    BY <2>2
  <2> QED
    BY <2>1, <2>2
<1>10. Available(req) \subseteq DOMAIN req.tracks /\ Available(req) \subseteq Nat
  BY <1>1, <1>2, <1>7
<1>11. RepeatPrefix(req) \in Seq(Nat) /\ req.prefix \in Seq(Nat)
  BY <1>1, <1>5
<1>12. /\ req.left \in DOMAIN req.tracks /\ req.right \in DOMAIN req.tracks
       /\ req.left \in Nat /\ req.right \in Nat
  BY <1>1, <1>2
<1> QED
  BY <1>3, <1>4, <1>6, <1>7, <1>8, <1>9, <1>10, <1>11, <1>12

-----------------------------------------------------------------------------
\* Where leg i of a path begins, and the legs up to the last intermediate.
LegStart(req, path, i) == IF i = 1 THEN req.left ELSE path[i - 1]

LegsTo(req, path) ==
  [i \in 1..Len(path) |-> req.distance[<<LegStart(req, path, i), path[i]>>]]

Guided(req, path) == [i \in DOMAIN path |-> req.candidates[path[i]]]

IsBottleneck(worst, legs) ==
  /\ worst \in Nat
  /\ \A i \in DOMAIN legs : worst >= legs[i]
  /\ worst = 0 \/ \E i \in DOMAIN legs : worst = legs[i]

\* What a state of layer k is.
PartialPath(req, k, s) ==
  /\ s.intermediates \in Paths(req, k)
  /\ LegsTo(req, s.intermediates) \in [1..k -> Nat]
  /\ s.sum = Total(LegsTo(req, s.intermediates))
  /\ IsBottleneck(s.worst, LegsTo(req, s.intermediates))
  /\ s.guidance = Total(Guided(req, s.intermediates))

LEMMA EmptyIsPartial ==
  ASSUME NEW req PROVE PartialPath(req, 0, EmptyPath)
<1>1. <<>> \in [1..0 -> Available(req)] /\ IsInjective(<<>>)
  BY DEF IsInjective
<1>2. LegsTo(req, <<>>) = <<>> /\ Guided(req, <<>>) = <<>> /\ <<>> \in [1..0 -> Nat]
  BY DEF LegsTo, Guided
<1>3. IsBottleneck(0, <<>>)
  BY DEF IsBottleneck
<1> QED
  BY <1>1, <1>2, <1>3, TotalOfNothing DEF PartialPath, EmptyPath, Paths

LEMMA LastOfPath ==
  ASSUME NEW req, Admitted(req), NEW k \in Nat, NEW path \in [1..k -> Nat]
  PROVE  /\ Last(req.prefix \o path) = LegStart(req, path, k + 1)
         /\ Last(RepeatPrefix(req) \o path) = LegStart(req, path, k + 1)
<1>1. path \in Seq(Nat) /\ Len(path) = k
  OBVIOUS
<1>2. ASSUME NEW before \in Seq(Nat), Len(before) >= 1,
             before[Len(before)] = req.left
      PROVE  Last(before \o path) = LegStart(req, path, k + 1)
  <2>1. Len(before \o path) = Len(before) + k /\ Len(before) \in Nat
    BY <1>1, SMTT(20)
  <2>2. CASE k = 0
    BY <1>1, <1>2, <2>1, <2>2 DEF Last, LegStart
  <2>3. CASE k # 0
    <3>1. (before \o path)[Len(before) + k] = path[k]
      BY <1>1, <2>1, <2>3
    <3> QED
      BY <2>1, <2>3, <3>1 DEF Last, LegStart
  <2> QED
    BY <2>2, <2>3
<1> QED
  BY <1>2, AdmittedFacts

\* The path of a state and one more candidate.
LEMMA LongerPath ==
  ASSUME NEW req, Admitted(req), NEW k \in Nat, NEW path \in Paths(req, k),
         NEW c \in Available(req), c \notin Elements(path)
  PROVE  /\ Append(path, c) \in Paths(req, k + 1)
         /\ Len(path) = k /\ path \in [1..k -> Nat] /\ path \in Seq(Nat)
         /\ Append(path, c)[k + 1] = c
         /\ \A i \in 1..k : Append(path, c)[i] = path[i]
<1>1. path \in [1..k -> Available(req)] /\ IsInjective(path)
  BY DEF Paths
<1>2. path \in Seq(Available(req)) /\ Len(path) = k
  BY <1>1
<1>3. /\ Append(path, c) \in [1..(k + 1) -> Available(req)]
      /\ Append(path, c)[k + 1] = c
      /\ \A i \in 1..k : Append(path, c)[i] = path[i]
  <2>1. /\ Append(path, c) \in Seq(Available(req)) /\ Len(Append(path, c)) = k + 1
    BY <1>2, AppendProperties
  <2>2. Append(path, c)[k + 1] = c /\ \A i \in 1..k : Append(path, c)[i] = path[i]
    BY <1>2, AppendProperties
  <2> QED
    BY <2>1, <2>2, LenProperties
<1>4. \A i \in 1..k : path[i] # c
  BY <1>1 DEF Elements
<1>5. IsInjective(Append(path, c))
  <2> SUFFICES ASSUME NEW i \in 1..(k + 1), NEW j \in 1..(k + 1),
                      Append(path, c)[i] = Append(path, c)[j]
               PROVE  i = j
    BY <1>3 DEF IsInjective
  <2>1. \A a, b \in 1..k : path[a] = path[b] => a = b
    BY <1>1 DEF IsInjective
  <2> QED
    BY <1>3, <1>4, <2>1
<1>6. path \in [1..k -> Nat] /\ path \in Seq(Nat)
  BY <1>1, AdmittedFacts
<1> QED
  BY <1>2, <1>3, <1>5, <1>6 DEF Paths

\* Taking one more leg: the sum grows by it and the bottleneck is the larger.
LEMMA OneMoreLeg ==
  ASSUME NEW k \in Nat, NEW legs \in [1..k -> Nat], NEW more \in [1..(k + 1) -> Nat],
         \A i \in 1..k : more[i] = legs[i],
         NEW worst, IsBottleneck(worst, legs)
  PROVE  /\ Total(more) = Total(legs) + more[k + 1]
         /\ IsBottleneck(Larger(worst, more[k + 1]), more)
         /\ \E i \in DOMAIN more : Larger(worst, more[k + 1]) = more[i]
<1>1. legs \in [1..k -> Int] /\ more \in [1..(k + 1) -> Int]
  OBVIOUS
<1>2. worst \in Nat /\ more[k + 1] \in Nat /\ k + 1 \in 1..(k + 1)
  BY DEF IsBottleneck
<1>3. \A i \in 1..(k + 1) : Larger(worst, more[k + 1]) >= more[i]
  <2> SUFFICES ASSUME NEW i \in 1..(k + 1) PROVE Larger(worst, more[k + 1]) >= more[i]
    OBVIOUS
  <2>1. CASE i = k + 1
    BY <1>2, <2>1 DEF Larger
  <2>2. CASE i # k + 1
    <3>1. i \in 1..k /\ more[i] = legs[i] /\ legs[i] \in Nat /\ worst >= legs[i]
      BY <2>2 DEF IsBottleneck
    <3> QED
      BY <1>2, <3>1 DEF Larger
  <2> QED
    BY <2>1, <2>2
<1>4. \E i \in 1..(k + 1) : Larger(worst, more[k + 1]) = more[i]
  <2>1. CASE more[k + 1] >= worst
    BY <1>2, <2>1 DEF Larger
  <2>2. CASE ~(more[k + 1] >= worst)
    <3>1. worst # 0
      BY <1>2, <2>2
    <3>2. PICK i \in 1..k : worst = legs[i]
      BY <3>1 DEF IsBottleneck
    <3> QED
      BY <1>2, <2>2, <3>2 DEF Larger
  <2> QED
    BY <2>1, <2>2
<1> QED
  BY <1>1, <1>2, <1>3, <1>4, TotalOfAppend DEF IsBottleneck, Larger

\* What one more candidate adds to the legs and to the guidance.
LEMMA LongerLegs ==
  ASSUME NEW req, Admitted(req), NEW k \in Nat, NEW path \in Paths(req, k),
         NEW c \in Available(req), c \notin Elements(path)
  PROVE  LET longer == Append(path, c)
             edge == req.distance[<<LegStart(req, path, k + 1), c>>]
         IN /\ edge \in Nat \cup {Unreachable}
            /\ DOMAIN LegsTo(req, longer) = 1..(k + 1)
            /\ LegsTo(req, longer)[k + 1] = edge
            /\ DOMAIN LegsTo(req, path) = 1..k
            /\ \A i \in 1..k : LegsTo(req, longer)[i] = LegsTo(req, path)[i]
            /\ Guided(req, path) \in [1..k -> Int]
            /\ Guided(req, longer) \in [1..(k + 1) -> Int]
            /\ \A i \in 1..k : Guided(req, longer)[i] = Guided(req, path)[i]
            /\ Guided(req, longer)[k + 1] = req.candidates[c]
<1> DEFINE longer == Append(path, c)
           edge == req.distance[<<LegStart(req, path, k + 1), c>>]
<1>1. /\ longer \in Paths(req, k + 1) /\ Len(path) = k
      /\ longer[k + 1] = c /\ \A i \in 1..k : longer[i] = path[i]
  BY LongerPath
<1>2. path \in [1..k -> Available(req)] /\ longer \in [1..(k + 1) -> Available(req)]
  BY <1>1 DEF Paths
<1> HIDE DEF longer
<1>3. Len(longer) = k + 1 /\ DOMAIN longer = 1..(k + 1) /\ DOMAIN path = 1..k
  BY <1>2
<1>4. edge \in Nat \cup {Unreachable}
  <2>1. LegStart(req, path, k + 1) \in DOMAIN req.tracks /\ c \in DOMAIN req.tracks
    BY <1>2, AdmittedFacts DEF LegStart
  <2> QED
    BY <2>1 DEF Admitted, IsRequest
<1>5. \A i \in 1..(k + 1) : LegStart(req, longer, i) = LegStart(req, path, i)
  BY <1>1 DEF LegStart
<1>6. /\ DOMAIN LegsTo(req, longer) = 1..(k + 1)
      /\ DOMAIN LegsTo(req, path) = 1..k
  BY <1>1, <1>3 DEF LegsTo
<1>7. LegsTo(req, longer)[k + 1] = edge
  <2>1. k + 1 \in 1..(k + 1)
    OBVIOUS
  <2> QED
    BY <1>1, <1>3, <1>5, <2>1 DEF LegsTo
<1>8. \A i \in 1..k : LegsTo(req, longer)[i] = LegsTo(req, path)[i]
  <2>1. \A i \in 1..k : i \in 1..(k + 1)
    OBVIOUS
  <2> QED
    BY <1>1, <1>3, <1>5, <2>1 DEF LegsTo
<1>9. \A a \in Available(req) : req.candidates[a] \in Int
  BY AdmittedFacts DEF Admitted, IsRequest
<1>10. /\ Guided(req, path) \in [1..k -> Int]
       /\ Guided(req, longer) \in [1..(k + 1) -> Int]
  BY <1>2, <1>3, <1>9 DEF Guided
<1>11. \A i \in 1..k : Guided(req, longer)[i] = Guided(req, path)[i]
  BY <1>1, <1>3 DEF Guided
<1>12. Guided(req, longer)[k + 1] = req.candidates[c]
  BY <1>1, <1>3 DEF Guided
<1> QED
  BY <1>4, <1>6, <1>7, <1>8, <1>10, <1>11, <1>12 DEF longer

\* A layer turns a partial path into a partial path that is one leg longer.
LEMMA ExtendedIsPartial ==
  ASSUME NEW req, Admitted(req), NEW k \in Nat, NEW n, NEW s, PartialPath(req, k, s),
         NEW c \in Available(req), MayExtend(req, n, s, c)
  PROVE  PartialPath(req, k + 1, Extended(req, n, s, c))
<1> DEFINE path == s.intermediates
           longer == Append(path, c)
           edge == req.distance[<<LegStart(req, path, k + 1), c>>]
           e == Extended(req, n, s, c)
<1>1. /\ path \in Paths(req, k) /\ c \notin Elements(path)
      /\ LegsTo(req, path) \in [1..k -> Nat]
      /\ s.sum = Total(LegsTo(req, path))
      /\ IsBottleneck(s.worst, LegsTo(req, path))
      /\ s.guidance = Total(Guided(req, path))
  BY DEF PartialPath, MayExtend
<1>2. path \in [1..k -> Nat] /\ longer \in Paths(req, k + 1)
  BY <1>1, LongerPath
<1>3. ScoreLeg(req, RepeatPrefix(req) \o path, c) = edge
      /\ ScoreLeg(req, req.prefix \o path, c) = edge
  BY <1>2, LastOfPath DEF ScoreLeg
<1>4. edge # Unreachable
  BY <1>3 DEF MayExtend
<1>5. /\ edge \in Nat
      /\ DOMAIN LegsTo(req, longer) = 1..(k + 1)
      /\ LegsTo(req, longer)[k + 1] = edge
      /\ \A i \in 1..k : LegsTo(req, longer)[i] = LegsTo(req, path)[i]
      /\ Guided(req, path) \in [1..k -> Int]
      /\ Guided(req, longer) \in [1..(k + 1) -> Int]
      /\ \A i \in 1..k : Guided(req, longer)[i] = Guided(req, path)[i]
      /\ Guided(req, longer)[k + 1] = req.candidates[c]
  BY <1>1, <1>4, LongerLegs, SMTT(30)
<1>6. /\ e.intermediates = longer
      /\ e.sum = s.sum + edge
      /\ e.worst = Larger(s.worst, edge)
      /\ e.guidance = s.guidance + req.candidates[c]
  BY <1>3 DEF Extended
<1> HIDE DEF path, longer, edge, e
<1>7. LegsTo(req, longer) \in [1..(k + 1) -> Nat]
  <2>1. \A i \in 1..(k + 1) : LegsTo(req, longer)[i] \in Nat
    <3> SUFFICES ASSUME NEW i \in 1..(k + 1) PROVE LegsTo(req, longer)[i] \in Nat
      OBVIOUS
    <3>1. i = k + 1 \/ i \in 1..k
      OBVIOUS
    <3> QED
      BY <1>1, <1>5, <3>1
  <2>2. LegsTo(req, longer) = [i \in 1..(k + 1) |-> LegsTo(req, longer)[i]]
    BY <1>5, Zenon DEF LegsTo
  <2> QED
    BY <2>1, <2>2
<1>8. /\ Total(LegsTo(req, longer)) = Total(LegsTo(req, path)) + edge
      /\ IsBottleneck(Larger(s.worst, edge), LegsTo(req, longer))
  BY <1>1, <1>5, <1>7, OneMoreLeg
<1>9. Total(Guided(req, longer)) = Total(Guided(req, path)) + req.candidates[c]
  BY <1>5, TotalOfAppend
<1>10. PartialPath(req, k + 1, e)
  BY <1>1, <1>2, <1>6, <1>7, <1>8, <1>9 DEF PartialPath
<1> QED
  BY <1>10 DEF e

-----------------------------------------------------------------------------
\* Two tracks repeat each other or neither does.
LEMMA PairSafeIsSymmetric ==
  ASSUME NEW tracks, NEW w, NEW a, NEW b, NEW d
  PROVE  PairSafe(tracks, w, a, b, d) <=> PairSafe(tracks, w, b, a, d)
<1>1. ArtistsRepeat(tracks[a], tracks[b]) <=> ArtistsRepeat(tracks[b], tracks[a])
  BY DEF ArtistsRepeat
<1>2. AlbumsRepeat(tracks[a], tracks[b]) <=> AlbumsRepeat(tracks[b], tracks[a])
  BY DEF AlbumsRepeat
<1> QED
  BY <1>1, <1>2 DEF PairSafe, ArtistAndAlbumApart, SameTrackApart

\* The check of one position compares it with every other one.
LEMMA PositionIsSafe ==
  ASSUME NEW route, NEW tracks, NEW w, NEW position
  PROVE  PositionRepeatSafe(route, tracks, w, position) <=>
           \A other \in DOMAIN route \ {position} :
             PairSafe(tracks, w, route[other], route[position], Gap(position, other))
<1>1. PositionRepeatSafe(route, tracks, w, position) <=>
        \A other \in DOMAIN route \ {position} :
          PairSafe(tracks, w, route[position], route[other], Gap(position, other))
  BY DEF PositionRepeatSafe, RepeatWindowsSafeAt, PairSafe
<1> QED
  BY <1>1, PairSafeIsSymmetric

LEMMA ArithmeticOfSuffix ==
  \A n, e \in Nat : e <= n - 1 =>
    /\ n - (e + 1) + 1 = n - e /\ e + 1 <= n
    /\ \A i \in 1..(n - e) : (e + 1) + i - 1 = e + i
    /\ \A i \in (e + 1)..(n - 1) :
         /\ i - e \in 1..(n - e) /\ i - e # n - e /\ e + (i - e) = i
         /\ n - e \in Nat /\ i - e < n - e
OBVIOUS

\* The check of the right anchor compares it with all that is not exempt.
LEMMA RightAnchorIsSafe ==
  ASSUME NEW req, NEW route \in Seq(Nat), req.exempt \in Nat,
         req.exempt <= Len(route) - 1
  PROVE  RightAnchorRepeatSafe(req, route) <=>
           \A i \in (req.exempt + 1)..(Len(route) - 1) :
             PairSafe(req.tracks, req.w, route[i], route[Len(route)], Len(route) - i)
<1> DEFINE e == req.exempt
           n == Len(route)
           m == e + 1
           suffix == SubSeq(route, m, n)
<1>0. e \in Nat /\ n \in Nat /\ e <= n - 1
  OBVIOUS
<1> HIDE DEF e, n
<1>1. Min({req.exempt, Len(route) - 1}) = e
  <2>1. \A x \in {e, n - 1} : e <= x
    BY <1>0
  <2>2. \A y \in {e, n - 1} : (\A x \in {e, n - 1} : y <= x) => y = e
    BY <1>0
  <2> QED
    BY <2>1, <2>2 DEF Min, e, n
<1>2. /\ Len(suffix) = n - e /\ DOMAIN suffix = 1..(n - e)
      /\ \A i \in 1..(n - e) : suffix[i] = route[e + i]
  <2>1. \A i \in m..n : route[i] \in Nat
    BY <1>0, ElementOfSeq DEF n
  <2>2. m \in Int /\ n \in Int
    BY <1>0
  <2>3. n - m + 1 = n - e /\ m <= n /\ \A i \in 1..(n - e) : m + i - 1 = e + i
    BY <1>0, ArithmeticOfSuffix
  <2> HIDE DEF m
  <2>4. /\ suffix \in Seq(Nat)
        /\ Len(suffix) = IF m <= n THEN n - m + 1 ELSE 0
        /\ \A i \in 1..(n - m + 1) : suffix[i] = route[m + i - 1]
    BY <2>1, <2>2, SubSeqProperties
  <2> HIDE DEF suffix
  <2>5. DOMAIN suffix = 1..Len(suffix)
    BY <2>4, LenProperties
  <2> QED
    BY <2>3, <2>4, <2>5
<1>3. RightAnchorRepeatSafe(req, route) <=>
        PositionRepeatSafe(suffix, req.tracks, req.w, n - e)
  BY <1>1, <1>2 DEF RightAnchorRepeatSafe, e, n
<1> HIDE DEF suffix
<1>4. n - e \in 1..(n - e) /\ suffix[n - e] = route[n]
  <2>1. n - e \in 1..(n - e) /\ e + (n - e) = n
    BY <1>0
  <2> QED
    BY <1>2, <2>1
<1>5. RightAnchorRepeatSafe(req, route) <=>
        \A i \in 1..(n - e) \ {n - e} :
          PairSafe(req.tracks, req.w, suffix[i], route[n], Gap(n - e, i))
  BY <1>2, <1>3, <1>4, PositionIsSafe
<1>6. ASSUME NEW i \in 1..(n - e) \ {n - e}
      PROVE  suffix[i] = route[e + i] /\ Gap(n - e, i) = n - (e + i)
             /\ e + i \in (e + 1)..(n - 1)
  <2>1. i \in 1..(n - e) /\ i < n - e /\ n - e \in Nat
    BY <1>0
  <2>2. Gap(n - e, i) = n - (e + i) /\ e + i \in (e + 1)..(n - 1)
    BY <1>0, <2>1 DEF Gap
  <2> QED
    BY <1>2, <2>1, <2>2
<1>7. ASSUME NEW i \in (e + 1)..(n - 1)
      PROVE  i - e \in 1..(n - e) \ {n - e} /\ suffix[i - e] = route[i]
             /\ Gap(n - e, i - e) = n - i
  <2>1. /\ i - e \in 1..(n - e) /\ i - e # n - e /\ e + (i - e) = i
        /\ n - e \in Nat /\ i - e < n - e
    BY <1>0, ArithmeticOfSuffix
  <2>2. Gap(n - e, i - e) = n - i
    BY <1>0, <2>1 DEF Gap
  <2> QED
    BY <1>2, <2>1, <2>2
<1>8. ASSUME NEW i \in 1..(n - e) \ {n - e},
             \A j \in (e + 1)..(n - 1) :
               PairSafe(req.tracks, req.w, route[j], route[n], n - j)
      PROVE  PairSafe(req.tracks, req.w, suffix[i], route[n], Gap(n - e, i))
  BY <1>6, <1>8
<1>9. ASSUME NEW j \in (e + 1)..(n - 1),
             \A i \in 1..(n - e) \ {n - e} :
               PairSafe(req.tracks, req.w, suffix[i], route[n], Gap(n - e, i))
      PROVE  PairSafe(req.tracks, req.w, route[j], route[n], n - j)
  BY <1>7, <1>9
<1> QED
  BY <1>5, <1>8, <1>9 DEF e, n

\* A finished route: the context, the path and the right anchor.
ClosedRoute(req, path) == RepeatPrefix(req) \o path \o <<req.right>>

LEMMA JoinedInTurn ==
  ASSUME NEW p \in Seq(Nat), NEW q \in Seq(Nat), NEW d \in Seq(Nat)
  PROVE  (p \o q) \o d = p \o (q \o d)
  BY ConcatAssociative, SMTT(30)

LEMMA ThreeParts ==
  ASSUME NEW a \in Seq(Nat), NEW p \in Seq(Nat), NEW r \in Nat
  PROVE  /\ a \o p \o <<r>> \in Seq(Nat)
         /\ Len(a \o p \o <<r>>) = Len(a) + Len(p) + 1
         /\ \A i \in 1..Len(a) : (a \o p \o <<r>>)[i] = a[i]
         /\ \A i \in 1..Len(p) : (a \o p \o <<r>>)[Len(a) + i] = p[i]
         /\ (a \o p \o <<r>>)[Len(a) + Len(p) + 1] = r
<1> DEFINE b == Len(a)
           n == Len(p)
           most == a \o p
           last == <<r>>
           whole == most \o last
<1>1. last \in Seq(Nat) /\ Len(last) = 1 /\ last[1] = r
  OBVIOUS
<1>0. b \in Nat /\ n \in Nat
  OBVIOUS
<1>2. /\ most \in Seq(Nat) /\ Len(most) = b + n
      /\ \A i \in 1..(b + n) : most[i] = IF i <= b THEN a[i] ELSE p[i - b]
  BY ConcatProperties
<1> HIDE DEF most, last, b, n
<1>3. /\ whole \in Seq(Nat) /\ Len(whole) = b + n + 1
      /\ \A i \in 1..(b + n + 1) :
           whole[i] = IF i <= b + n THEN most[i] ELSE last[i - (b + n)]
  <2>1. /\ whole \in Seq(Nat)
        /\ Len(whole) = Len(most) + Len(last)
        /\ \A i \in 1..(Len(most) + Len(last)) :
             whole[i] = IF i <= Len(most) THEN most[i] ELSE last[i - Len(most)]
    BY <1>1, <1>2, ConcatProperties
  <2> HIDE DEF whole
  <2> QED
    BY <1>0, <1>1, <1>2, <2>1
<1> HIDE DEF whole
<1>4. ASSUME NEW i \in 1..b PROVE whole[i] = a[i]
  <2>1. i \in 1..(b + n) /\ i \in 1..(b + n + 1) /\ i <= b + n /\ i <= b
    BY <1>0
  <2> QED
    BY <1>2, <1>3, <2>1
<1>5. ASSUME NEW i \in 1..n PROVE whole[b + i] = p[i]
  <2>1. /\ b + i \in 1..(b + n) /\ b + i \in 1..(b + n + 1) /\ b + i <= b + n
        /\ ~(b + i <= b) /\ (b + i) - b = i
    BY <1>0
  <2> QED
    BY <1>2, <1>3, <2>1
<1>6. whole[b + n + 1] = r
  <2>1. /\ b + n + 1 \in 1..(b + n + 1) /\ ~(b + n + 1 <= b + n)
        /\ (b + n + 1) - (b + n) = 1
    BY <1>0
  <2> QED
    BY <1>1, <1>3, <2>1
<1>7. whole = a \o p \o <<r>>
  BY DEF whole, most, last
<1> QED
  BY <1>3, <1>4, <1>5, <1>6, <1>7 DEF b, n

LEMMA RouteFacts ==
  ASSUME NEW req, Admitted(req), NEW n \in Nat, NEW path \in [1..n -> Nat]
  PROVE  LET b == Len(RepeatPrefix(req)) IN
         /\ ClosedRoute(req, path) \in Seq(Nat)
         /\ Len(ClosedRoute(req, path)) = b + n + 1
         /\ DOMAIN ClosedRoute(req, path) = 1..(b + n + 1)
         /\ \A i \in 1..b : ClosedRoute(req, path)[i] = RepeatPrefix(req)[i]
         /\ \A i \in 1..n : ClosedRoute(req, path)[b + i] = path[i]
         /\ ClosedRoute(req, path)[b + n + 1] = req.right
<1> DEFINE before == RepeatPrefix(req)
           b == Len(before)
           route == before \o path \o <<req.right>>
<1>1. before \in Seq(Nat) /\ req.right \in Nat
  BY AdmittedFacts
<1>2. path \in Seq(Nat) /\ n = Len(path)
  OBVIOUS
<1> HIDE DEF before
<1>3. /\ route \in Seq(Nat) /\ Len(route) = b + n + 1
      /\ \A i \in 1..b : route[i] = before[i]
      /\ \A i \in 1..n : route[b + i] = path[i]
      /\ route[b + n + 1] = req.right
  BY <1>1, <1>2, ThreeParts
<1>4. ClosedRoute(req, path) = route
  BY DEF ClosedRoute, before
<1> HIDE DEF route
<1>5. DOMAIN route = 1..(b + n + 1)
  BY <1>3, LenProperties
<1> QED
  BY <1>3, <1>4, <1>5 DEF before, route

\* What the closing checks of a finished route come to, pair by pair.
LEMMA ClosingChecks ==
  ASSUME NEW req, Admitted(req), NEW n \in Nat, NEW path \in [1..n -> Nat]
  PROVE  PathSafe(req, path) <=>
           /\ GeneratedPositionsRepeatSafe(req, ClosedRoute(req, path),
                                           Len(RepeatPrefix(req)) + 1, n)
           /\ RightAnchorRepeatSafe(req, ClosedRoute(req, path))
<1> DEFINE b == Len(RepeatPrefix(req))
           route == ClosedRoute(req, path)
           m == b + n + 1
           e == req.exempt
           Apart(i, j, d) == PairSafe(req.tracks, req.w, route[i], route[j], d)
<1>1. b \in Nat /\ e \in 0..b
  BY AdmittedFacts DEF Admitted, IsRequest
<1>2. route \in Seq(Nat) /\ Len(route) = m /\ DOMAIN route = 1..m
  BY <1>1, RouteFacts
<1>3. PathSafe(req, path) <=>
        \A j \in (b + 1)..m : \A i \in 1..(j - 1) :
          (j = m /\ i <= e) \/ Apart(i, j, j - i)
  BY <1>2 DEF PathSafe, ClosedRoute
<1>4. GeneratedPositionsRepeatSafe(req, route, b + 1, n) <=>
        \A j \in (b + 1)..(b + n) : \A i \in (1..m) \ {j} : Apart(i, j, Gap(j, i))
  <2>1. (b + 1)..(b + 1 + n - 1) = (b + 1)..(b + n)
    BY <1>1
  <2> QED
    BY <1>2, <2>1, PositionIsSafe DEF GeneratedPositionsRepeatSafe
<1>5. RightAnchorRepeatSafe(req, route) <=>
        \A i \in (e + 1)..(m - 1) : Apart(i, m, m - i)
  <2>1. e \in Nat /\ m \in Nat /\ e <= m - 1
    BY <1>1
  <2> QED
    BY <1>2, <2>1, RightAnchorIsSafe
<1>6. \A i, j, d : Apart(i, j, d) <=> Apart(j, i, d)
  BY PairSafeIsSymmetric
<1> HIDE DEF Apart, route, b, e
<1>7. ASSUME PathSafe(req, path)
      PROVE  /\ GeneratedPositionsRepeatSafe(req, route, b + 1, n)
             /\ RightAnchorRepeatSafe(req, route)
  <2>1. ASSUME NEW j \in (b + 1)..(b + n), NEW i \in (1..m) \ {j}
        PROVE  Apart(i, j, Gap(j, i))
    <3>1. CASE i < j
      <4>1. j \in (b + 1)..m /\ i \in 1..(j - 1) /\ j # m /\ Gap(j, i) = j - i
        BY <1>1, <3>1 DEF Gap
      <4> QED
        BY <1>3, <1>7, <4>1
    <3>2. CASE ~(i < j)
      <4>1. i \in (b + 1)..m /\ j \in 1..(i - 1) /\ ~(j <= e) /\ Gap(j, i) = i - j
        BY <1>1, <3>2 DEF Gap
      <4> QED
        BY <1>3, <1>6, <1>7, <4>1
    <3> QED
      BY <3>1, <3>2
  <2>2. ASSUME NEW i \in (e + 1)..(m - 1) PROVE Apart(i, m, m - i)
    <3>1. m \in (b + 1)..m /\ i \in 1..(m - 1) /\ ~(i <= e)
      BY <1>1
    <3> QED
      BY <1>3, <1>7, <3>1
  <2> QED
    BY <1>4, <1>5, <2>1, <2>2
<1>8. ASSUME GeneratedPositionsRepeatSafe(req, route, b + 1, n),
             RightAnchorRepeatSafe(req, route)
      PROVE  PathSafe(req, path)
  <2> SUFFICES ASSUME NEW j \in (b + 1)..m, NEW i \in 1..(j - 1), ~(j = m /\ i <= e)
               PROVE  Apart(i, j, j - i)
    BY <1>3
  <2>1. CASE j = m
    <3>1. i \in (e + 1)..(m - 1)
      BY <1>1, <2>1
    <3> QED
      BY <1>5, <1>8, <2>1, <3>1
  <2>2. CASE j # m
    <3>1. j \in (b + 1)..(b + n) /\ i \in (1..m) \ {j} /\ Gap(j, i) = j - i
      BY <1>1, <2>2 DEF Gap
    <3> QED
      BY <1>4, <1>8, <3>1
  <2> QED
    BY <2>1, <2>2
<1> QED
  BY <1>7, <1>8 DEF route, b

-----------------------------------------------------------------------------
\* The last leg of a path, and all legs with it.
LastLeg(req, n, path) == req.distance[<<LegStart(req, path, n + 1), req.right>>]

LEMMA LegFacts ==
  ASSUME NEW req, Admitted(req), NEW n \in Nat, NEW path \in [1..n -> Available(req)]
  PROVE  /\ LastLeg(req, n, path) \in Nat \cup {Unreachable}
         /\ DOMAIN Legs(req, path) = 1..(n + 1)
         /\ Legs(req, path) = [i \in 1..(n + 1) |-> Legs(req, path)[i]]
         /\ Legs(req, path)[n + 1] = LastLeg(req, n, path)
         /\ DOMAIN LegsTo(req, path) = 1..n
         /\ LegsTo(req, path) = [i \in 1..n |-> LegsTo(req, path)[i]]
         /\ \A i \in 1..n : /\ Legs(req, path)[i] = LegsTo(req, path)[i]
                            /\ LegsTo(req, path)[i] \in Nat \cup {Unreachable}
<1> DEFINE whole == <<req.left>> \o path \o <<req.right>>
           first == <<req.left>>
<1>1. req.left \in Nat /\ req.right \in Nat /\ path \in Seq(Nat) /\ Len(path) = n
  BY AdmittedFacts
<1>2. first \in Seq(Nat) /\ Len(first) = 1 /\ first[1] = req.left
  BY <1>1
<1>3. /\ \A i \in 1..1 : (first \o path \o <<req.right>>)[i] = first[i]
      /\ \A i \in 1..n : (first \o path \o <<req.right>>)[1 + i] = path[i]
      /\ (first \o path \o <<req.right>>)[1 + n + 1] = req.right
  <2> HIDE DEF first
  <2>1. /\ \A i \in 1..Len(first) : (first \o path \o <<req.right>>)[i] = first[i]
        /\ \A i \in 1..Len(path) : (first \o path \o <<req.right>>)[Len(first) + i] = path[i]
        /\ (first \o path \o <<req.right>>)[Len(first) + Len(path) + 1] = req.right
    <3>1. first \in Seq(Nat) /\ path \in Seq(Nat) /\ req.right \in Nat
      BY <1>1, <1>2
    <3>2. ASSUME NEW a \in Seq(Nat), NEW p \in Seq(Nat), NEW r \in Nat
          PROVE  /\ \A i \in 1..Len(a) : (a \o p \o <<r>>)[i] = a[i]
                 /\ \A i \in 1..Len(p) : (a \o p \o <<r>>)[Len(a) + i] = p[i]
                 /\ (a \o p \o <<r>>)[Len(a) + Len(p) + 1] = r
      BY ThreeParts
    <3> QED
      BY <3>1, <3>2, SMTT(30)
  <2> QED
    BY <1>1, <1>2, <2>1
<1>4. /\ whole[1] = req.left /\ whole[n + 2] = req.right
      /\ \A i \in 1..n : whole[i + 1] = path[i]
  <2>1. 1 \in 1..1 /\ 1 + n + 1 = n + 2 /\ \A i \in 1..n : 1 + i = i + 1
    OBVIOUS
  <2> QED
    BY <1>2, <1>3, <2>1
<1>5. Legs(req, path) = [i \in 1..(n + 1) |-> req.distance[<<whole[i], whole[i + 1]>>]]
  BY <1>1 DEF Legs
<1>6. LegsTo(req, path) = [i \in 1..n |-> req.distance[<<LegStart(req, path, i), path[i]>>]]
  BY <1>1 DEF LegsTo
<1> HIDE DEF whole, first
<1>7. ASSUME NEW i \in 1..(n + 1) PROVE whole[i] = LegStart(req, path, i)
  <2>1. CASE i = 1
    BY <1>4, <2>1 DEF LegStart
  <2>2. CASE i # 1
    <3>1. i - 1 \in 1..n /\ (i - 1) + 1 = i
      BY <2>2
    <3> QED
      BY <1>4, <2>2, <3>1 DEF LegStart
  <2> QED
    BY <2>1, <2>2
<1>8. \A i \in 1..n : Legs(req, path)[i] = LegsTo(req, path)[i]
  <2>1. \A i \in 1..n : i \in 1..(n + 1)
    OBVIOUS
  <2> QED
    BY <1>4, <1>5, <1>6, <1>7, <2>1
<1>9. Legs(req, path)[n + 1] = LastLeg(req, n, path)
  <2>1. n + 1 \in 1..(n + 1) /\ (n + 1) + 1 = n + 2
    OBVIOUS
  <2> QED
    BY <1>4, <1>5, <1>7, <2>1 DEF LastLeg
<1>10. \A i \in 1..(n + 1) : LegStart(req, path, i) \in DOMAIN req.tracks
  <2> SUFFICES ASSUME NEW i \in 1..(n + 1) PROVE LegStart(req, path, i) \in DOMAIN req.tracks
    OBVIOUS
  <2>1. i = 1 \/ i - 1 \in 1..n
    OBVIOUS
  <2> QED
    BY <2>1, AdmittedFacts DEF LegStart
<1>11. \A a, b \in DOMAIN req.tracks : req.distance[<<a, b>>] \in Nat \cup {Unreachable}
  BY DEF Admitted, IsRequest
<1>12. LastLeg(req, n, path) \in Nat \cup {Unreachable}
  <2>1. n + 1 \in 1..(n + 1)
    OBVIOUS
  <2> QED
    BY <1>10, <1>11, <2>1, AdmittedFacts DEF LastLeg
<1>13. \A i \in 1..n : LegsTo(req, path)[i] \in Nat \cup {Unreachable}
  <2> SUFFICES ASSUME NEW i \in 1..n PROVE LegsTo(req, path)[i] \in Nat \cup {Unreachable}
    OBVIOUS
  <2>1. i \in 1..(n + 1) /\ path[i] \in DOMAIN req.tracks
    BY AdmittedFacts
  <2> QED
    BY <1>6, <1>10, <1>11, <2>1
<1>14. /\ Legs(req, path) = [i \in 1..(n + 1) |-> Legs(req, path)[i]]
       /\ LegsTo(req, path) = [i \in 1..n |-> LegsTo(req, path)[i]]
       /\ DOMAIN Legs(req, path) = 1..(n + 1) /\ DOMAIN LegsTo(req, path) = 1..n
  BY <1>5, <1>6
<1> QED
  BY <1>8, <1>9, <1>12, <1>13, <1>14

\* A state may be closed exactly when the finished path is safe and reachable.
LEMMA ClosesIsExact ==
  ASSUME NEW req, Admitted(req), NEW n \in Nat, NEW s, PartialPath(req, n, s)
  PROVE  Closes(req, n, s) <=>
           PathSafe(req, s.intermediates) /\ PathReachable(req, s.intermediates)
<1> DEFINE path == s.intermediates
<1>1. path \in [1..n -> Available(req)] /\ LegsTo(req, path) \in [1..n -> Nat]
  BY DEF PartialPath, Paths
<1>2. path \in [1..n -> Nat]
  BY <1>1, AdmittedFacts
<1>3. ScoreLeg(req, req.prefix \o path, req.right) = LastLeg(req, n, path)
  BY <1>2, LastOfPath DEF ScoreLeg, LastLeg
<1> HIDE DEF path
<1>4. PathReachable(req, path) <=> LastLeg(req, n, path) # Unreachable
  <2>1. PathReachable(req, path) <=> \A i \in 1..(n + 1) : Legs(req, path)[i] # Unreachable
    <3>1. DOMAIN Legs(req, path) = 1..(n + 1)
      BY <1>1, LegFacts
    <3> QED
      BY <3>1 DEF PathReachable, Range
  <2>2. \A i \in 1..n : Legs(req, path)[i] # Unreachable
    <3>1. \A i \in 1..n : Legs(req, path)[i] = LegsTo(req, path)[i]
      BY <1>1, LegFacts
    <3>2. \A i \in 1..n : LegsTo(req, path)[i] \in Nat
      BY <1>1
    <3> QED
      BY <3>1, <3>2 DEF Unreachable
  <2>3. \A i \in 1..(n + 1) : i = n + 1 \/ i \in 1..n
    OBVIOUS
  <2>4. n + 1 \in 1..(n + 1)
    OBVIOUS
  <2> QED
    BY <1>1, <2>1, <2>2, <2>3, <2>4, LegFacts
<1>5. Closes(req, n, s) <=>
        /\ GeneratedPositionsRepeatSafe(req, ClosedRoute(req, path),
                                        Len(RepeatPrefix(req)) + 1, n)
        /\ RightAnchorRepeatSafe(req, ClosedRoute(req, path))
        /\ ScoreLeg(req, req.prefix \o path, req.right) # Unreachable
  BY Zenon DEF Closes, ClosedRoute, path
<1> QED
  BY <1>2, <1>3, <1>4, <1>5, ClosingChecks DEF path

\* The option a state becomes is the one the reference makes of its path.
LEMMA OptionIsPathOption ==
  ASSUME NEW req, Admitted(req), NEW n \in Nat, NEW s, PartialPath(req, n, s),
         PathReachable(req, s.intermediates)
  PROVE  Option(req, s) = PathOption(req, s.intermediates)
<1> DEFINE path == s.intermediates
           legs == LegsTo(req, path)
           all == Legs(req, path)
           edge == LastLeg(req, n, path)
<1>1. /\ path \in [1..n -> Available(req)] /\ legs \in [1..n -> Nat]
      /\ s.sum = Total(legs) /\ IsBottleneck(s.worst, legs)
      /\ s.guidance = Total(Guided(req, path))
  BY DEF PartialPath, Paths
<1> HIDE DEF path
<1>2. path \in [1..n -> Nat] /\ path \in Seq(Nat) /\ req.prefix \in Seq(Nat)
      /\ req.right \in Nat
  <2>1. path \in [1..n -> Nat]
    BY <1>1, AdmittedFacts
  <2> QED
    BY <2>1, AdmittedFacts, SMTT(30)
<1>3. ScoreLeg(req, req.prefix \o path, req.right) = edge
  BY <1>2, LastOfPath DEF ScoreLeg, LastLeg
<1>4. /\ DOMAIN all = 1..(n + 1) /\ all = [i \in 1..(n + 1) |-> all[i]]
      /\ all[n + 1] = edge /\ edge \in Nat \cup {Unreachable}
      /\ \A i \in 1..n : all[i] = legs[i]
  <2>1. /\ LastLeg(req, n, path) \in Nat \cup {Unreachable}
        /\ DOMAIN Legs(req, path) = 1..(n + 1)
        /\ Legs(req, path) = [i \in 1..(n + 1) |-> Legs(req, path)[i]]
        /\ Legs(req, path)[n + 1] = LastLeg(req, n, path)
        /\ \A i \in 1..n : Legs(req, path)[i] = LegsTo(req, path)[i]
    BY <1>1, LegFacts
  <2> QED
    BY <2>1
<1>5. edge \in Nat
  <2>1. edge \in Range(all)
    <3>1. n + 1 \in 1..(n + 1)
      OBVIOUS
    <3> HIDE DEF all, edge
    <3> QED
      BY <1>4, <3>1 DEF Range
  <2> QED
    BY <1>4, <2>1 DEF PathReachable, path
<1> HIDE DEF legs, all, edge, path
<1>6. all \in [1..(n + 1) -> Nat]
  <2>1. \A i \in 1..(n + 1) : all[i] \in Nat
    <3> SUFFICES ASSUME NEW i \in 1..(n + 1) PROVE all[i] \in Nat
      OBVIOUS
    <3>1. i = n + 1 \/ i \in 1..n
      OBVIOUS
    <3> QED
      BY <1>1, <1>4, <1>5, <3>1
  <2> QED
    BY <1>4, <2>1
<1>7. /\ Total(all) = Total(legs) + edge
      /\ IsBottleneck(Larger(s.worst, edge), all)
      /\ \E i \in DOMAIN all : Larger(s.worst, edge) = all[i]
  <2>1. /\ legs \in [1..n -> Nat] /\ all \in [1..(n + 1) -> Nat]
        /\ \A i \in 1..n : all[i] = legs[i]
        /\ IsBottleneck(s.worst, legs)
    BY <1>1, <1>4, <1>6
  <2>2. /\ Total(all) = Total(legs) + all[n + 1]
        /\ IsBottleneck(Larger(s.worst, all[n + 1]), all)
        /\ \E i \in DOMAIN all : Larger(s.worst, all[n + 1]) = all[i]
    BY <2>1, OneMoreLeg
  <2> QED
    BY <1>4, <2>2
<1>8. Max(Range(all)) = Larger(s.worst, edge)
  <2> DEFINE worst == Larger(s.worst, edge)
             values == Range(all)
  <2>1. worst \in values /\ \A x \in values : worst >= x /\ x \in Nat
    BY <1>6, <1>7 DEF Range, IsBottleneck
  <2>2. worst \in Nat
    BY <2>1
  <2> HIDE DEF worst, values
  <2>3. \A m \in values : (\A x \in values : m >= x) => m = worst
    BY <2>1, <2>2
  <2>4. Max(values) = worst
    BY <2>1, <2>3 DEF Max
  <2> QED
    BY <2>4 DEF worst, values
<1>9. Append(req.prefix \o path, req.right) = req.prefix \o path \o <<req.right>>
  <2>1. req.prefix \o path \in Seq(Nat)
    BY <1>2, ConcatProperties
  <2> DEFINE front == req.prefix \o path
  <2>2. ASSUME NEW f \in Seq(Nat), NEW r \in Nat PROVE Append(f, r) = f \o <<r>>
    OBVIOUS
  <2> QED
    BY <1>2, <2>1, <2>2
<1>10. Option(req, s) = [intermediates |-> path, route |-> Append(req.prefix \o path, req.right),
                         sum |-> s.sum + edge, worst |-> Larger(s.worst, edge),
                         guidance |-> s.guidance]
  BY <1>3 DEF Option, path
<1>11. PathOption(req, path) =
         [intermediates |-> path, route |-> req.prefix \o path \o <<req.right>>,
          sum |-> Total(all), worst |-> Max(Range(all)),
          guidance |-> Total(Guided(req, path))]
  BY DEF PathOption, Guided, all
<1> QED
  BY <1>1, <1>7, <1>8, <1>9, <1>10, <1>11 DEF path

\* The options a frontier yields are those of its safe and reachable paths.
LEMMA CompleteIsGood ==
  ASSUME NEW req, Admitted(req), NEW n \in Nat, NEW F,
         \A s \in F : PartialPath(req, n, s)
  PROVE  Complete(req, n, F) =
           {PathOption(req, s.intermediates) : s \in {t \in F :
              PathSafe(req, t.intermediates) /\ PathReachable(req, t.intermediates)}}
<1>1. \A s \in F : Closes(req, n, s) <=>
        PathSafe(req, s.intermediates) /\ PathReachable(req, s.intermediates)
  BY ClosesIsExact
<1>2. \A s \in F : PathReachable(req, s.intermediates) =>
        Option(req, s) = PathOption(req, s.intermediates)
  BY OptionIsPathOption
<1> QED
  BY <1>1, <1>2 DEF Complete

-----------------------------------------------------------------------------
LEMMA MinOfTwo ==
  ASSUME NEW a \in Nat, NEW b \in Nat
  PROVE  Min({a, b}) \in Nat /\ Min({a, b}) <= a /\ Min({a, b}) <= b
         /\ (Min({a, b}) = a \/ Min({a, b}) = b)
<1>1. \E m \in {a, b} : \A x \in {a, b} : m <= x
  <2>1. CASE a <= b
    BY <2>1
  <2>2. CASE ~(a <= b)
    BY <2>2
  <2> QED
    BY <2>1, <2>2
<1>2. Min({a, b}) \in {a, b} /\ \A x \in {a, b} : Min({a, b}) <= x
  BY <1>1 DEF Min
<1> QED
  BY <1>2

LEMMA BoundIsNat ==
  ASSUME NEW req, Admitted(req)
  PROVE  /\ StructuralUpperBound(req) \in Nat
         /\ StructuralUpperBound(req) <= req.max
BY MinOfTwo, AdmittedFacts DEF StructuralUpperBound, Admitted, IsRequest

\* How many intermediates context member i asks for before the right anchor.
Asked(req, i) ==
  SaturatingSub(RequiredWindow(req.tracks, req.w, RepeatPrefix(req)[i], req.right) + 1,
                Len(RepeatPrefix(req)) + 1 - i)

LEMMA RequiredWindowIsNat ==
  ASSUME NEW req, Admitted(req), NEW a, NEW b
  PROVE  RequiredWindow(req.tracks, req.w, a, b) \in Nat
<1>1. req.w.artist \in Nat /\ req.w.album \in Nat /\ req.w.track \in Nat
  BY DEF Admitted, IsRequest
<1> QED
  BY <1>1 DEF RequiredWindow, Larger

LEMMA MinimumIs ==
  ASSUME NEW req, Admitted(req)
  PROVE  /\ MinimumDestinationIntermediates(req) \in Nat
         /\ \/ MinimumDestinationIntermediates(req) = 0
            \/ \E i \in (req.exempt + 1)..Len(RepeatPrefix(req)) :
                 MinimumDestinationIntermediates(req) = Asked(req, i)
<1> DEFINE b == Len(RepeatPrefix(req))
           I == (req.exempt + 1)..b
           asked == [i \in I |-> Asked(req, i)]
           Values == {asked[i] : i \in I}
           All == {0} \cup Values
<1>1. b \in Nat /\ req.exempt \in Nat
  BY AdmittedFacts DEF Admitted, IsRequest
<1>2. \A i \in I : Asked(req, i) \in Nat
  <2> SUFFICES ASSUME NEW i \in I PROVE Asked(req, i) \in Nat
    OBVIOUS
  <2>1. RequiredWindow(req.tracks, req.w, RepeatPrefix(req)[i], req.right) \in Nat
    BY RequiredWindowIsNat
  <2>2. b + 1 - i \in Nat
    BY <1>1
  <2> QED
    BY <2>1, <2>2 DEF Asked, SaturatingSub
<1>3. IsFiniteSet(I)
  BY <1>1, FS_Interval, SMTT(30)
<1>4. MinimumDestinationIntermediates(req) = Max(All)
  <2>1. {Asked(req, i) : i \in I} = Values
    OBVIOUS
  <2> QED
    BY <2>1, Zenon DEF MinimumDestinationIntermediates, Asked
<1> HIDE DEF I, b
<1>5. asked \in Surjection(I, Values)
  BY DEF Surjection
<1>6. IsFiniteSet(Values)
  BY <1>3, <1>5, FS_Surjection
<1>7. IsFiniteSet(All)
  <2> HIDE DEF Values
  <2> QED
    BY <1>6, FS_AddElement, FS_Union, FS_Singleton
<1>8. All \in SUBSET Int /\ All # {} /\ \A x \in All : x \in Nat
  BY <1>2
<1>9. \A x \in All : x = 0 \/ \E i \in I : x = Asked(req, i)
  OBVIOUS
<1> HIDE DEF All
<1>10. \E m \in All : \A x \in All : m >= x
  BY <1>7, <1>8, MaximumExists
<1>11. Max(All) \in All
  BY <1>10 DEF Max
<1> QED
  BY <1>4, <1>8, <1>9, <1>11 DEF I, b

LEMMA FirstCountIs ==
  ASSUME NEW req, Admitted(req)
  PROVE  FirstCount(req) \in Nat /\ FirstCount(req) >= 1
         /\ (FirstCount(req) = 1 \/ FirstCount(req) = MinimumDestinationIntermediates(req))
BY MinimumIs DEF FirstCount, Larger

-----------------------------------------------------------------------------
LEMMA FrontierStepIsPartial ==
  ASSUME NEW req, Admitted(req), NEW k \in Nat, NEW n, NEW F,
         \A s \in F : PartialPath(req, k, s)
  PROVE  \A s \in NextFrontier(req, n, F) : PartialPath(req, k + 1, s)
<1> SUFFICES ASSUME NEW t \in NextFrontier(req, n, F) PROVE PartialPath(req, k + 1, t)
  OBVIOUS
<1>1. PICK s \in F : t \in Variants(req, n, s)
  BY DEF NextFrontier, Least
<1>2. PICK c \in Available(req) : MayExtend(req, n, s, c) /\ t = Extended(req, n, s, c)
  BY <1>1 DEF Variants
<1> QED
  BY <1>1, <1>2, ExtendedIsPartial

LEMMA SelectionsAreSubsets ==
  ASSUME NEW req, NEW C, NEW selected \in Selections(req, C)
  PROVE  selected \subseteq C
BY DEF Selections, Least, kSubset

LEMMA CompleteIsSound ==
  ASSUME NEW req, Admitted(req), NEW n \in Nat, NEW F,
         \A s \in F : PartialPath(req, n, s), NEW o \in Complete(req, n, F)
  PROVE  o \in GoodPaths(req, n)
<1>1. PICK s \in F : /\ PathSafe(req, s.intermediates) /\ PathReachable(req, s.intermediates)
                     /\ o = PathOption(req, s.intermediates)
  BY CompleteIsGood
<1>2. s.intermediates \in Paths(req, n)
  BY DEF PartialPath
<1> QED
  BY <1>1, <1>2 DEF GoodPaths

LEMMA GoodPathFacts ==
  ASSUME NEW req, NEW n \in Nat, NEW o \in GoodPaths(req, n)
  PROVE  /\ Len(o.intermediates) = n
         /\ o.intermediates \in Paths(req, n)
         /\ o = PathOption(req, o.intermediates)
<1>1. PICK path \in Paths(req, n) : o = PathOption(req, path)
  BY DEF GoodPaths
<1>2. o.intermediates = path
  BY <1>1 DEF PathOption
<1>3. Len(path) = n
  BY DEF Paths
<1> QED
  BY <1>1, <1>2, <1>3

-----------------------------------------------------------------------------
\* The frontiers of the layers of one count, as LastFrontier computes them.
AreFrontiers(f, req, n, k) ==
  f = [j \in 0..k |-> IF j = 0 THEN {EmptyPath} ELSE NextFrontier(req, n, f[j - 1])]

Frontiers(req, n) == CHOOSE f : AreFrontiers(f, req, n, n)

LEMMA FrontiersExist ==
  ASSUME NEW req, NEW n \in Nat
  PROVE  AreFrontiers(Frontiers(req, n), req, n, n)
<1> DEFINE Bad == {k \in 0..n : ~ \E f : AreFrontiers(f, req, n, k)}
<1>1. ASSUME Bad # {} PROVE FALSE
  <2>1. Bad \in SUBSET Nat
    OBVIOUS
  <2> HIDE DEF Bad
  <2>2. PICK k \in Bad : \A j \in Bad : k <= j
    BY <1>1, <2>1, LeastNatural
  <2>3. k \in 0..n /\ ~ \E f : AreFrontiers(f, req, n, k)
    BY DEF Bad
  <2>4. CASE k = 0
    <3>1. AreFrontiers([j \in 0..0 |-> {EmptyPath}], req, n, 0)
      BY DEF AreFrontiers
    <3> QED
      BY <2>3, <2>4, <3>1
  <2>5. CASE k # 0
    <3>1. k - 1 \in 0..n /\ ~(k <= k - 1)
      BY <2>3, <2>5
    <3>2. PICK f : AreFrontiers(f, req, n, k - 1)
      BY <2>2, <3>1 DEF Bad
    <3> DEFINE g == [j \in 0..k |-> IF j = k THEN NextFrontier(req, n, f[k - 1]) ELSE f[j]]
    <3>3. \A j \in 0..(k - 1) :
            f[j] = IF j = 0 THEN {EmptyPath} ELSE NextFrontier(req, n, f[j - 1])
      BY <3>2 DEF AreFrontiers
    <3>4. ASSUME NEW j \in 0..k
          PROVE  g[j] = IF j = 0 THEN {EmptyPath} ELSE NextFrontier(req, n, g[j - 1])
      <4>1. CASE j = k
        <5>1. k - 1 \in 0..k /\ k - 1 # k /\ k \in 0..k
          BY <2>3, <2>5
        <5>2. g[k - 1] = f[k - 1] /\ g[k] = NextFrontier(req, n, f[k - 1])
          BY <5>1
        <5> QED
          BY <4>1, <5>2, <2>5
      <4>2. CASE j # k
        <5>1. j \in 0..(k - 1) /\ (j # 0 => j - 1 \in 0..k /\ j - 1 # k)
          BY <4>2, <2>3
        <5>2. g[j] = f[j] /\ (j # 0 => g[j - 1] = f[j - 1])
          BY <4>2, <5>1
        <5> QED
          BY <3>3, <5>1, <5>2
      <4> QED
        BY <4>1, <4>2
    <3>5. DOMAIN g = 0..k /\ g = [j \in 0..k |-> g[j]]
      OBVIOUS
    <3> HIDE DEF g
    <3>6. AreFrontiers(g, req, n, k)
      BY <3>4, <3>5 DEF AreFrontiers
    <3> QED
      BY <2>3, <3>6
  <2> QED
    BY <2>4, <2>5
<1>2. n \in 0..n
  OBVIOUS
<1> QED
  BY <1>1, <1>2 DEF Frontiers

LEMMA FrontierSteps ==
  ASSUME NEW req, NEW n \in Nat
  PROVE  /\ Frontiers(req, n)[0] = {EmptyPath}
         /\ \A k \in 1..n : Frontiers(req, n)[k] = NextFrontier(req, n, Frontiers(req, n)[k - 1])
         /\ LastFrontier(req, n) = Frontiers(req, n)[n]
<1> DEFINE f == Frontiers(req, n)
<1>1. AreFrontiers(f, req, n, n)
  BY FrontiersExist
<1>2. LastFrontier(req, n) = f[n]
  BY DEF LastFrontier, Frontiers, AreFrontiers
<1> HIDE DEF f
<1>3. \A k \in 0..n : f[k] = IF k = 0 THEN {EmptyPath} ELSE NextFrontier(req, n, f[k - 1])
  BY <1>1 DEF AreFrontiers
<1>4. 0 \in 0..n /\ \A k \in 1..n : k \in 0..n /\ k # 0
  OBVIOUS
<1> QED
  BY <1>2, <1>3, <1>4 DEF f

\* Nothing grows from an empty frontier.
LEMMA FrontiersStayEmpty ==
  ASSUME NEW req, NEW n \in Nat, NEW k \in 0..n, Frontiers(req, n)[k] = {}
  PROVE  Frontiers(req, n)[n] = {}
<1> DEFINE Bad == {m \in k..n : Frontiers(req, n)[m] # {}}
<1>1. ASSUME Bad # {} PROVE FALSE
  <2>1. Bad \in SUBSET Nat
    OBVIOUS
  <2> HIDE DEF Bad
  <2>2. PICK m \in Bad : \A j \in Bad : m <= j
    BY <1>1, <2>1, LeastNatural
  <2>3. m \in k..n /\ Frontiers(req, n)[m] # {}
    BY DEF Bad
  <2>4. m - 1 \in k..n /\ ~(m <= m - 1) /\ m \in 1..n
    BY <2>3
  <2>5. Frontiers(req, n)[m - 1] = {}
    BY <2>2, <2>4 DEF Bad
  <2>6. Frontiers(req, n)[m] = NextFrontier(req, n, {})
    <3>1. \A j \in 1..n : Frontiers(req, n)[j] = NextFrontier(req, n, Frontiers(req, n)[j - 1])
      BY FrontierSteps
    <3> QED
      BY <2>4, <2>5, <3>1
  <2> QED
    BY <2>3, <2>6 DEF NextFrontier, Least
<1>2. n \in k..n
  OBVIOUS
<1> QED
  BY <1>1, <1>2

\* What has been returned for the counts below m.
ReturnedBelow(req, m) ==
  DirectOptions(req) \cup
  UNION UNION {Selections(req, Complete(req, n, LastFrontier(req, n))) :
                 n \in FirstCount(req)..(m - 1)}

LEMMA OneSelection ==
  ASSUME NEW req, req.variation = 0, NEW C
  PROVE  \E selected : Selections(req, C) = {selected}
BY Zenon DEF Selections

LEMMA ReturnedGrows ==
  ASSUME NEW req, Admitted(req), req.variation = 0, NEW m \in Nat, m >= FirstCount(req),
         NEW selected \in Selections(req, Complete(req, m, LastFrontier(req, m)))
  PROVE  ReturnedBelow(req, m + 1) = ReturnedBelow(req, m) \cup selected
<1> DEFINE Sel(n) == Selections(req, Complete(req, n, LastFrontier(req, n)))
           first == FirstCount(req)
<1>1. first \in Nat
  BY FirstCountIs
<1>2. Sel(m) = {selected}
  BY OneSelection
<1> HIDE DEF Sel
<1>3. first..((m + 1) - 1) = (first..(m - 1)) \cup {m}
  BY <1>1
<1>4. {Sel(n) : n \in (first..(m - 1)) \cup {m}} =
        {Sel(n) : n \in first..(m - 1)} \cup {{selected}}
  BY <1>2
<1>5. \A S : UNION UNION (S \cup {{selected}}) = (UNION UNION S) \cup selected
  OBVIOUS
<1> QED
  BY <1>3, <1>4, <1>5 DEF ReturnedBelow, Sel

-----------------------------------------------------------------------------
(***************************************************************************)
(* Limits that are wide enough cut nothing.  A state is known by its path, *)
(* so a layer is no larger than the set of all paths, and every prefix of  *)
(* a good path survives the layer it belongs to.                           *)
(***************************************************************************)
AllPaths(req) == UNION {Paths(req, n) : n \in 0..req.max}

PathsTell(F) == \A s, t \in F : s.intermediates = t.intermediates => s = t

LEMMA KeyOfPath ==
  ASSUME NEW a \in Int, NEW b \in Int, NEW c \in Int, NEW k \in Nat, NEW path \in [1..k -> Nat]
  PROVE  <<a, b, c>> \o path \in Keys(3 + k)
<1> DEFINE head == <<a, b, c>>
<1>1. head \in Seq(Int) /\ Len(head) = 3 /\ path \in Seq(Int) /\ Len(path) = k
  OBVIOUS
<1> HIDE DEF head
<1>2. head \o path \in Seq(Int) /\ Len(head \o path) = 3 + k
  <2>1. head \o path \in Seq(Int) /\ Len(head \o path) = Len(head) + Len(path)
    BY <1>1, Concatenated
  <2> QED
    BY <1>1, <2>1
<1> DEFINE key == head \o path
<1>3. key \in Seq(Int) /\ Len(key) = 3 + k
  BY <1>2
<1> HIDE DEF key
<1>4. key \in [1..Len(key) -> Int]
  BY <1>3, LenProperties
<1>5. key \in Keys(3 + k)
  BY <1>3, <1>4 DEF Keys
<1> QED
  BY <1>5 DEF head, key

LEMMA PathsAreFinite ==
  ASSUME NEW req, Admitted(req)
  PROVE  /\ \A n \in Nat : IsFiniteSet(Paths(req, n))
         /\ IsFiniteSet(AllPaths(req)) /\ Cardinality(AllPaths(req)) \in Nat
<1>1. ASSUME NEW n \in Nat PROVE IsFiniteSet(Paths(req, n))
  <2>1. IsFiniteSet([1..n -> Available(req)])
    BY AdmittedFacts, FiniteSequences
  <2>2. Paths(req, n) \in SUBSET [1..n -> Available(req)]
    BY DEF Paths
  <2> QED
    BY <2>1, <2>2, FS_Subset
<1> DEFINE N == 0..req.max
           of == [n \in N |-> Paths(req, n)]
           Each == {of[n] : n \in N}
<1>2. req.max \in Nat
  BY DEF Admitted, IsRequest
<1>3. IsFiniteSet(N) /\ \A n \in N : n \in Nat
  BY <1>2, FS_Interval
<1>4. \A P \in Each : IsFiniteSet(P)
  BY <1>1, <1>3
<1>5. AllPaths(req) = UNION Each
  BY DEF AllPaths
<1> HIDE DEF N
<1>6. of \in Surjection(N, Each)
  BY DEF Surjection
<1> HIDE DEF Each, of
<1>7. IsFiniteSet(Each)
  BY <1>3, <1>6, FS_Surjection
<1>8. IsFiniteSet(UNION Each)
  BY <1>4, <1>7, FS_UNION
<1> QED
  BY <1>1, <1>5, <1>8, FS_CardinalityType

\* The estimate of a new state is a number.
LEMMA EstimateIsInt ==
  ASSUME NEW req, Admitted(req), NEW k \in Nat, NEW n \in Nat, NEW s, PartialPath(req, k, s),
         NEW c \in Available(req), MayExtend(req, n, s, c)
  PROVE  PartialKey(Extended(req, n, s, c)) \in Keys(3 + (k + 1))
<1> DEFINE e == Extended(req, n, s, c)
           path == s.intermediates
           longer == Append(path, c)
           edge == ScoreLeg(req, req.prefix \o path, c)
           direct == ScoreLeg(req, Append(req.prefix \o path, c), req.right)
           rest == IF direct = Unreachable THEN 0 ELSE direct
           worst == Larger(s.worst, edge)
<1>1. PartialPath(req, k + 1, e)
  BY ExtendedIsPartial
<1>2. /\ e.intermediates \in [1..(k + 1) -> Nat] /\ e.sum \in Nat /\ e.worst \in Nat
      /\ e.guidance \in Int
  <2>1. e.intermediates \in [1..(k + 1) -> Available(req)]
    BY <1>1 DEF PartialPath, Paths
  <2>2. Guided(req, e.intermediates) \in [1..(k + 1) -> Int]
    <3> DEFINE p == e.intermediates
    <3>1. p \in [1..(k + 1) -> DOMAIN req.candidates]
      BY <2>1, AdmittedFacts
    <3> HIDE DEF p
    <3>2. Guided(req, p) \in [1..(k + 1) -> Int]
      BY <3>1 DEF Guided, Admitted, IsRequest
    <3> QED
      BY <3>2 DEF p
  <2>3. e.sum = Total(LegsTo(req, e.intermediates)) /\ e.guidance = Total(Guided(req, e.intermediates))
        /\ LegsTo(req, e.intermediates) \in [1..(k + 1) -> Nat] /\ e.worst \in Nat
    BY <1>1 DEF PartialPath, IsBottleneck
  <2>4. k + 1 \in Nat
    OBVIOUS
  <2> HIDE DEF e
  <2>5. e.sum \in Nat
    BY <2>3, <2>4, TotalIsNat
  <2>6. e.guidance \in Int
    BY <2>2, <2>3, <2>4, TotalIsInt
  <2> QED
    BY <2>1, <2>3, <2>5, <2>6, AdmittedFacts
<1>3. /\ e.sum = s.sum + edge /\ e.worst = worst
      /\ e.lowerSum = s.sum + edge + rest
      /\ e.lowerWorst = Larger(worst * (n - Len(path)), rest)
  BY DEF Extended
<1>4. Len(path) \in Nat /\ path \in [1..k -> Nat]
  <2>1. path \in [1..k -> Available(req)]
    BY DEF PartialPath, Paths
  <2> QED
    BY <2>1, AdmittedFacts
<1>5. rest \in Nat
  <2>1. c \notin Elements(path) /\ path \in Paths(req, k)
    BY DEF MayExtend, PartialPath
  <2>2. longer \in Paths(req, k + 1)
    BY <2>1, LongerPath
  <2>3. longer \in [1..(k + 1) -> Available(req)]
    BY <2>2 DEF Paths
  <2>4. Append(req.prefix \o path, c) = req.prefix \o longer
    <3>1. req.prefix \in Seq(Nat) /\ path \in Seq(Nat) /\ c \in Nat
      <4>1. req.prefix \in Seq(Nat) /\ Available(req) \subseteq Nat
        BY AdmittedFacts
      <4> QED
        BY <1>4, <4>1
    <3>2. req.prefix \o path \in Seq(Nat) /\ <<c>> \in Seq(Nat)
      BY <3>1, ConcatProperties
    <3>3. \A f \in Seq(Nat) : Append(f, c) = f \o <<c>>
      BY <3>1
    <3>4. (req.prefix \o path) \o <<c>> = req.prefix \o (path \o <<c>>)
      BY <3>1, <3>2, JoinedInTurn
    <3>5. /\ Append(req.prefix \o path, c) = (req.prefix \o path) \o <<c>>
          /\ Append(path, c) = path \o <<c>>
      BY <3>1, <3>2, <3>3
    <3> QED
      BY <3>4, <3>5
  <2>5. k + 1 \in Nat /\ longer \in [1..(k + 1) -> Nat]
    BY <2>3, AdmittedFacts
  <2> HIDE DEF longer
  <2>6. ScoreLeg(req, req.prefix \o longer, req.right) = LastLeg(req, k + 1, longer)
    BY <2>5, LastOfPath DEF ScoreLeg, LastLeg
  <2>7. LastLeg(req, k + 1, longer) \in Nat \cup {Unreachable}
    BY <2>3, <2>5, LegFacts
  <2> QED
    BY <2>4, <2>6, <2>7
<1> HIDE DEF rest, edge, worst, e
<1>6. e.lowerSum \in Int
  BY <1>2, <1>3, <1>5
<1>7. e.lowerWorst \in Int
  <2>1. worst * (n - Len(path)) \in Int
    <3>1. worst \in Int /\ n - Len(path) \in Int
      BY <1>2, <1>3, <1>4
    <3>2. \A x, y \in Int : x * y \in Int
      OBVIOUS
    <3> QED
      BY <3>1, <3>2
  <2> DEFINE estimate == worst * (n - Len(path))
  <2> HIDE DEF estimate
  <2>2. estimate \in Int /\ e.lowerWorst = Larger(estimate, rest)
    BY <1>3, <2>1 DEF estimate
  <2> QED
    BY <1>5, <2>2 DEF Larger
<1>8. PartialKey(e) = <<e.lowerWorst, e.lowerSum, -e.guidance>> \o e.intermediates
  BY DEF PartialKey
<1>9. -e.guidance \in Int /\ k + 1 \in Nat
  BY <1>2
<1>10. e.intermediates \in [1..(k + 1) -> Nat]
  BY <1>2
<1>11. k + 1 \in Nat /\ -e.guidance \in Int
  BY <1>9
<1>12. <<e.lowerWorst, e.lowerSum, -e.guidance>> \o e.intermediates \in Keys(3 + (k + 1))
  BY <1>6, <1>7, <1>10, <1>11, KeyOfPath, Zenon
<1>13. PartialKey(e) \in Keys(3 + (k + 1))
  BY <1>8, <1>12, Zenon
<1> QED
  BY <1>13, Zenon DEF e

\* A limit no smaller than the set cuts nothing from it.
LEMMA LeastPartialIsAll ==
  ASSUME NEW S, IsFiniteSet(S), NEW d \in Nat, \A t \in S : PartialKey(t) \in Keys(d),
         NEW m \in Nat, Cardinality(S) <= m
  PROVE  Least(S, m, PartialKey) = S
<1> DEFINE key == [t \in S |-> PartialKey(t)]
<1>1. key \in [S -> Keys(d)]
  OBVIOUS
<1>2. Least(S, m, PartialKey) = Leading(S, m, key)
  <2>1. ASSUME NEW s \in S
        PROVE  {t \in S : LexBefore(PartialKey(t), PartialKey(s))} = Predecessors(S, key, s)
    BY DEF Predecessors
  <2> QED
    BY <2>1 DEF Least, Leading
<1> HIDE DEF key
<1> QED
  BY <1>1, <1>2, AllKept

LEMMA VariantsAreFew ==
  ASSUME NEW req, Admitted(req), NEW n, NEW s
  PROVE  /\ IsFiniteSet(Variants(req, n, s))
         /\ Cardinality(Variants(req, n, s)) <= Cardinality(Available(req))
<1> DEFINE C == {c \in Available(req) : MayExtend(req, n, s, c)}
           grown == [c \in C |-> Extended(req, n, s, c)]
           V == Variants(req, n, s)
<1>1. C \in SUBSET Available(req)
  OBVIOUS
<1>2. IsFiniteSet(C) /\ Cardinality(C) <= Cardinality(Available(req))
  BY <1>1, AdmittedFacts, FS_Subset
<1>3. V = {grown[c] : c \in C}
  BY DEF Variants
<1> HIDE DEF C
<1>4. grown \in Surjection(C, V)
  BY <1>3 DEF Surjection
<1> HIDE DEF grown, V
<1>5. IsFiniteSet(V) /\ Cardinality(V) <= Cardinality(C)
  BY <1>2, <1>4, FS_Surjection
<1>6. Cardinality(V) \in Nat /\ Cardinality(C) \in Nat /\ Cardinality(Available(req)) \in Nat
  BY <1>2, <1>5, FS_CardinalityType, AdmittedFacts
<1> QED
  BY <1>2, <1>5, <1>6 DEF V

\* The last step of a path tells the path before it and the candidate.
LEMMA AppendTells ==
  ASSUME NEW req, Admitted(req), NEW k \in Nat,
         NEW p \in Paths(req, k), NEW c \in Available(req), c \notin Elements(p),
         NEW q \in Paths(req, k), NEW d \in Available(req), d \notin Elements(q),
         Append(p, c) = Append(q, d)
  PROVE  p = q /\ c = d
<1>1. /\ Append(p, c)[k + 1] = c /\ \A i \in 1..k : Append(p, c)[i] = p[i]
      /\ Append(q, d)[k + 1] = d /\ \A i \in 1..k : Append(q, d)[i] = q[i]
  <2>1. ASSUME NEW r \in Paths(req, k), NEW e \in Available(req), e \notin Elements(r)
        PROVE  Append(r, e)[k + 1] = e /\ \A i \in 1..k : Append(r, e)[i] = r[i]
    <3>1. /\ Append(r, e)[k + 1] = e
          /\ \A i \in 1..k : Append(r, e)[i] = r[i]
      BY <2>1, LongerPath
    <3> QED
      BY <3>1
  <2> QED
    BY <2>1
<1>2. p \in [1..k -> Available(req)] /\ q \in [1..k -> Available(req)]
  BY DEF Paths
<1>3. \A i \in 1..k : p[i] = q[i]
  BY <1>1
<1> QED
  BY <1>1, <1>2, <1>3

\* A wide layer is everything its states extend to.
LEMMA WideLayer ==
  ASSUME NEW req, Admitted(req), Wide(req), NEW n \in Nat, n <= req.max,
         NEW k \in Nat, k < n, NEW F, \A s \in F : PartialPath(req, k, s), PathsTell(F)
  PROVE  /\ NextFrontier(req, n, F) = UNION {Variants(req, n, s) : s \in F}
         /\ PathsTell(NextFrontier(req, n, F))
<1> DEFINE V(s) == Variants(req, n, s)
           U == UNION {V(s) : s \in F}
           d == 3 + (k + 1)
<1>1. d \in Nat /\ k + 1 \in Nat
  OBVIOUS
<1>2. /\ req.candidateLimit \in Nat /\ req.beam \in Nat /\ req.max \in Nat
      /\ Cardinality(Available(req)) <= req.candidateLimit
      /\ Cardinality(AllPaths(req)) <= req.beam
  BY DEF Admitted, IsRequest, Wide, AllPaths
<1>3. ASSUME NEW s \in F, NEW t \in V(s)
      PROVE  /\ PartialPath(req, k + 1, t) /\ PartialKey(t) \in Keys(d)
             /\ \E c \in Available(req) :
                  c \notin Elements(s.intermediates)
                  /\ t = Extended(req, n, s, c)
                  /\ t.intermediates = Append(s.intermediates, c)
  <2>1. PICK c \in Available(req) : MayExtend(req, n, s, c) /\ t = Extended(req, n, s, c)
    BY DEF Variants
  <2>2. PartialPath(req, k + 1, t)
    BY <2>1, ExtendedIsPartial
  <2>3. PartialKey(t) \in Keys(d)
    BY <2>1, EstimateIsInt
  <2>4. c \notin Elements(s.intermediates) /\ t.intermediates = Append(s.intermediates, c)
    BY <2>1 DEF MayExtend, Extended
  <2> QED
    BY <2>1, <2>2, <2>3, <2>4
<1> HIDE DEF d
<1>4. ASSUME NEW s \in F PROVE Least(V(s), req.candidateLimit, PartialKey) = V(s)
  <2>1. IsFiniteSet(V(s)) /\ Cardinality(V(s)) <= Cardinality(Available(req))
    BY VariantsAreFew
  <2>2. Cardinality(V(s)) <= req.candidateLimit
    <3>1. Cardinality(V(s)) \in Nat /\ Cardinality(Available(req)) \in Nat
      BY <2>1, FS_CardinalityType, AdmittedFacts
    <3> QED
      BY <1>2, <2>1, <3>1
  <2>3. \A t \in V(s) : PartialKey(t) \in Keys(d)
    BY <1>3
  <2> HIDE DEF V
  <2> QED
    BY <1>1, <1>2, <2>1, <2>2, <2>3, LeastPartialIsAll
<1>5. NextFrontier(req, n, F) = Least(U, req.beam, PartialKey)
  <2>1. {Least(V(s), req.candidateLimit, PartialKey) : s \in F} = {V(s) : s \in F}
    BY <1>4
  <2> QED
    BY <2>1, Zenon DEF NextFrontier
<1>6. PathsTell(U)
  <2> SUFFICES ASSUME NEW t \in U, NEW u \in U, t.intermediates = u.intermediates
               PROVE  t = u
    BY DEF PathsTell
  <2>1. PICK s \in F : t \in V(s)
    OBVIOUS
  <2>2. PICK r \in F : u \in V(r)
    OBVIOUS
  <2>3. PICK c \in Available(req) :
          c \notin Elements(s.intermediates) /\ t = Extended(req, n, s, c)
          /\ t.intermediates = Append(s.intermediates, c)
    BY <1>3, <2>1
  <2>4. PICK b \in Available(req) :
          b \notin Elements(r.intermediates) /\ u = Extended(req, n, r, b)
          /\ u.intermediates = Append(r.intermediates, b)
    BY <1>3, <2>2
  <2>5. s.intermediates \in Paths(req, k) /\ r.intermediates \in Paths(req, k)
    BY DEF PartialPath
  <2>6. s.intermediates = r.intermediates /\ c = b
    <3>1. Append(s.intermediates, c) = Append(r.intermediates, b)
      BY <2>3, <2>4
    <3> QED
      BY <2>3, <2>4, <2>5, <3>1, AppendTells
  <2>7. s = r
    BY <2>6 DEF PathsTell
  <2> QED
    BY <2>3, <2>4, <2>6, <2>7
<1>7. \A t \in U : PartialPath(req, k + 1, t) /\ PartialKey(t) \in Keys(d)
  BY <1>3
<1>8. \A t \in U : t.intermediates \in AllPaths(req)
  <2>1. k + 1 \in 0..req.max
    BY <1>2
  <2> QED
    BY <1>7, <2>1 DEF AllPaths, PartialPath
<1> HIDE DEF U
<1>9. IsFiniteSet(U) /\ Cardinality(U) <= req.beam
  <2> DEFINE told == [t \in U |-> t.intermediates]
  <2>1. told \in Injection(U, AllPaths(req))
    BY <1>6, <1>8 DEF Injection, IsInjective, PathsTell
  <2> HIDE DEF told
  <2>2. IsFiniteSet(AllPaths(req)) /\ Cardinality(AllPaths(req)) \in Nat
    BY PathsAreFinite
  <2>3. IsFiniteSet(U) /\ Cardinality(U) <= Cardinality(AllPaths(req))
    BY <2>1, <2>2, FS_Injection
  <2>4. Cardinality(U) \in Nat
    BY <2>3, FS_CardinalityType
  <2> QED
    BY <1>2, <2>2, <2>3, <2>4
<1>10. Least(U, req.beam, PartialKey) = U
  BY <1>1, <1>2, <1>7, <1>9, LeastPartialIsAll
<1> QED
  BY <1>5, <1>6, <1>10 DEF U

-----------------------------------------------------------------------------
IsGood(req, n, p) == p \in Paths(req, n) /\ PathSafe(req, p) /\ PathReachable(req, p)

Upto(p, k) == [i \in 1..k |-> p[i]]

LEMMA UptoFacts ==
  ASSUME NEW req, Admitted(req), NEW n \in Nat, NEW p \in Paths(req, n), NEW k \in 0..n
  PROVE  /\ Upto(p, k) \in Paths(req, k) /\ Upto(p, k) \in [1..k -> Nat]
         /\ Upto(p, k) \in Seq(Nat) /\ Len(Upto(p, k)) = k
         /\ \A i \in 1..k : Upto(p, k)[i] = p[i]
         /\ Upto(p, n) = p
<1>1. p \in [1..n -> Available(req)] /\ IsInjective(p)
  BY DEF Paths
<1>2. \A i \in 1..k : i \in 1..n
  OBVIOUS
<1>3. Upto(p, k) \in [1..k -> Available(req)] /\ \A i \in 1..k : Upto(p, k)[i] = p[i]
  BY <1>1, <1>2 DEF Upto
<1>4. IsInjective(Upto(p, k))
  BY <1>1, <1>2, <1>3 DEF IsInjective
<1>5. Upto(p, n) = p
  BY <1>1 DEF Upto
<1>6. Upto(p, k) \in [1..k -> Nat] /\ Upto(p, k) \in Seq(Nat) /\ Len(Upto(p, k)) = k
  <2>1. Upto(p, k) \in [1..k -> Nat]
    BY <1>3, AdmittedFacts
  <2> QED
    BY <2>1
<1> QED
  BY <1>3, <1>4, <1>5, <1>6 DEF Paths

\* The context, what is placed of a path, and its next track.
LEMMA NextPosition ==
  ASSUME NEW req, Admitted(req), NEW n \in Nat, NEW p \in Paths(req, n),
         NEW k \in Nat, k < n
  PROVE  LET b == Len(RepeatPrefix(req))
             grown == Append(RepeatPrefix(req) \o Upto(p, k), p[k + 1])
         IN /\ b \in Nat
            /\ Len(RepeatPrefix(req) \o Upto(p, k)) = b + k
            /\ DOMAIN grown = 1..(b + k + 1)
            /\ \A i \in 1..(b + k + 1) : grown[i] = ClosedRoute(req, p)[i]
<1> DEFINE before == RepeatPrefix(req)
           b == Len(before)
           upto == Upto(p, k)
           c == p[k + 1]
           front == before \o upto
           grown == Append(front, c)
           route == ClosedRoute(req, p)
<1>1. k \in 0..n /\ k + 1 \in 1..n
  OBVIOUS
<1>2. p \in [1..n -> Nat]
  BY AdmittedFacts DEF Paths
<1>3. /\ upto \in Seq(Nat) /\ Len(upto) = k /\ c \in Nat
      /\ \A i \in 1..k : upto[i] = p[i]
  BY <1>1, <1>2, UptoFacts
<1>4. before \in Seq(Nat) /\ b \in Nat
  BY AdmittedFacts
<1>5. /\ \A i \in 1..b : route[i] = before[i]
      /\ \A i \in 1..n : route[b + i] = p[i]
  <2>1. LET d == Len(RepeatPrefix(req)) IN
        /\ \A i \in 1..d : ClosedRoute(req, p)[i] = RepeatPrefix(req)[i]
        /\ \A i \in 1..n : ClosedRoute(req, p)[d + i] = p[i]
    BY <1>2, RouteFacts
  <2> QED
    BY <2>1
<1> HIDE DEF before, upto, c, route
<1>6. /\ front \in Seq(Nat) /\ Len(front) = b + k
      /\ \A i \in 1..b : front[i] = before[i]
      /\ \A i \in 1..k : front[b + i] = upto[i]
  <2>1. /\ before \o upto \in Seq(Nat) /\ Len(before \o upto) = Len(before) + Len(upto)
        /\ \A i \in 1..Len(before) : (before \o upto)[i] = before[i]
        /\ \A i \in 1..Len(upto) : (before \o upto)[Len(before) + i] = upto[i]
    <3>1. ASSUME NEW u \in Seq(Nat), NEW v \in Seq(Nat)
          PROVE  /\ u \o v \in Seq(Nat) /\ Len(u \o v) = Len(u) + Len(v)
                 /\ \A i \in 1..Len(u) : (u \o v)[i] = u[i]
                 /\ \A i \in 1..Len(v) : (u \o v)[Len(u) + i] = v[i]
      BY Concatenated
    <3> QED
      BY <1>3, <1>4, <3>1
  <2> QED
    BY <1>3, <2>1
<1> HIDE DEF front, b
<1>7. /\ DOMAIN grown = 1..(b + k + 1) /\ grown[b + k + 1] = c
      /\ \A i \in 1..(b + k) : grown[i] = front[i]
  <2>1. ASSUME NEW f \in Seq(Nat), NEW m \in Nat, Len(f) = m
        PROVE  /\ DOMAIN Append(f, c) = 1..(m + 1) /\ Append(f, c)[m + 1] = c
               /\ \A i \in 1..m : Append(f, c)[i] = f[i]
    BY <1>3, <2>1
  <2>2. b + k \in Nat
    BY <1>4
  <2> QED
    BY <1>6, <2>1, <2>2
<1> HIDE DEF grown
<1>8. ASSUME NEW i \in 1..(b + k + 1) PROVE grown[i] = route[i]
  <2>1. CASE i \in 1..b
    <3>1. i \in 1..(b + k)
      BY <1>4, <2>1
    <3> QED
      BY <1>5, <1>6, <1>7, <2>1, <3>1
  <2>2. CASE i \in (b + 1)..(b + k)
    <3>1. i - b \in 1..k /\ b + (i - b) = i /\ i \in 1..(b + k) /\ i - b \in 1..n
      BY <1>1, <1>4, <2>2
    <3>2. grown[i] = upto[i - b] /\ route[i] = p[i - b]
      BY <1>5, <1>6, <1>7, <3>1
    <3> QED
      BY <1>3, <3>1, <3>2
  <2>3. CASE i = b + k + 1
    <3>1. b + (k + 1) = b + k + 1
      BY <1>4
    <3>2. route[i] = p[k + 1]
      BY <1>1, <1>5, <2>3, <3>1
    <3> QED
      BY <1>7, <2>3, <3>2 DEF c
  <2> QED
    BY <1>4, <2>1, <2>2, <2>3
<1> QED
  BY <1>4, <1>6, <1>7, <1>8 DEF before, b, upto, c, front, grown, route

\* The checks of a layer let the next track of a good path through: the pruning
\* by distance to the right anchor never asks for more than the anchor does.
LEMMA GoodPathGrows ==
  ASSUME NEW req, Admitted(req), NEW n \in Nat, NEW p, IsGood(req, n, p),
         NEW k \in Nat, k < n, NEW s, s.intermediates = Upto(p, k)
  PROVE  p[k + 1] \in Available(req) /\ MayExtend(req, n, s, p[k + 1])
<1> DEFINE b == Len(RepeatPrefix(req))
           c == p[k + 1]
           front == RepeatPrefix(req) \o Upto(p, k)
           grown == Append(front, c)
           route == ClosedRoute(req, p)
           e == req.exempt
           m == b + n + 1
           Apart(i, j, d) == PairSafe(req.tracks, req.w, route[i], route[j], d)
<1>1. /\ p \in Paths(req, n) /\ p \in [1..n -> Available(req)] /\ IsInjective(p)
      /\ PathSafe(req, p) /\ PathReachable(req, p)
  BY DEF IsGood, Paths
<1>2. p \in [1..n -> Nat] /\ k + 1 \in 1..n /\ k \in 0..n
  BY <1>1, AdmittedFacts
<1>3. b \in Nat /\ e \in 0..b
  BY AdmittedFacts DEF Admitted, IsRequest
<1>4. /\ Len(front) = b + k /\ DOMAIN grown = 1..(b + k + 1)
      /\ \A i \in 1..(b + k + 1) : grown[i] = route[i]
  <2>1. LET d == Len(RepeatPrefix(req))
            g == Append(RepeatPrefix(req) \o Upto(p, k), p[k + 1])
        IN /\ Len(RepeatPrefix(req) \o Upto(p, k)) = d + k
           /\ DOMAIN g = 1..(d + k + 1)
           /\ \A i \in 1..(d + k + 1) : g[i] = ClosedRoute(req, p)[i]
    BY <1>1, NextPosition
  <2> QED
    BY <2>1
<1>5. Len(route) = m /\ route[b + (k + 1)] = c /\ route[m] = req.right
  <2>1. LET d == Len(RepeatPrefix(req)) IN
        /\ Len(ClosedRoute(req, p)) = d + n + 1
        /\ \A i \in 1..n : ClosedRoute(req, p)[d + i] = p[i]
        /\ ClosedRoute(req, p)[d + n + 1] = req.right
    BY <1>2, RouteFacts
  <2> QED
    BY <1>2, <2>1
<1>6. \A j \in (b + 1)..m : \A i \in 1..(j - 1) :
        (j = m /\ i <= e) \/ Apart(i, j, j - i)
  BY <1>1, <1>5 DEF PathSafe, ClosedRoute
<1> HIDE DEF b, route, e, Apart
<1>7. c \notin Elements(Upto(p, k))
  <2>1. \A x \in Elements(Upto(p, k)) : \E i \in 1..k : x = p[i]
    <3>1. DOMAIN Upto(p, k) = 1..k /\ \A i \in 1..k : Upto(p, k)[i] = p[i]
      BY DEF Upto
    <3> HIDE DEF c
    <3> QED
      BY <3>1 DEF Elements
  <2>2. \A i \in 1..k : i \in 1..n /\ i # k + 1
    BY <1>2
  <2> QED
    BY <1>1, <1>2, <2>1, <2>2 DEF IsInjective
<1>8. Len(s.intermediates) = k
  BY <1>1, <1>2, UptoFacts
<1>9. ~ConflictsWithDestination(req, c, n - k)
  <2> DEFINE i == b + (k + 1)
  <2>1. m \in (b + 1)..m /\ i \in 1..(m - 1) /\ ~(i <= e) /\ m - i = n - k
    BY <1>2, <1>3
  <2>2. Apart(i, m, m - i)
    BY <1>6, <2>1
  <2> QED
    BY <1>5, <2>1, <2>2 DEF Apart, PairSafe, ConflictsWithDestination
<1>10. GeneratedPositionsRepeatSafe(req, grown, Len(front) + 1, 1)
  <2> DEFINE j == b + k + 1
  <2>1. j \in Nat /\ j..(j + 1 - 1) = {j} /\ j \in (b + 1)..m /\ j # m /\ j \in 1..j
    BY <1>2, <1>3
  <2>2. ASSUME NEW i \in (1..j) \ {j}
        PROVE  PairSafe(req.tracks, req.w, grown[i], grown[j], Gap(j, i))
    <3>1. i \in 1..(j - 1) /\ Gap(j, i) = j - i
      BY <2>1 DEF Gap
    <3>2. Apart(i, j, j - i)
      BY <1>6, <2>1, <3>1
    <3>3. grown[i] = route[i] /\ grown[j] = route[j]
      BY <1>4, <2>1
    <3> QED
      BY <3>1, <3>2, <3>3 DEF Apart
  <2>3. Len(front) + 1 = j /\ DOMAIN grown = 1..j
    BY <1>4
  <2> HIDE DEF j, grown, front
  <2>4. PositionRepeatSafe(grown, req.tracks, req.w, j)
    BY <2>2, <2>3, PositionIsSafe
  <2>5. (Len(front) + 1)..(Len(front) + 1 + 1 - 1) = {j}
    BY <2>1, <2>3
  <2> QED
    BY <2>4, <2>5 DEF GeneratedPositionsRepeatSafe
<1>11. ScoreLeg(req, front, c) # Unreachable
  <2>1. ScoreLeg(req, front, c) = req.distance[<<LegStart(req, Upto(p, k), k + 1), c>>]
    <3>1. Upto(p, k) \in [1..k -> Nat]
      BY <1>1, <1>2, UptoFacts
    <3> QED
      BY <3>1, LastOfPath DEF ScoreLeg
  <2>2. LegStart(req, Upto(p, k), k + 1) = LegStart(req, p, k + 1)
    <3>1. k + 1 = 1 \/ (k + 1) - 1 \in 1..k
      OBVIOUS
    <3>2. \A i \in 1..k : Upto(p, k)[i] = p[i]
      BY DEF Upto
    <3> QED
      BY <3>1, <3>2 DEF LegStart
  <2>3. LegsTo(req, p)[k + 1] = req.distance[<<LegStart(req, p, k + 1), c>>]
    BY <1>2 DEF LegsTo
  <2>4. Legs(req, p)[k + 1] = LegsTo(req, p)[k + 1] /\ k + 1 \in DOMAIN Legs(req, p)
    <3>1. /\ DOMAIN Legs(req, p) = 1..(n + 1)
          /\ \A i \in 1..n : Legs(req, p)[i] = LegsTo(req, p)[i]
      BY <1>1, LegFacts
    <3>2. k + 1 \in 1..(n + 1)
      OBVIOUS
    <3> QED
      BY <1>2, <3>1, <3>2
  <2>5. Legs(req, p)[k + 1] # Unreachable
    BY <1>1, <2>4 DEF PathReachable, Range
  <2> QED
    BY <2>1, <2>2, <2>3, <2>4, <2>5
<1>12. c \in Available(req)
  BY <1>1, <1>2
<1> HIDE DEF c
<1>13. MayExtend(req, n, s, c)
  BY <1>7, <1>8, <1>9, <1>10, <1>11 DEF MayExtend
<1> QED
  BY <1>12, <1>13 DEF c

\* What a wide layer holds: partial paths, each once, and every prefix of a good
\* path.
LayerIsWide(req, n, k, F) ==
  /\ \A s \in F : PartialPath(req, k, s)
  /\ PathsTell(F)
  /\ \A p : IsGood(req, n, p) => \E s \in F : s.intermediates = Upto(p, k)

LEMMA WideLayerGrows ==
  ASSUME NEW req, Admitted(req), Wide(req), NEW n \in Nat, n <= req.max,
         NEW k \in Nat, k < n, NEW F, LayerIsWide(req, n, k, F)
  PROVE  LayerIsWide(req, n, k + 1, NextFrontier(req, n, F))
<1> DEFINE G == NextFrontier(req, n, F)
<1>1. \A s \in F : PartialPath(req, k, s)
  BY DEF LayerIsWide
<1>2. PathsTell(F)
  BY DEF LayerIsWide
<1>3. G = UNION {Variants(req, n, s) : s \in F} /\ PathsTell(G)
  BY <1>1, <1>2, WideLayer
<1>4. \A s \in G : PartialPath(req, k + 1, s)
  BY <1>1, FrontierStepIsPartial
<1>5. ASSUME NEW p, IsGood(req, n, p) PROVE \E t \in G : t.intermediates = Upto(p, k + 1)
  <2>1. PICK s \in F : s.intermediates = Upto(p, k)
    BY <1>5 DEF LayerIsWide
  <2>2. p[k + 1] \in Available(req) /\ MayExtend(req, n, s, p[k + 1])
    BY <1>5, <2>1, GoodPathGrows
  <2> DEFINE t == Extended(req, n, s, p[k + 1])
  <2>3. t \in G
    BY <1>3, <2>2 DEF Variants
  <2>4. t.intermediates = Append(Upto(p, k), p[k + 1])
    BY <2>1 DEF Extended
  <2>5. Append(Upto(p, k), p[k + 1]) = Upto(p, k + 1)
    <3> DEFINE u == Upto(p, k)
               c == p[k + 1]
    <3>1. p \in Paths(req, n) /\ k \in 0..n
      BY <1>5 DEF IsGood
    <3>2. u \in Seq(Nat) /\ Len(u) = k /\ c \in Nat /\ \A i \in 1..k : u[i] = p[i]
      <4>1. /\ Upto(p, k) \in Seq(Nat) /\ Len(Upto(p, k)) = k
            /\ \A i \in 1..k : Upto(p, k)[i] = p[i]
        BY <3>1, UptoFacts
      <4>2. p[k + 1] \in Nat
        BY <2>2, AdmittedFacts
      <4> QED
        BY <4>1, <4>2
    <3> HIDE DEF u, c
    <3>3. /\ DOMAIN Append(u, c) = 1..(k + 1) /\ Append(u, c)[k + 1] = c
          /\ \A i \in 1..k : Append(u, c)[i] = u[i]
          /\ Append(u, c) = [i \in 1..(k + 1) |-> Append(u, c)[i]]
      <4>1. ASSUME NEW v \in Seq(Nat), NEW m \in Nat, Len(v) = m, NEW d \in Nat
            PROVE  /\ DOMAIN Append(v, d) = 1..(m + 1) /\ Append(v, d)[m + 1] = d
                   /\ \A i \in 1..m : Append(v, d)[i] = v[i]
                   /\ Append(v, d) = [i \in 1..(m + 1) |-> Append(v, d)[i]]
        <5>1. /\ Append(v, d) \in Seq(Nat) /\ Len(Append(v, d)) = m + 1
              /\ Append(v, d)[m + 1] = d /\ \A i \in 1..m : Append(v, d)[i] = v[i]
          BY <4>1, AppendProperties
        <5> DEFINE w == Append(v, d)
        <5> HIDE DEF w
        <5>2. w \in [1..(m + 1) -> Nat]
          BY <5>1, LenProperties DEF w
        <5>3. DOMAIN w = 1..(m + 1) /\ w = [i \in 1..(m + 1) |-> w[i]]
          BY <5>2
        <5> QED
          BY <5>1, <5>3 DEF w
      <4> QED
        BY <3>2, <4>1
    <3>4. \A i \in 1..(k + 1) : Append(u, c)[i] = p[i]
      <4> SUFFICES ASSUME NEW i \in 1..(k + 1) PROVE Append(u, c)[i] = p[i]
        OBVIOUS
      <4>1. i = k + 1 \/ i \in 1..k
        OBVIOUS
      <4> QED
        BY <3>2, <3>3, <4>1 DEF c
    <3>5. Append(u, c) = [i \in 1..(k + 1) |-> p[i]]
      BY <3>3, <3>4
    <3> QED
      BY <3>5 DEF u, c, Upto
  <2> QED
    BY <2>3, <2>4, <2>5
<1> QED
  BY <1>3, <1>4, <1>5 DEF LayerIsWide

LEMMA WideFrontiers ==
  ASSUME NEW req, Admitted(req), Wide(req), NEW n \in Nat, n <= req.max
  PROVE  LayerIsWide(req, n, n, LastFrontier(req, n))
<1> DEFINE f == Frontiers(req, n)
           Bad == {k \in 0..n : ~LayerIsWide(req, n, k, f[k])}
<1>1. f[0] = {EmptyPath} /\ (\A k \in 1..n : f[k] = NextFrontier(req, n, f[k - 1]))
      /\ LastFrontier(req, n) = f[n]
  BY FrontierSteps
<1>2. LayerIsWide(req, n, 0, {EmptyPath})
  <2>1. \A s \in {EmptyPath} : PartialPath(req, 0, s)
    BY EmptyIsPartial
  <2>2. EmptyPath.intermediates = <<>> /\ \A p : Upto(p, 0) = <<>>
    BY DEF EmptyPath, Upto
  <2>3. \A p : \E s \in {EmptyPath} : s.intermediates = Upto(p, 0)
    BY <2>2
  <2> QED
    BY <2>1, <2>3 DEF LayerIsWide, PathsTell
<1> HIDE DEF f
<1>3. ASSUME Bad # {} PROVE FALSE
  <2>1. Bad \in SUBSET Nat
    OBVIOUS
  <2> HIDE DEF Bad
  <2>2. PICK k \in Bad : \A j \in Bad : k <= j
    BY <1>3, <2>1, LeastNatural
  <2>3. k \in 0..n /\ ~LayerIsWide(req, n, k, f[k])
    BY DEF Bad
  <2>4. k # 0
    BY <1>1, <1>2, <2>3
  <2>5. k - 1 \in 0..n /\ k - 1 \in Nat /\ k - 1 < n /\ k \in 1..n /\ ~(k <= k - 1)
        /\ (k - 1) + 1 = k
    BY <2>3, <2>4
  <2>6. LayerIsWide(req, n, k - 1, f[k - 1])
    BY <2>2, <2>5 DEF Bad
  <2>7. LayerIsWide(req, n, (k - 1) + 1, NextFrontier(req, n, f[k - 1]))
    BY <2>5, <2>6, WideLayerGrows
  <2> QED
    BY <1>1, <2>3, <2>5, <2>7
<1>4. n \in 0..n
  OBVIOUS
<1> QED
  BY <1>1, <1>3, <1>4

\* The options of a count are the reference's good paths, and each has a key.
LEMMA WideCompleteIsExact ==
  ASSUME NEW req, Admitted(req), NEW n \in Nat, NEW F, LayerIsWide(req, n, n, F)
  PROVE  /\ Complete(req, n, F) = GoodPaths(req, n)
         /\ IsFiniteSet(GoodPaths(req, n))
         /\ \A o \in GoodPaths(req, n) : CompleteKey(o) \in Keys(3 + n)
<1>1. \A s \in F : PartialPath(req, n, s)
  BY DEF LayerIsWide
<1>2. \A o \in Complete(req, n, F) : o \in GoodPaths(req, n)
  BY <1>1, CompleteIsSound
<1>3. ASSUME NEW o \in GoodPaths(req, n) PROVE o \in Complete(req, n, F)
  <2>1. PICK p \in Paths(req, n) :
          PathSafe(req, p) /\ PathReachable(req, p) /\ o = PathOption(req, p)
    BY DEF GoodPaths
  <2>2. PICK s \in F : s.intermediates = Upto(p, n)
    BY <2>1 DEF LayerIsWide, IsGood
  <2>3. n \in 0..n
    OBVIOUS
  <2>4. s.intermediates = p
    BY <2>2, <2>3, UptoFacts
  <2>5. Complete(req, n, F) =
           {PathOption(req, t.intermediates) : t \in {u \in F :
              PathSafe(req, u.intermediates) /\ PathReachable(req, u.intermediates)}}
    BY <1>1, CompleteIsGood
  <2> QED
    BY <2>1, <2>4, <2>5
<1>4. IsFiniteSet(GoodPaths(req, n))
  <2> DEFINE good == {p \in Paths(req, n) : PathSafe(req, p) /\ PathReachable(req, p)}
             made == [p \in good |-> PathOption(req, p)]
             G == GoodPaths(req, n)
  <2>1. IsFiniteSet(good)
    <3>1. good \in SUBSET Paths(req, n)
      OBVIOUS
    <3> HIDE DEF good
    <3> QED
      BY <3>1, PathsAreFinite, FS_Subset
  <2>2. G = {made[p] : p \in good}
    BY DEF GoodPaths
  <2> HIDE DEF good
  <2>3. made \in Surjection(good, G)
    BY <2>2 DEF Surjection
  <2> HIDE DEF made, G
  <2>4. IsFiniteSet(G)
    BY <2>1, <2>3, FS_Surjection
  <2> QED
    BY <2>4 DEF G
<1>5. ASSUME NEW o \in Complete(req, n, F) PROVE CompleteKey(o) \in Keys(3 + n)
  <2>1. PICK s \in F : Closes(req, n, s) /\ o = Option(req, s)
    BY DEF Complete
  <2> DEFINE path == s.intermediates
             edge == ScoreLeg(req, req.prefix \o path, req.right)
  <2>2. /\ path \in [1..n -> Available(req)]
        /\ LegsTo(req, path) \in [1..n -> Nat]
        /\ s.sum = Total(LegsTo(req, path)) /\ s.worst \in Nat
        /\ s.guidance = Total(Guided(req, path))
    BY <1>1 DEF PartialPath, Paths, IsBottleneck
  <2>3. o.worst = Larger(s.worst, edge) /\ o.sum = s.sum + edge
        /\ o.guidance = s.guidance /\ o.intermediates = path
    BY <2>1 DEF Option
  <2>4. edge \in Nat \cup {Unreachable}
    <3>1. path \in [1..n -> Nat]
      BY <2>2, AdmittedFacts
    <3>2. edge = LastLeg(req, n, path)
      BY <3>1, LastOfPath DEF ScoreLeg, LastLeg
    <3> QED
      BY <2>2, <3>2, LegFacts
  <2>5. Guided(req, path) \in [1..n -> Int]
    <3>1. path \in [1..n -> DOMAIN req.candidates]
      BY <2>2, AdmittedFacts
    <3> HIDE DEF path
    <3> QED
      BY <3>1 DEF Guided, Admitted, IsRequest
  <2>6. path \in [1..n -> Nat]
    BY <2>2, AdmittedFacts
  <2> HIDE DEF path, edge
  <2>7. s.sum \in Nat /\ s.guidance \in Int
    BY <2>2, <2>5, TotalIsNat, TotalIsInt
  <2>8. edge \in Int
    BY <2>4 DEF Unreachable
  <2>9. o.worst \in Int /\ o.sum \in Int /\ -o.guidance \in Int
    BY <2>2, <2>3, <2>7, <2>8 DEF Larger
  <2>10. CompleteKey(o) = <<o.worst, o.sum, -o.guidance>> \o path
    BY <2>3 DEF CompleteKey
  <2> QED
    BY <2>6, <2>9, <2>10, KeyOfPath
<1> QED
  BY <1>2, <1>3, <1>4, <1>5

\* Selection by the key of a complete path.
LEMMA LeastCompleteIsLeading ==
  ASSUME NEW S, NEW T \in SUBSET S, NEW m
  PROVE  Least(T, m, CompleteKey) = Leading(T, m, [t \in S |-> CompleteKey(t)])
<1> DEFINE key == [t \in S |-> CompleteKey(t)]
<1>1. ASSUME NEW s \in T
      PROVE  {t \in T : LexBefore(CompleteKey(t), CompleteKey(s))} = Predecessors(T, key, s)
  BY DEF Predecessors
<1> QED
  BY <1>1 DEF Least, Leading

\* Without variation the selection is the best of the complete paths, and how
\* long the quality band is does not matter.
LEMMA SelectionIsLeast ==
  ASSUME NEW req, req.variation = 0, req.alternatives \in Nat, NEW C, IsFiniteSet(C),
         NEW d \in Nat, \A o \in C : CompleteKey(o) \in Keys(d)
  PROVE  Selections(req, C) = {Least(C, req.alternatives, CompleteKey)}
<1> DEFINE band == QualityBandLength(C)
           length == Larger(VariedPoolLength(band, req.variation), req.alternatives)
           pool == Least(C, length, CompleteKey)
           key == [o \in C |-> CompleteKey(o)]
<1>1. CASE C = {}
  BY <1>1 DEF Selections, Least
<1>2. CASE C # {}
  <2>1. band \in Nat
    <3>1. \E T \in SUBSET C : band = Cardinality(T)
      BY DEF QualityBandLength
    <3> HIDE DEF band
    <3> QED
      BY <3>1, FS_Subset, FS_CardinalityType
  <2> HIDE DEF band
  <2>2. VariedPoolLength(band, req.variation) \in Nat
    <3>1. VariedPoolLength(band, req.variation) = Min({band, 1})
      BY DEF VariedPoolLength
    <3> QED
      BY <2>1, <3>1, MinOfTwo
  <2>3. length \in Nat /\ req.alternatives <= length
    BY <2>2 DEF Larger
  <2>4. Selections(req, C) = {Least(pool, req.alternatives, CompleteKey)}
    BY <1>2, Zenon DEF Selections, band
  <2> HIDE DEF length
  <2>5. pool \in SUBSET C
    BY DEF Least
  <2>6. pool = Leading(C, length, key)
    BY LeastCompleteIsLeading
  <2> HIDE DEF pool
  <2>7. Least(pool, req.alternatives, CompleteKey) = Leading(pool, req.alternatives, key)
    BY <2>5, LeastCompleteIsLeading
  <2>8. Least(C, req.alternatives, CompleteKey) = Leading(C, req.alternatives, key)
    BY LeastCompleteIsLeading
  <2>9. key \in [C -> Keys(d)]
    OBVIOUS
  <2> HIDE DEF key
  <2>10. Leading(Leading(C, length, key), req.alternatives, key)
           = Leading(C, req.alternatives, key)
    BY <2>3, <2>9, LeadingOfLeading
  <2> QED
    BY <2>4, <2>6, <2>7, <2>8, <2>10
<1> QED
  BY <1>1, <1>2

\* A context member that is i places from the end of the context asks for a path
\* long enough: with fewer intermediates no path is good, so no count is skipped
\* that has one.
LEMMA SkippedCountsHaveNoPath ==
  ASSUME NEW req, Admitted(req), NEW n \in Nat, n >= 1, n < FirstCount(req)
  PROVE  GoodPaths(req, n) = {}
<1> SUFFICES ASSUME NEW o \in GoodPaths(req, n) PROVE FALSE
  OBVIOUS
<1> DEFINE before == RepeatPrefix(req)
           b == Len(before)
           least == MinimumDestinationIntermediates(req)
<1>1. PICK p \in Paths(req, n) : PathSafe(req, p)
  BY DEF GoodPaths
<1>2. b \in Nat /\ req.exempt \in 0..b
  BY AdmittedFacts DEF Admitted, IsRequest
<1>3. least \in Nat /\ n < least /\ least # 0
  <2>1. FirstCount(req) = 1 \/ FirstCount(req) = least
    BY FirstCountIs
  <2>2. least \in Nat
    BY MinimumIs
  <2> QED
    BY <2>1, <2>2
<1>4. PICK i \in (req.exempt + 1)..b : least = Asked(req, i)
  BY <1>3, MinimumIs
<1> DEFINE window == RequiredWindow(req.tracks, req.w, before[i], req.right)
           distance == b + n + 1 - i
           route == ClosedRoute(req, p)
<1>5. window \in Nat
  BY RequiredWindowIsNat
<1>6. least = SaturatingSub(window + 1, b + 1 - i)
  BY <1>4 DEF Asked
<1>7. p \in [1..n -> Nat]
  BY AdmittedFacts DEF Paths
<1>8. /\ Len(route) = b + n + 1 /\ route[i] = before[i] /\ route[b + n + 1] = req.right
  <2>1. LET d == Len(RepeatPrefix(req)) IN
        /\ Len(ClosedRoute(req, p)) = d + n + 1
        /\ \A j \in 1..d : ClosedRoute(req, p)[j] = RepeatPrefix(req)[j]
        /\ ClosedRoute(req, p)[d + n + 1] = req.right
    BY <1>7, RouteFacts
  <2>2. i \in 1..b
    BY <1>2
  <2> QED
    BY <2>1, <2>2
<1>9. \A j \in (b + 1)..Len(route) : \A l \in 1..(j - 1) :
        (j = Len(route) /\ l <= req.exempt)
          \/ PairSafe(req.tracks, req.w, route[l], route[j], j - l)
  BY <1>1 DEF PathSafe, ClosedRoute
<1> HIDE DEF window, route, b, least, before
<1>10. PairSafe(req.tracks, req.w, before[i], req.right, distance)
  <2>1. b + n + 1 \in (b + 1)..(b + n + 1) /\ i \in 1..(b + n + 1 - 1) /\ ~(i <= req.exempt)
    BY <1>2
  <2> DEFINE m == b + n + 1
  <2>2. Len(route) = m /\ route[m] = req.right /\ m \in (b + 1)..m /\ i \in 1..(m - 1)
        /\ distance = m - i
    <3>1. Len(route) = m /\ route[m] = req.right
      BY <1>8
    <3>2. m \in (b + 1)..m /\ i \in 1..(m - 1)
      BY <1>2
    <3>3. distance = m - i
      BY <1>2
    <3> QED
      BY <3>1, <3>2, <3>3
  <2> HIDE DEF m, distance
  <2>3. (m = m /\ i <= req.exempt) \/ PairSafe(req.tracks, req.w, route[i], route[m], m - i)
    BY <1>9, <2>2
  <2> QED
    BY <1>8, <2>1, <2>2, <2>3
<1>11. distance \in Nat /\ distance >= 1 /\ window >= distance
  <2>1. i \in Nat /\ i <= b /\ b + 1 - i \in Nat
    BY <1>2
  <2>2. window + 1 >= b + 1 - i /\ least = window + 1 - (b + 1 - i)
    BY <1>3, <1>5, <1>6, <2>1 DEF SaturatingSub
  <2> QED
    BY <1>2, <1>3, <1>5, <2>1, <2>2
<1> HIDE DEF distance
<1>12. ASSUME NEW u, PairSafe(req.tracks, req.w, u, req.right, distance)
       PROVE  RequiredWindow(req.tracks, req.w, u, req.right) < distance
  <2>1. req.w.artist \in Nat /\ req.w.album \in Nat /\ req.w.track \in Nat
    BY DEF Admitted, IsRequest
  <2> QED
    BY <1>11, <1>12, <2>1
       DEF PairSafe, ArtistAndAlbumApart, SameTrackApart, RequiredWindow, Larger
<1>13. window < distance
  BY <1>10, <1>12 DEF window
<1> QED
  BY <1>5, <1>11, <1>13

\* The greatest leg is the bottleneck, and the legs of a reachable path are lengths.
LEMMA GreatestLeg ==
  ASSUME NEW k \in Nat, k >= 1, NEW legs \in [1..k -> Nat]
  PROVE  IsBottleneck(Max(Range(legs)), legs)
<1> DEFINE S == Range(legs)
<1>1. k \in Nat /\ k >= 1 /\ 1 \in 1..k
  OBVIOUS
<1>2. IsFiniteSet(1..k)
  BY FS_Interval
<1>3. legs \in Surjection(1..k, S)
  BY DEF Surjection, Range
<1>4. IsFiniteSet(S)
  <2> HIDE DEF S
  <2> QED
    BY <1>2, <1>3, FS_Surjection
<1>5. S \in SUBSET Int /\ S # {} /\ \A x \in S : x \in Nat
  <2>1. legs[1] \in S
    BY <1>1 DEF Range
  <2>2. \A x \in S : x \in Nat
    BY DEF Range
  <2> QED
    BY <2>1, <2>2
<1>6. /\ \A i \in DOMAIN legs : legs[i] \in S
      /\ \A x \in S : \E i \in DOMAIN legs : x = legs[i]
  BY DEF Range
<1> HIDE DEF S
<1>7. \E x \in S : \A y \in S : x >= y
  BY <1>4, <1>5, MaximumExists
<1>8. Max(S) \in S /\ \A y \in S : Max(S) >= y
  BY <1>7 DEF Max
<1> QED
  BY <1>5, <1>6, <1>8 DEF IsBottleneck, S

LEMMA ReachableLegs ==
  ASSUME NEW pr, Admitted(pr), NEW n \in Nat, NEW path \in Paths(pr, n),
         PathReachable(pr, path)
  PROVE  Legs(pr, path) \in [1..(n + 1) -> Nat]
<1>1. path \in [1..n -> Available(pr)]
  BY DEF Paths
<1>2. /\ LastLeg(pr, n, path) \in Nat \cup {Unreachable}
      /\ DOMAIN Legs(pr, path) = 1..(n + 1)
      /\ Legs(pr, path) = [i \in 1..(n + 1) |-> Legs(pr, path)[i]]
      /\ Legs(pr, path)[n + 1] = LastLeg(pr, n, path)
      /\ \A i \in 1..n : /\ Legs(pr, path)[i] = LegsTo(pr, path)[i]
                         /\ LegsTo(pr, path)[i] \in Nat \cup {Unreachable}
  BY <1>1, LegFacts
<1>3. ASSUME NEW i \in 1..(n + 1) PROVE Legs(pr, path)[i] \in Nat
  <2>1. i \in 1..n \/ i = n + 1
    OBVIOUS
  <2>2. Legs(pr, path)[i] \in Nat \cup {Unreachable}
    BY <1>2, <2>1
  <2>3. Legs(pr, path)[i] # Unreachable
    BY <1>2 DEF PathReachable, Range
  <2> QED
    BY <2>2, <2>3
<1> QED
  BY <1>2, <1>3

\* A finite set has no longer sequence of different members than members.
LEMMA InjectionIsShort ==
  ASSUME NEW S, IsFiniteSet(S), NEW n \in Nat, NEW p \in [1..n -> S], IsInjective(p)
  PROVE  n <= Cardinality(S)
<1>1. p \in Injection(1..n, S)
  BY DEF Injection
<1>2. Cardinality(1..n) <= Cardinality(S)
  BY <1>1, FS_Injection
<1>3. Cardinality(1..n) = n
  BY FS_Interval
<1> QED
  BY <1>2, <1>3

\* The function outer planners call, judged by the reference.
LEMMA WideAnchoredPathsAreExact ==
  ASSUME NEW req, Admitted(req), Wide(req), req.variation = 0,
         NEW n \in 0..StructuralUpperBound(req)
  PROVE  {o \in AnchoredPaths(req) : Len(o.intermediates) = n}
           = Least(GoodPaths(req, n), req.alternatives, CompleteKey)
<1> DEFINE Good(m) == GoodPaths(req, m)
           Kept(m) == Least(Good(m), req.alternatives, CompleteKey)
           first == FirstCount(req)
           bound == StructuralUpperBound(req)
<1>1. /\ bound \in Nat /\ bound <= req.max /\ req.max \in Nat /\ first \in Nat /\ first >= 1
      /\ req.alternatives \in Nat /\ req.alternatives >= 1
  <2>1. req.max \in Nat /\ req.alternatives \in Nat /\ req.alternatives >= 1
    BY DEF Admitted, IsRequest, ValidRequest
  <2>2. StructuralUpperBound(req) \in Nat /\ StructuralUpperBound(req) <= req.max
    BY BoundIsNat
  <2>3. FirstCount(req) \in Nat /\ FirstCount(req) >= 1
    BY FirstCountIs
  <2> QED
    BY <2>1, <2>2, <2>3
<1>2. ASSUME NEW m \in 0..bound
      PROVE  /\ Complete(req, m, LastFrontier(req, m)) = Good(m)
             /\ IsFiniteSet(Good(m)) /\ \A o \in Good(m) : CompleteKey(o) \in Keys(3 + m)
  <2>1. m \in Nat /\ m <= req.max
    BY <1>1
  <2> QED
    BY <2>1, WideFrontiers, WideCompleteIsExact
<1>3. DirectOptions(req) = Good(0)
  <2>1. LastFrontier(req, 0) = {EmptyPath}
    BY FrontierSteps
  <2> QED
    BY <1>1, <1>2, <2>1 DEF DirectOptions
<1>4. ASSUME NEW m \in 0..bound
      PROVE  Selections(req, Complete(req, m, LastFrontier(req, m))) = {Kept(m)}
  <2>1. 3 + m \in Nat
    BY <1>1
  <2> HIDE DEF Good
  <2>2. Selections(req, Good(m)) = {Least(Good(m), req.alternatives, CompleteKey)}
    BY <1>1, <1>2, <2>1, SelectionIsLeast
  <2> QED
    BY <1>2, <2>2
<1>5. AnchoredPaths(req) = Good(0) \cup UNION {Kept(m) : m \in first..bound}
  <2> DEFINE Sel(m) == Selections(req, Complete(req, m, LastFrontier(req, m)))
  <2>1. \A m \in first..bound : Sel(m) = {Kept(m)}
    BY <1>1, <1>4
  <2>2. AnchoredPaths(req) = Good(0) \cup UNION UNION {Sel(m) : m \in first..bound}
    BY <1>3 DEF AnchoredPaths
  <2> HIDE DEF Sel, Kept, first, bound
  <2>3. UNION UNION {Sel(m) : m \in first..bound} = UNION {Kept(m) : m \in first..bound}
    BY <2>1
  <2> QED
    BY <2>2, <2>3
<1>6. \A m \in Nat : \A o \in Good(m) : Len(o.intermediates) = m
  BY GoodPathFacts
<1>7. \A m : Kept(m) \subseteq Good(m)
  BY DEF Least
<1>8. n \in Nat
  BY <1>1
<1>9. CASE n = 0
  <2>1. Kept(0) = Good(0)
    <3> DEFINE S == Good(0)
               key == [o \in S |-> CompleteKey(o)]
    <3>1. IsFiniteSet(S) /\ \A o \in S : CompleteKey(o) \in Keys(3 + 0)
      BY <1>1, <1>2
    <3>2. S \in SUBSET {PathOption(req, <<>>)}
      <4>1. Paths(req, 0) \subseteq {<<>>}
        BY DEF Paths
      <4> QED
        BY <4>1 DEF GoodPaths
    <3> HIDE DEF S
    <3>3. Cardinality(S) \in Nat /\ Cardinality(S) <= 1
      <4> DEFINE one == {PathOption(req, <<>>)}
      <4>1. IsFiniteSet(one) /\ Cardinality(one) = 1
        BY FS_Singleton
      <4> HIDE DEF one
      <4>2. S \in SUBSET one
        BY <3>2 DEF one
      <4> QED
        BY <3>1, <4>1, <4>2, FS_Subset, FS_CardinalityType
    <3>4. Cardinality(S) <= req.alternatives
      BY <1>1, <3>3
    <3>5. key \in [S -> Keys(3)]
      BY <3>1
    <3>6. Least(S, req.alternatives, CompleteKey) = Leading(S, req.alternatives, key)
      BY LeastCompleteIsLeading
    <3> HIDE DEF key
    <3>7. Leading(S, req.alternatives, key) = S
      BY <1>1, <3>1, <3>4, <3>5, AllKept
    <3> QED
      BY <3>6, <3>7 DEF S
  <2> HIDE DEF Kept, Good
  <2>2. \A m \in first..bound : m \in Nat /\ m # 0
    BY <1>1
  <2> QED
    BY <1>5, <1>6, <1>7, <1>9, <2>1, <2>2 DEF Kept, Good
<1>10. CASE n # 0
  <2> HIDE DEF Kept, Good
  <2>1. \A m \in first..bound : m \in Nat
    BY <1>1
  <2>2. CASE n \in first..bound
    BY <1>5, <1>6, <1>7, <1>8, <1>10, <2>1, <2>2 DEF Kept, Good
  <2>3. CASE n \notin first..bound
    <3>1. n >= 1 /\ n < first
      BY <1>1, <1>8, <1>10, <2>3
    <3>2. Good(n) = {}
      BY <1>8, <3>1, SkippedCountsHaveNoPath DEF Good
    <3>3. {o \in AnchoredPaths(req) : Len(o.intermediates) = n} = {}
      BY <1>5, <1>6, <1>7, <1>8, <1>10, <2>1, <2>3
    <3> QED
      BY <1>7, <3>2, <3>3 DEF Kept, Good
  <2> QED
    BY <2>2, <2>3
<1> QED
  BY <1>9, <1>10

-----------------------------------------------------------------------------
\* Whatever the limits prune, the function returns good paths.
LEMMA FrontiersArePartial ==
  ASSUME NEW req, Admitted(req), NEW n \in Nat, NEW k \in 0..n
  PROVE  \A s \in Frontiers(req, n)[k] : PartialPath(req, k, s)
<1> DEFINE Bad == {m \in 0..n : ~ \A s \in Frontiers(req, n)[m] : PartialPath(req, m, s)}
<1>1. ASSUME Bad # {} PROVE FALSE
  <2>1. Bad \in SUBSET Nat
    OBVIOUS
  <2> HIDE DEF Bad
  <2>2. PICK m \in Bad : \A j \in Bad : m <= j
    BY <1>1, <2>1, LeastNatural
  <2>3. m \in 0..n /\ ~ \A s \in Frontiers(req, n)[m] : PartialPath(req, m, s)
    BY DEF Bad
  <2>4. CASE m = 0
    <3>1. Frontiers(req, n)[0] = {EmptyPath}
      BY FrontierSteps
    <3> QED
      BY <2>3, <2>4, <3>1, EmptyIsPartial
  <2>5. CASE m # 0
    <3>1. m - 1 \in 0..n /\ m \in 1..n /\ ~(m <= m - 1) /\ m - 1 \in Nat /\ m = (m - 1) + 1
      BY <2>3, <2>5
    <3>2. m - 1 \notin Bad
      BY <2>2, <3>1
    <3>3. \A s \in Frontiers(req, n)[m - 1] : PartialPath(req, m - 1, s)
      BY <3>1, <3>2 DEF Bad
    <3>4. Frontiers(req, n)[m] = NextFrontier(req, n, Frontiers(req, n)[m - 1])
      BY <3>1, FrontierSteps
    <3> DEFINE F == Frontiers(req, n)[m - 1]
    <3>5. \A s \in NextFrontier(req, n, F) : PartialPath(req, (m - 1) + 1, s)
      <4>1. \A s \in F : PartialPath(req, m - 1, s)
        BY <3>3
      <4> HIDE DEF F
      <4> QED
        BY <3>1, <4>1, FrontierStepIsPartial
    <3> QED
      BY <2>3, <3>1, <3>4, <3>5
  <2> QED
    BY <2>4, <2>5
<1> QED
  BY <1>1

LEMMA AnchoredPathsAreGood ==
  ASSUME NEW req, Admitted(req), NEW o \in AnchoredPaths(req)
  PROVE  \E n \in 0..StructuralUpperBound(req) : o \in GoodPaths(req, n)
<1>1. StructuralUpperBound(req) \in Nat /\ FirstCount(req) \in Nat
  BY BoundIsNat, FirstCountIs
<1>2. CASE o \in DirectOptions(req)
  <2>1. \A s \in {EmptyPath} : PartialPath(req, 0, s)
    BY EmptyIsPartial
  <2>2. o \in Complete(req, 0, {EmptyPath})
    BY <1>2 DEF DirectOptions
  <2>3. o \in GoodPaths(req, 0)
    BY <2>1, <2>2, CompleteIsSound
  <2> QED
    BY <1>1, <2>3
<1>3. CASE o \notin DirectOptions(req)
  <2>1. PICK n \in FirstCount(req)..StructuralUpperBound(req) :
          \E selected \in Selections(req, Complete(req, n, LastFrontier(req, n))) : o \in selected
    BY <1>3 DEF AnchoredPaths
  <2>2. n \in Nat /\ n \in 0..StructuralUpperBound(req) /\ n \in 0..n
    BY <1>1
  <2>3. LastFrontier(req, n) = Frontiers(req, n)[n]
    BY <2>2, FrontierSteps
  <2>4. \A s \in LastFrontier(req, n) : PartialPath(req, n, s)
    BY <2>2, <2>3, FrontiersArePartial
  <2>5. o \in Complete(req, n, LastFrontier(req, n))
    BY <2>1, SelectionsAreSubsets
  <2>6. o \in GoodPaths(req, n)
    BY <2>2, <2>4, <2>5, CompleteIsSound
  <2> QED
    BY <2>2, <2>6
<1> QED
  BY <1>2, <1>3

-----------------------------------------------------------------------------
InARow(k, n, first, second, both) ==
  /\ k \in Nat /\ DOMAIN first = 1..k /\ DOMAIN both = 1..(k + n)
  /\ \A i \in 1..k : both[i] = first[i]
  /\ \A i \in 1..n : both[k + i] = second[i]

\* A vector of two parts adds up to what its parts add up to.
LEMMA TotalOfParts ==
  ASSUME NEW k \in Nat, NEW n \in Nat, NEW first \in [1..k -> Int], NEW second \in [1..n -> Int],
         NEW both \in [1..(k + n) -> Int], InARow(k, n, first, second, both)
  PROVE  Total(both) = Total(first) + Total(second)
<1> DEFINE Both(m) == [i \in 1..(k + m) |-> both[i]]
           Part(m) == [i \in 1..m |-> second[i]]
           Bad == {m \in 0..n : Total(Both(m)) # Total(first) + Total(Part(m))}
<1>1. ASSUME NEW m \in 0..n
      PROVE  /\ Both(m) \in [1..(k + m) -> Int] /\ Part(m) \in [1..m -> Int]
             /\ m \in Nat /\ k + m \in Nat
             /\ \A i \in 1..(k + m) : Both(m)[i] = both[i]
             /\ \A i \in 1..m : Part(m)[i] = second[i]
  OBVIOUS
<1> HIDE DEF Both, Part
<1>2. ASSUME Bad # {} PROVE FALSE
  <2>1. Bad \in SUBSET Nat
    OBVIOUS
  <2> HIDE DEF Bad
  <2>2. PICK m \in Bad : \A j \in Bad : m <= j
    BY <1>2, <2>1, LeastNatural
  <2>3. m \in 0..n /\ Total(Both(m)) # Total(first) + Total(Part(m))
    BY DEF Bad
  <2>4. Total(first) \in Int
    BY TotalIsInt
  <2>5. CASE m = 0
    <3>1. Both(0) = first /\ Part(0) = <<>>
      BY DEF Both, Part, InARow
    <3> QED
      BY <2>3, <2>4, <2>5, <3>1, TotalOfNothing
  <2>6. CASE m # 0
    <3> DEFINE p == m - 1
    <3>1. /\ p \in 0..n /\ p \in Nat /\ m = p + 1 /\ k + m = (k + p) + 1 /\ k + p \in Nat
          /\ ~(m <= p) /\ m \in 1..n /\ k + m \in 1..(k + m)
      BY <2>3, <2>6
    <3>2. p \notin Bad
      BY <2>2, <3>1
    <3>3. Total(Both(p)) = Total(first) + Total(Part(p))
      BY <3>1, <3>2 DEF Bad
    <3> HIDE DEF p
    <3>4. /\ Both(p) \in [1..(k + p) -> Int] /\ Both(m) \in [1..((k + p) + 1) -> Int]
          /\ \A i \in 1..(k + p) : Both(m)[i] = Both(p)[i]
          /\ Both(m)[(k + p) + 1] = both[k + m]
      <4>1. /\ Both(p) \in [1..(k + p) -> Int] /\ Both(m) \in [1..(k + m) -> Int]
            /\ \A i \in 1..(k + p) : Both(p)[i] = both[i]
            /\ \A i \in 1..(k + m) : Both(m)[i] = both[i]
        BY <1>1, <2>3, <3>1
      <4>2. \A i \in 1..(k + p) : i \in 1..(k + m)
        BY <3>1
      <4> QED
        BY <3>1, <4>1, <4>2
    <3>5. Total(Both(m)) = Total(Both(p)) + both[k + m]
      BY <3>1, <3>4, TotalOfAppend
    <3>6. /\ Part(p) \in [1..p -> Int] /\ Part(m) \in [1..(p + 1) -> Int]
          /\ \A i \in 1..p : Part(m)[i] = Part(p)[i]
          /\ Part(m)[p + 1] = second[m]
      <4>1. /\ Part(p) \in [1..p -> Int] /\ Part(m) \in [1..m -> Int]
            /\ \A i \in 1..p : Part(p)[i] = second[i]
            /\ \A i \in 1..m : Part(m)[i] = second[i]
        BY <1>1, <2>3, <3>1
      <4>2. m \in 1..m /\ \A i \in 1..p : i \in 1..m
        BY <3>1
      <4> QED
        BY <3>1, <4>1, <4>2
    <3>7. Total(Part(m)) = Total(Part(p)) + second[m]
      BY <3>1, <3>6, TotalOfAppend
    <3>8. both[k + m] = second[m] /\ second[m] \in Int
      BY <3>1 DEF InARow
    <3>9. Total(Part(p)) \in Int
      BY <3>1, <3>6, TotalIsInt
    <3> QED
      BY <2>3, <2>4, <3>3, <3>5, <3>7, <3>8, <3>9
  <2> QED
    BY <2>5, <2>6
<1>3. Both(n) = both /\ Part(n) = second
  BY DEF Both, Part
<1>4. n \in 0..n
  OBVIOUS
<1> QED
  BY <1>2, <1>3, <1>4

-----------------------------------------------------------------------------
\* A recursion over 1..n that uses the value before only: step m turns x into
\* step[<<x, m>>].
IsRun(f, S, n, start, step) ==
  /\ f \in [0..n -> S]
  /\ f[0] = start
  /\ \A m \in 1..n : f[m] = step[<<f[m - 1], m>>]

LEMMA RunExists ==
  ASSUME NEW S, NEW n \in Nat, NEW start \in S, NEW step \in [S \X (1..n) -> S]
  PROVE  \E f : IsRun(f, S, n, start, step)
<1> DEFINE Bad == {k \in 0..n : ~ \E f : IsRun(f, S, k, start, step)}
<1>1. ASSUME Bad # {} PROVE FALSE
  <2>1. Bad \in SUBSET Nat
    OBVIOUS
  <2> HIDE DEF Bad
  <2>2. PICK k \in Bad : \A j \in Bad : k <= j
    BY <1>1, <2>1, LeastNatural
  <2>3. k \in 0..n /\ ~ \E f : IsRun(f, S, k, start, step)
    BY DEF Bad
  <2>4. CASE k = 0
    <3>1. IsRun([m \in 0..0 |-> start], S, 0, start, step)
      BY DEF IsRun
    <3> QED
      BY <2>3, <2>4, <3>1
  <2>5. CASE k # 0
    <3>1. k - 1 \in 0..n /\ ~(k <= k - 1) /\ k \in 1..n
      BY <2>3, <2>5
    <3>2. PICK f : IsRun(f, S, k - 1, start, step)
      BY <2>2, <3>1 DEF Bad
    <3> DEFINE g == [m \in 0..k |-> IF m = k THEN step[<<f[k - 1], k>>] ELSE f[m]]
    <3>3. step[<<f[k - 1], k>>] \in S
      <4>1. f[k - 1] \in S
        BY <3>1, <3>2 DEF IsRun
      <4> QED
        BY <3>1, <4>1
    <3>4. g \in [0..k -> S]
      BY <3>2, <3>3, <2>3 DEF IsRun
    <3>5. g[0] = start
      BY <2>3, <2>5, <3>2 DEF IsRun
    <3>6. ASSUME NEW m \in 1..k PROVE g[m] = step[<<g[m - 1], m>>]
      <4>1. CASE m = k
        <5>1. k - 1 \in 0..k /\ k - 1 # k /\ k \in 0..k
          BY <2>3, <2>5
        <5>2. g[k - 1] = f[k - 1] /\ g[k] = step[<<f[k - 1], k>>]
          BY <5>1
        <5> QED
          BY <4>1, <5>2
      <4>2. CASE m # k
        <5>1. m \in 1..(k - 1) /\ m \in 0..k /\ m - 1 \in 0..k /\ m - 1 # k
          BY <4>2, <2>3
        <5>2. g[m] = f[m] /\ g[m - 1] = f[m - 1]
          BY <4>2, <5>1
        <5> QED
          BY <3>2, <5>1, <5>2 DEF IsRun
      <4> QED
        BY <4>1, <4>2
    <3> HIDE DEF g
    <3>7. IsRun(g, S, k, start, step)
      BY <3>4, <3>5, <3>6 DEF IsRun
    <3> QED
      BY <2>3, <3>7
  <2> QED
    BY <2>4, <2>5
<1>2. n \in 0..n
  OBVIOUS
<1> QED
  BY <1>1, <1>2

\* g takes the first k steps of a recursion, as long as it stays in S.
TakesSteps(g, S, k, start, step) ==
  /\ g[0] = start
  /\ \A m \in 1..k : g[m - 1] \in S => g[m] = step[<<g[m - 1], m>>]

\* Two runs that take the same first k steps are at the same place.
LEMMA RunsAgree ==
  ASSUME NEW S, NEW n \in Nat, NEW k \in 0..n, NEW start,
         NEW f, NEW step, IsRun(f, S, n, start, step),
         NEW g, TakesSteps(g, S, k, start, step)
  PROVE  \A m \in 0..k : f[m] = g[m]
<1> DEFINE Bad == {m \in 0..k : f[m] # g[m]}
<1>1. ASSUME Bad # {} PROVE FALSE
  <2>1. Bad \in SUBSET Nat
    OBVIOUS
  <2> HIDE DEF Bad
  <2>2. PICK m \in Bad : \A l \in Bad : m <= l
    BY <1>1, <2>1, LeastNatural
  <2>3. m \in 0..k /\ m \in 0..n /\ f[m] # g[m]
    BY DEF Bad
  <2>4. m # 0
    BY <2>3 DEF IsRun, TakesSteps
  <2>5. m - 1 \in 0..k /\ ~(m <= m - 1) /\ m \in 1..k /\ m \in 1..n /\ m - 1 \in 0..n
    BY <2>3, <2>4
  <2>6. f[m - 1] = g[m - 1]
    BY <2>2, <2>5 DEF Bad
  <2>7. f[m - 1] \in S /\ f[m] = step[<<f[m - 1], m>>]
    BY <2>5 DEF IsRun
  <2>8. g[m] = step[<<g[m - 1], m>>]
    BY <2>5, <2>6, <2>7 DEF TakesSteps
  <2> QED
    BY <2>3, <2>6, <2>7, <2>8
<1> QED
  BY <1>1

LEMMA RunStarts ==
  ASSUME NEW S, NEW n \in Nat, NEW start, NEW f, NEW step, IsRun(f, S, n, start, step)
  PROVE  f[0] = start
  BY DEF IsRun

LEMMA RunStays ==
  ASSUME NEW S, NEW n \in Nat, NEW start, NEW f, NEW step, IsRun(f, S, n, start, step)
  PROVE  \A m \in 0..n : f[m] \in S
  BY DEF IsRun

LEMMA RunSteps ==
  ASSUME NEW S, NEW n \in Nat, NEW start, NEW f, NEW step, IsRun(f, S, n, start, step)
  PROVE  \A m \in 1..n : f[m] = step[<<f[m - 1], m>>]
  BY DEF IsRun

\* FlattenSeq of SequencesExt, as a run that appends one sequence after another.
FlatStep(S, n, seqs) == [p \in Seq(S) \X (1..n) |-> p[1] \o seqs[p[2]]]

LEMMA FlattenIsRun ==
  ASSUME NEW S, NEW n \in Nat, NEW seqs \in [1..n -> Seq(S)]
  PROVE  \E g : /\ IsRun(g, Seq(S), n, <<>>, FlatStep(S, n, seqs))
                /\ FlattenSeq(seqs) = g[n]
<1>1. Len(seqs) = n /\ <<>> \in Seq(S)
  OBVIOUS
<1>2. FlatStep(S, n, seqs) \in [Seq(S) \X (1..n) -> Seq(S)]
  <2>1. \A p \in Seq(S) \X (1..n) : p[1] \o seqs[p[2]] \in Seq(S)
    BY Concatenated
  <2> QED
    BY <2>1 DEF FlatStep
<1>3. PICK g : IsRun(g, Seq(S), n, <<>>, FlatStep(S, n, seqs))
  BY <1>1, <1>2, RunExists
<1>4. \A x \in Seq(S), m \in 1..n : FlatStep(S, n, seqs)[<<x, m>>] = x \o seqs[m]
  BY DEF FlatStep
<1>7. g[0] = <<>>
  BY <1>3 DEF IsRun
<1>8. \A m \in 0..n : g[m] \in Seq(S)
  BY <1>3 DEF IsRun
<1>9. \A m \in 1..n : g[m] = FlatStep(S, n, seqs)[<<g[m - 1], m>>]
  <2> DEFINE T == Seq(S)
             step == FlatStep(S, n, seqs)
             start == <<>>
  <2>1. IsRun(g, T, n, start, step)
    BY <1>3
  <2> HIDE DEF T, step, start
  <2>2. \A m \in 1..n : g[m] = step[<<g[m - 1], m>>]
    BY <2>1, RunSteps
  <2> QED
    BY <2>2 DEF step
<1>5. CASE n = 0
  <2>1. seqs = <<>> /\ FlattenSeq(seqs) = seqs
    BY <1>1, <1>5 DEF FlattenSeq
  <2> QED
    BY <1>3, <1>5, <2>1 DEF IsRun
<1>6. CASE n # 0
  <2> DEFINE Computed(f) == f = [i \in 1..n |-> IF i = 1 THEN seqs[i] ELSE f[i - 1] \o seqs[i]]
             f == [i \in 1..n |-> g[i]]
             h == CHOOSE e : Computed(e)
             hh == [m \in 0..n |-> IF m = 0 THEN <<>> ELSE h[m]]
  <2>1. FlattenSeq(seqs) = h[n]
    BY <1>1, <1>6 DEF FlattenSeq
  <2>2. ASSUME NEW i \in 1..n PROVE f[i] = IF i = 1 THEN seqs[i] ELSE f[i - 1] \o seqs[i]
    <3>0. seqs[i] \in Seq(S) /\ f[i] = g[i]
      OBVIOUS
    <3> HIDE DEF Computed, h, hh
    <3>1. i - 1 \in 0..n /\ g[i - 1] \in Seq(S) /\ g[i] = g[i - 1] \o seqs[i]
      <4>1. i - 1 \in 0..n
        OBVIOUS
      <4>2. g[i - 1] \in Seq(S)
        BY <1>8, <4>1
      <4>3. g[i] = FlatStep(S, n, seqs)[<<g[i - 1], i>>]
        BY <1>9
      <4> QED
        BY <1>4, <4>1, <4>2, <4>3
    <3>2. CASE i = 1
      <4>1. i - 1 = 0 /\ g[i - 1] = <<>>
        BY <1>7, <3>2
      <4>2. <<>> \o seqs[i] = seqs[i]
        BY <3>0
      <4> QED
        BY <3>0, <3>1, <3>2, <4>1, <4>2
    <3>3. CASE i # 1
      <4>1. i - 1 \in 1..n
        BY <3>3
      <4>2. f[i - 1] = g[i - 1]
        BY <4>1
      <4> QED
        BY <3>0, <3>1, <3>3, <4>2
    <3> QED
      BY <3>2, <3>3
  <2>3. Computed(f)
    <3> DEFINE rhs == [i \in 1..n |-> IF i = 1 THEN seqs[i] ELSE f[i - 1] \o seqs[i]]
    <3>1. DOMAIN f = 1..n /\ f = [i \in 1..n |-> f[i]]
      OBVIOUS
    <3> HIDE DEF f
    <3> QED
      BY <2>2, <3>1
  <2> HIDE DEF f
  <2>4. Computed(h)
    <3> HIDE DEF Computed
    <3> QED
      BY <2>3
  <2> HIDE DEF h
  <2>5. \A i \in 1..n : h[i] = IF i = 1 THEN seqs[i] ELSE h[i - 1] \o seqs[i]
    BY <2>4
  <2>6. ASSUME NEW m \in 1..n, hh[m - 1] \in Seq(S)
        PROVE  hh[m] = FlatStep(S, n, seqs)[<<hh[m - 1], m>>]
    <3>1. m \in 0..n /\ m # 0 /\ hh[m] = h[m] /\ m - 1 \in 0..n
      OBVIOUS
    <3>2. CASE m = 1
      <4>1. hh[m - 1] = <<>> /\ h[m] = seqs[m] /\ seqs[m] \in Seq(S)
        BY <2>5, <3>2
      <4>2. <<>> \o seqs[m] = seqs[m]
        BY <4>1
      <4> QED
        BY <1>4, <2>6, <3>1, <4>1, <4>2
    <3>3. CASE m # 1
      <4>1. m - 1 \in 1..n /\ m - 1 # 0
        BY <3>3
      <4>2. hh[m - 1] = h[m - 1] /\ h[m] = h[m - 1] \o seqs[m]
        BY <2>5, <3>1, <3>3, <4>1
      <4> QED
        BY <1>4, <2>6, <3>1, <4>2
    <3> QED
      BY <3>2, <3>3
  <2>7. hh[0] = <<>> /\ hh[n] = h[n] /\ n \in 0..n
    BY <1>6
  <2> HIDE DEF hh
  <2>8. \A m \in 0..n : g[m] = hh[m]
    <3> DEFINE T == Seq(S)
               step == FlatStep(S, n, seqs)
    <3>1. IsRun(g, T, n, <<>>, step)
      BY <1>3
    <3>2. TakesSteps(hh, T, n, <<>>, step)
      BY <2>6, <2>7 DEF TakesSteps
    <3> HIDE DEF T, step, Computed
    <3>3. n \in 0..n
      OBVIOUS
    <3> QED
      BY <3>1, <3>2, <3>3, RunsAgree
  <2> QED
    BY <1>3, <2>1, <2>7, <2>8
<1> QED
  BY <1>5, <1>6

LEMMA FlattenIsSeq ==
  ASSUME NEW S, NEW n \in Nat, NEW seqs \in [1..n -> Seq(S)]
  PROVE  FlattenSeq(seqs) \in Seq(S)
<1>1. PICK g : /\ IsRun(g, Seq(S), n, <<>>, FlatStep(S, n, seqs))
               /\ FlattenSeq(seqs) = g[n]
  BY FlattenIsRun
<1> QED
  BY <1>1 DEF IsRun

LEMMA FlattenOfAppend ==
  ASSUME NEW S, NEW n \in Nat, NEW seqs \in [1..n -> Seq(S)],
         NEW more \in [1..(n + 1) -> Seq(S)], \A i \in 1..n : more[i] = seqs[i]
  PROVE  FlattenSeq(more) = FlattenSeq(seqs) \o more[n + 1]
<1> DEFINE T == Seq(S)
           start == <<>>
           short == FlatStep(S, n, seqs)
           long == FlatStep(S, n + 1, more)
<1>1. /\ \A x \in T, m \in 1..n : short[<<x, m>>] = x \o seqs[m]
      /\ \A x \in T, m \in 1..(n + 1) : long[<<x, m>>] = x \o more[m]
  BY DEF FlatStep
<1>2. PICK g : IsRun(g, T, n, start, short) /\ FlattenSeq(seqs) = g[n]
  BY FlattenIsRun
<1>3. PICK f : IsRun(f, T, n + 1, start, long) /\ FlattenSeq(more) = f[n + 1]
  <2>1. n + 1 \in Nat
    OBVIOUS
  <2> QED
    BY <2>1, FlattenIsRun
<1> HIDE DEF T, start, short, long
<1>4. /\ n + 1 \in Nat /\ n \in 0..n /\ n \in 0..(n + 1) /\ n + 1 \in 1..(n + 1)
      /\ (n + 1) - 1 = n
  OBVIOUS
<1>5. g[0] = start
  BY <1>2, RunStarts
<1>6. \A m \in 0..n : g[m] \in T
  BY <1>2, RunStays
<1>7. \A m \in 1..n : g[m] = short[<<g[m - 1], m>>]
  BY <1>2, RunSteps
<1>8. ASSUME NEW m \in 1..n PROVE g[m] = long[<<g[m - 1], m>>]
  <2>1. m - 1 \in 0..n /\ m \in 1..(n + 1) /\ more[m] = seqs[m]
    OBVIOUS
  <2>2. g[m - 1] \in T
    BY <1>6, <2>1
  <2>3. short[<<g[m - 1], m>>] = g[m - 1] \o seqs[m]
    BY <1>1, <2>2
  <2>4. long[<<g[m - 1], m>>] = g[m - 1] \o more[m]
    BY <1>1, <2>1, <2>2
  <2> QED
    BY <1>7, <2>1, <2>3, <2>4
<1>14. TakesSteps(g, T, n, start, long)
  BY <1>5, <1>8 DEF TakesSteps
<1>9. \A m \in 0..n : f[m] = g[m]
  BY <1>3, <1>4, <1>14, RunsAgree
<1>10. f[n] = g[n] /\ g[n] \in T
  BY <1>4, <1>6, <1>9
<1>11. \A m \in 1..(n + 1) : f[m] = long[<<f[m - 1], m>>]
  <2> DEFINE q == n + 1
  <2>1. q \in Nat /\ IsRun(f, T, q, start, long)
    BY <1>3, <1>4
  <2> HIDE DEF q
  <2>2. \A m \in 1..q : f[m] = long[<<f[m - 1], m>>]
    BY <2>1, RunSteps
  <2> QED
    BY <2>2 DEF q
<1>12. f[n + 1] = long[<<f[n], n + 1>>]
  BY <1>4, <1>11
<1>13. long[<<f[n], n + 1>>] = f[n] \o more[n + 1]
  BY <1>1, <1>4, <1>10
<1> QED
  BY <1>2, <1>3, <1>10, <1>12, <1>13

LEMMA FlattenOfNothing == FlattenSeq(<<>>) = <<>>
  BY DEF FlattenSeq

-----------------------------------------------------------------------------
(***************************************************************************)
(* The spacing totals of RepeatWindows: the recurrence has a solution in   *)
(* the natural numbers, so the choice that defines it is one.              *)
(***************************************************************************)
Offers(source, tracks, w, f, r) ==
  {f[r - 1]} \cup
  {f[l] + SaturatingSub(RequiredWindow(tracks, w, source[l], source[r]) + 1, r - l) :
     l \in {m \in 1..(r - 1) : RequiredWindow(tracks, w, source[m], source[r]) > 0}}

AreTotals(f, source, tracks, w, n) ==
  f = [r \in 1..n |-> IF r = 1 THEN 0 ELSE Max(Offers(source, tracks, w, f, r))]

\* The member before r and the finitely many earlier ones it repeats: one of
\* them asks for most.
LEMMA MostIsOffered ==
  ASSUME NEW source, NEW tracks, NEW w \in [artist : Nat, album : Nat, track : Nat],
         NEW r \in Nat, r > 1, NEW f, \A l \in 1..(r - 1) : f[l] \in Nat
  PROVE  /\ Max(Offers(source, tracks, w, f, r)) \in Nat
         /\ Max(Offers(source, tracks, w, f, r)) \in Offers(source, tracks, w, f, r)
<1> DEFINE Window(l) == RequiredWindow(tracks, w, source[l], source[r])
           I == {m \in 1..(r - 1) : Window(m) > 0}
           Offered(l) == f[l] + SaturatingSub(Window(l) + 1, r - l)
           offered == [l \in I |-> Offered(l)]
           Values == {offered[l] : l \in I}
           All == {f[r - 1]} \cup Values
<1>1. Offers(source, tracks, w, f, r) = All
  <2>1. {Offered(l) : l \in I} = Values
    OBVIOUS
  <2> QED
    BY <2>1, Zenon DEF Offers
<1>2. \A l \in 1..(r - 1) : Window(l) \in Nat
  <2>1. w.artist \in Nat /\ w.album \in Nat /\ w.track \in Nat
    OBVIOUS
  <2> QED
    BY <2>1 DEF RequiredWindow, Larger
<1>3. \A l \in 1..(r - 1) : Offered(l) \in Nat
  <2> HIDE DEF Window
  <2> SUFFICES ASSUME NEW l \in 1..(r - 1) PROVE Offered(l) \in Nat
    OBVIOUS
  <2>1. r - l \in Nat /\ Window(l) \in Nat /\ f[l] \in Nat
    BY <1>2
  <2> QED
    BY <2>1 DEF SaturatingSub
<1>4. IsFiniteSet(I)
  <2>1. IsFiniteSet(1..(r - 1))
    BY FS_Interval
  <2>2. I \subseteq 1..(r - 1)
    OBVIOUS
  <2> HIDE DEF I
  <2> QED
    BY <2>1, <2>2, FS_Subset
<1>5. /\ I \subseteq 1..(r - 1) /\ \A l \in I : offered[l] = Offered(l)
      /\ f[r - 1] \in Nat
  <2>1. r - 1 \in 1..(r - 1)
    OBVIOUS
  <2> QED
    BY <2>1
<1>6. offered \in Surjection(I, Values)
  BY DEF Surjection
<1> HIDE DEF I
<1>7. IsFiniteSet(Values)
  BY <1>4, <1>6, FS_Surjection
<1>8. IsFiniteSet(All)
  <2> HIDE DEF Values
  <2> QED
    BY <1>7, FS_AddElement, FS_Union, FS_Singleton
<1>9. All \in SUBSET Int /\ All # {} /\ \A x \in All : x \in Nat
  <2>1. \A l \in I : offered[l] \in Nat
    <3> HIDE DEF Offered
    <3> QED
      BY <1>3, <1>5
  <2>2. f[r - 1] \in Nat
    BY <1>5
  <2> HIDE DEF offered
  <2>3. \A x \in All : x \in Nat
    BY <2>1, <2>2
  <2>4. f[r - 1] \in All
    OBVIOUS
  <2> HIDE DEF All
  <2> QED
    BY <2>3, <2>4
<1> HIDE DEF All
<1>10. \E m \in All : \A x \in All : m >= x
  BY <1>8, <1>9, MaximumExists
<1>11. Max(All) \in All
  BY <1>10 DEF Max
<1> QED
  BY <1>1, <1>9, <1>11

\* Offers looks at the totals of earlier members only.
LEMMA OffersAgree ==
  ASSUME NEW source, NEW tracks, NEW w, NEW r \in Nat, r > 1, NEW f, NEW g,
         \A l \in 1..(r - 1) : f[l] = g[l]
  PROVE  Max(Offers(source, tracks, w, f, r)) = Max(Offers(source, tracks, w, g, r))
<1>1. f[r - 1] = g[r - 1]
  OBVIOUS
<1>2. Offers(source, tracks, w, f, r) = Offers(source, tracks, w, g, r)
  BY <1>1 DEF Offers
<1> QED
  BY <1>2

LEMMA TotalsExist ==
  ASSUME NEW source, NEW tracks, NEW w \in [artist : Nat, album : Nat, track : Nat],
         NEW n \in Nat
  PROVE  \E f \in [1..n -> Nat] : AreTotals(f, source, tracks, w, n)
<1> DEFINE Bad == {k \in 0..n :
                     ~ \E f \in [1..k -> Nat] : AreTotals(f, source, tracks, w, k)}
<1>1. ASSUME Bad # {} PROVE FALSE
  <2>1. Bad \in SUBSET Nat
    OBVIOUS
  <2> HIDE DEF Bad
  <2>2. PICK k \in Bad : \A j \in Bad : k <= j
    BY <1>1, <2>1, LeastNatural
  <2>3. k \in 0..n /\ ~ \E f \in [1..k -> Nat] : AreTotals(f, source, tracks, w, k)
    BY DEF Bad
  <2>4. CASE k = 0
    <3> DEFINE f == [r \in 1..0 |-> 0]
    <3>1. f \in [1..0 -> Nat] /\ AreTotals(f, source, tracks, w, 0)
      BY DEF AreTotals
    <3> QED
      BY <2>3, <2>4, <3>1
  <2>5. CASE k # 0
    <3>1. k - 1 \in 0..n /\ ~(k <= k - 1) /\ k \in Nat /\ k >= 1
      BY <2>3, <2>5
    <3>2. PICK f \in [1..(k - 1) -> Nat] : AreTotals(f, source, tracks, w, k - 1)
      BY <2>2, <3>1 DEF Bad
    <3> DEFINE value == IF k = 1 THEN 0 ELSE Max(Offers(source, tracks, w, f, k))
               g == [r \in 1..k |-> IF r = k THEN value ELSE f[r]]
    <3>3. value \in Nat
      <4>1. \A l \in 1..(k - 1) : f[l] \in Nat
        BY <3>2
      <4>2. CASE k = 1
        BY <4>2
      <4>3. CASE k # 1
        <5>1. k > 1
          BY <3>1, <4>3
        <5>2. Max(Offers(source, tracks, w, f, k)) \in Nat
          BY <3>1, <4>1, <5>1, MostIsOffered
        <5> QED
          BY <4>3, <5>2
      <4> QED
        BY <4>2, <4>3
    <3>4. \A r \in 1..(k - 1) : f[r] = IF r = 1 THEN 0 ELSE Max(Offers(source, tracks, w, f, r))
      BY <3>2 DEF AreTotals
    <3>5. g \in [1..k -> Nat]
      <4> HIDE DEF value
      <4>1. \A r \in 1..k : r # k => r \in 1..(k - 1)
        BY <3>1
      <4> QED
        BY <3>2, <3>3, <4>1
    <3>6. \A r \in 1..(k - 1) : g[r] = f[r]
      <4> HIDE DEF value
      <4>1. \A r \in 1..(k - 1) : r \in 1..k /\ r # k
        BY <3>1
      <4> QED
        BY <4>1
    <3>7. k \in 1..k /\ g[k] = value
      BY <3>1
    <3> HIDE DEF g
    <3>8. ASSUME NEW r \in 1..k
          PROVE  g[r] = IF r = 1 THEN 0 ELSE Max(Offers(source, tracks, w, g, r))
      <4>1. r \in Nat /\ r >= 1
        BY <3>1
      <4>2. CASE r = 1 /\ r = k
        BY <3>7, <4>2
      <4>3. CASE r = 1 /\ r # k
        <5>1. r \in 1..(k - 1)
          BY <3>1, <4>3
        <5> QED
          BY <3>4, <3>6, <4>3, <5>1
      <4>4. CASE r # 1
        <5>1. r > 1 /\ \A l \in 1..(r - 1) : l \in 1..(k - 1)
          BY <3>1, <4>1, <4>4
        <5>2. \A l \in 1..(r - 1) : f[l] = g[l]
          BY <3>6, <5>1
        <5>3. Max(Offers(source, tracks, w, f, r)) = Max(Offers(source, tracks, w, g, r))
          <6>1. ASSUME NEW h, \A l \in 1..(r - 1) : h[l] = g[l]
                PROVE  Max(Offers(source, tracks, w, h, r)) = Max(Offers(source, tracks, w, g, r))
            BY <4>1, <5>1, <6>1, OffersAgree
          <6> QED
            BY <5>2, <6>1
        <5>4. CASE r = k
          <6>1. value = Max(Offers(source, tracks, w, f, k))
            BY <4>4, <5>4
          <6>2. g[r] = value
            BY <3>7, <5>4
          <6>3. Max(Offers(source, tracks, w, f, k)) = Max(Offers(source, tracks, w, g, r))
            BY <5>3, <5>4
          <6> HIDE DEF value
          <6> QED
            BY <4>4, <6>1, <6>2, <6>3
        <5>5. CASE r # k
          <6>1. r \in 1..(k - 1)
            BY <3>1, <5>5
          <6> QED
            BY <3>4, <3>6, <4>4, <5>3, <6>1
        <5> QED
          BY <5>4, <5>5
      <4> QED
        BY <4>2, <4>3, <4>4
    <3>9. g = [r \in 1..k |-> g[r]]
      BY <3>5
    <3>10. AreTotals(g, source, tracks, w, k)
      BY <3>8, <3>9 DEF AreTotals
    <3> QED
      BY <2>3, <3>5, <3>10
  <2> QED
    BY <2>4, <2>5
<1>2. n \in 0..n
  OBVIOUS
<1> QED
  BY <1>1, <1>2

LEMMA SpacingTotalsAre ==
  ASSUME NEW source \in Seq(Nat), NEW tracks,
         NEW w \in [artist : Nat, album : Nat, track : Nat]
  PROVE  LET totals == RepeatSpacingTotals(source, tracks, w) IN
         /\ AreTotals(totals, source, tracks, w, Len(source))
         /\ totals \in [1..Len(source) -> Nat]
<1> DEFINE n == Len(source)
           totals == RepeatSpacingTotals(source, tracks, w)
<1>1. n \in Nat
  OBVIOUS
<1>2. totals = CHOOSE f : AreTotals(f, source, tracks, w, n)
  BY DEF RepeatSpacingTotals, AreTotals, Offers
<1>3. PICK f \in [1..n -> Nat] : AreTotals(f, source, tracks, w, n)
  BY <1>1, TotalsExist
<1> HIDE DEF totals, n
<1>4. AreTotals(totals, source, tracks, w, n)
  BY <1>2, <1>3
<1> DEFINE Bad == {r \in 1..n : totals[r] \notin Nat}
<1>5. ASSUME Bad # {} PROVE FALSE
  <2>1. Bad \in SUBSET Nat
    BY <1>1
  <2> HIDE DEF Bad
  <2>2. PICK r \in Bad : \A q \in Bad : r <= q
    BY <1>5, <2>1, LeastNatural
  <2>3. r \in 1..n /\ totals[r] \notin Nat
    BY DEF Bad
  <2>4. totals[r] = IF r = 1 THEN 0 ELSE Max(Offers(source, tracks, w, totals, r))
    BY <1>4, <2>3 DEF AreTotals
  <2>5. r > 1 /\ r \in Nat
    BY <1>1, <2>3, <2>4
  <2>6. ASSUME NEW l \in 1..(r - 1) PROVE totals[l] \in Nat
    <3>1. l \in 1..n /\ ~(r <= l)
      BY <1>1, <2>3, <2>5
    <3> QED
      BY <2>2, <3>1 DEF Bad
  <2>7. Max(Offers(source, tracks, w, totals, r)) \in Nat
    BY <2>5, <2>6, MostIsOffered
  <2> QED
    BY <2>3, <2>4, <2>5, <2>7
<1>6. totals = [r \in 1..n |-> totals[r]]
  BY <1>4 DEF AreTotals
<1>7. totals \in [1..n -> Nat]
  <2>1. \A r \in 1..n : totals[r] \in Nat
    BY <1>5
  <2> QED
    BY <1>6, <2>1
<1> QED
  BY <1>4, <1>7 DEF totals, n

LEMMA MinimumSpacingIsNat ==
  ASSUME NEW source \in Seq(Nat), NEW tracks,
         NEW w \in [artist : Nat, album : Nat, track : Nat]
  PROVE  MinimumRepeatSpacing(source, tracks, w) \in Nat
<1>1. CASE source = <<>>
  BY <1>1 DEF MinimumRepeatSpacing
<1>2. CASE source # <<>>
  <2>1. Len(source) \in 1..Len(source)
    BY <1>2
  <2>2. RepeatSpacingTotals(source, tracks, w) \in [1..Len(source) -> Nat]
    BY SpacingTotalsAre
  <2> QED
    BY <1>2, <2>1, <2>2 DEF MinimumRepeatSpacing
<1> QED
  BY <1>1, <1>2

-----------------------------------------------------------------------------
(***************************************************************************)
(* The recurrence asks for no more room than any safe route has.           *)
(***************************************************************************)
\* Members that stand in order, with every pair of them apart.
StandApart(source, tracks, w, pos) ==
  /\ \A k \in 1..Len(source) : pos[k] \in Int
  /\ \A k \in 2..Len(source) : pos[k - 1] < pos[k]
  /\ \A r \in 1..Len(source) : \A l \in 1..(r - 1) :
       PairSafe(tracks, w, source[l], source[r], pos[r] - pos[l])

\* A safe pair to which a window applies stands beyond it.
LEMMA SafePairIsBeyondWindow ==
  ASSUME NEW tracks, NEW a, NEW b, NEW d \in Int,
         NEW w \in [artist : Nat, album : Nat, track : Nat],
         PairSafe(tracks, w, a, b, d), RequiredWindow(tracks, w, a, b) > 0
  PROVE  d > RequiredWindow(tracks, w, a, b)
  BY DEF RequiredWindow, Larger, PairSafe, ArtistAndAlbumApart, SameTrackApart

LEMMA RoomForWindow ==
  ASSUME NEW fl \in Nat, NEW fr \in Nat, NEW pl \in Int, NEW pr \in Int, NEW first \in Int,
         NEW l \in Nat, NEW r \in Nat, NEW window \in Nat,
         fl <= pl - first - (l - 1), pr - pl > window, fr = fl + (window + 1 - (r - l))
  PROVE  fr <= pr - first - (r - 1)
  OBVIOUS

LEMMA NextStandsFurther ==
  ASSUME NEW pl \in Int, NEW pr \in Int, NEW first \in Int, NEW r \in Nat, pl < pr
  PROVE  /\ pl - first - ((r - 1) - 1) <= pr - first - (r - 1)
         /\ pr - first - (r - 1) \in Int
  OBVIOUS

\* Whatever stands between the members of a route that is safe, it is at least
\* what the recurrence asks for.
LEMMA SpacingIsNeeded ==
  ASSUME NEW source \in Seq(Nat), NEW tracks,
         NEW w \in [artist : Nat, album : Nat, track : Nat], source # <<>>,
         NEW pos, StandApart(source, tracks, w, pos)
  PROVE  MinimumRepeatSpacing(source, tracks, w)
           <= pos[Len(source)] - pos[1] - (Len(source) - 1)
<1> DEFINE n == Len(source)
           f == RepeatSpacingTotals(source, tracks, w)
           Between(r) == pos[r] - pos[1] - (r - 1)
           Bad == {r \in 1..n : ~(/\ f[r] <= Between(r)
                                  /\ \A l \in 1..r : Between(l) <= Between(r))}
<1>1. n \in Nat /\ n >= 1 /\ n \in 1..n /\ 1 \in 1..n
  OBVIOUS
<1>2. AreTotals(f, source, tracks, w, n) /\ f \in [1..n -> Nat]
  BY SpacingTotalsAre
<1>3. MinimumRepeatSpacing(source, tracks, w) = f[n]
  BY DEF MinimumRepeatSpacing
<1>4. /\ \A k \in 1..n : pos[k] \in Int
      /\ \A k \in 2..n : pos[k - 1] < pos[k]
      /\ \A r \in 1..n : \A l \in 1..(r - 1) :
           PairSafe(tracks, w, source[l], source[r], pos[r] - pos[l])
  BY DEF StandApart
<1> HIDE DEF n, f
<1>5. \A r \in 1..n : f[r] = IF r = 1 THEN 0 ELSE Max(Offers(source, tracks, w, f, r))
  <2>1. f = [r \in 1..n |-> IF r = 1 THEN 0 ELSE Max(Offers(source, tracks, w, f, r))]
    BY <1>2 DEF AreTotals
  <2>2. \A g : f = [r \in 1..n |-> g[r]] => \A r \in 1..n : f[r] = g[r]
    OBVIOUS
  <2> DEFINE g == [r \in 1..n |-> IF r = 1 THEN 0 ELSE Max(Offers(source, tracks, w, f, r))]
  <2>3. \A r \in 1..n : g[r] = IF r = 1 THEN 0 ELSE Max(Offers(source, tracks, w, f, r))
    OBVIOUS
  <2> QED
    BY <2>1, <2>3, Zenon
<1>6. ASSUME Bad # {} PROVE FALSE
  <2>1. Bad \in SUBSET Nat
    BY <1>1
  <2> HIDE DEF Bad
  <2>2. PICK r \in Bad : \A q \in Bad : r <= q
    BY <1>6, <2>1, LeastNatural
  <2>3. r \in 1..n /\ ~(f[r] <= Between(r) /\ \A l \in 1..r : Between(l) <= Between(r))
    BY DEF Bad
  <2>4. CASE r = 1
    <3>1. f[r] = 0 /\ pos[1] \in Int
      BY <1>1, <1>4, <1>5, <2>4
    <3>2. f[r] <= Between(r)
      BY <2>4, <3>1
    <3>3. ASSUME NEW l \in 1..r PROVE Between(l) <= Between(r)
      <4>1. l = r
        BY <2>4
      <4> QED
        BY <2>4, <3>1, <4>1
    <3> QED
      BY <2>3, <3>2, <3>3
  <2>5. CASE r # 1
    <3>1. /\ r \in Nat /\ r > 1 /\ r \in 2..n /\ r - 1 \in 1..(r - 1)
          /\ \A l \in 1..(r - 1) : l \in 1..n /\ l \in Nat /\ l >= 1 /\ l < r
      BY <1>1, <2>3, <2>5
    <3>2. /\ pos[r] \in Int /\ pos[1] \in Int /\ pos[r - 1] \in Int /\ pos[r - 1] < pos[r]
          /\ \A l \in 1..(r - 1) : pos[l] \in Int
      <4>1. r \in 1..n /\ 1 \in 1..n /\ r - 1 \in 1..n /\ \A l \in 1..(r - 1) : l \in 1..n
        BY <1>1, <2>3, <3>1
      <4> QED
        BY <1>4, <3>1, <4>1
    <3>3. Between(r - 1) <= Between(r) /\ Between(r) \in Int
      <4> DEFINE pl == pos[r - 1]
                 pr == pos[r]
                 first == pos[1]
      <4>1. pl \in Int /\ pr \in Int /\ first \in Int /\ pl < pr /\ r \in Nat
        BY <3>1, <3>2
      <4> HIDE DEF pl, pr, first
      <4>2. /\ pl - first - ((r - 1) - 1) <= pr - first - (r - 1)
            /\ pr - first - (r - 1) \in Int
        BY <4>1, NextStandsFurther
      <4> QED
        BY <4>2 DEF pl, pr, first
    <3>4. ASSUME NEW l \in 1..(r - 1)
          PROVE  /\ f[l] \in Nat /\ f[l] <= Between(l)
                 /\ \A k \in 1..l : Between(k) <= Between(l)
      <4>1. l \in 1..n /\ ~(r <= l)
        BY <3>1
      <4>2. l \notin Bad
        BY <2>2, <4>1
      <4> QED
        BY <1>2, <4>1, <4>2 DEF Bad
    <3>5. ASSUME NEW l \in 1..(r - 1) PROVE Between(l) \in Int /\ Between(l) <= Between(r)
      <4>1. l \in 1..(r - 1) /\ r - 1 \in 1..(r - 1) /\ l \in 1..(r - 1)
        BY <3>1
      <4>2. Between(l) <= Between(r - 1)
        BY <3>4, <4>1
      <4>3. pos[l] \in Int /\ l \in Nat
        BY <3>1, <3>2
      <4>4. Between(l) \in Int /\ Between(r - 1) \in Int
        <5>1. Between(l) \in Int
          BY <3>2, <4>3
        <5>2. Between(r - 1) \in Int
          BY <3>1, <3>2
        <5> QED
          BY <5>1, <5>2
      <4> HIDE DEF Between
      <4> QED
        BY <3>3, <4>2, <4>4
    <3>6. Max(Offers(source, tracks, w, f, r)) \in Offers(source, tracks, w, f, r)
      BY <3>1, <3>4, MostIsOffered
    <3> DEFINE most == Max(Offers(source, tracks, w, f, r))
    <3>7. f[r] = most
      BY <1>5, <2>3, <2>5
    <3> HIDE DEF most
    <3>8. \/ f[r] = f[r - 1]
          \/ \E l \in 1..(r - 1) :
               /\ RequiredWindow(tracks, w, source[l], source[r]) > 0
               /\ f[r] = f[l] + SaturatingSub(RequiredWindow(tracks, w, source[l], source[r]) + 1, r - l)
      BY <3>6, <3>7 DEF most, Offers
    <3>9. f[r] <= Between(r)
      <4>1. CASE f[r] = f[r - 1]
        <5>1. /\ f[r - 1] \in Nat /\ f[r - 1] <= Between(r - 1)
              /\ Between(r - 1) \in Int /\ Between(r - 1) <= Between(r)
          BY <3>1, <3>4, <3>5
        <5> HIDE DEF Between
        <5> QED
          BY <3>3, <4>1, <5>1
      <4>2. CASE \E l \in 1..(r - 1) :
                   /\ RequiredWindow(tracks, w, source[l], source[r]) > 0
                   /\ f[r] = f[l] + SaturatingSub(RequiredWindow(tracks, w, source[l], source[r]) + 1, r - l)
        <5>1. PICK l \in 1..(r - 1) :
                /\ RequiredWindow(tracks, w, source[l], source[r]) > 0
                /\ f[r] = f[l] + SaturatingSub(RequiredWindow(tracks, w, source[l], source[r]) + 1, r - l)
          BY <4>2
        <5> DEFINE window == RequiredWindow(tracks, w, source[l], source[r])
        <5>2. window \in Nat /\ pos[r] - pos[l] > window
          <6>1. w.artist \in Nat /\ w.album \in Nat /\ w.track \in Nat
            OBVIOUS
          <6>2. window \in Nat
            BY <6>1 DEF RequiredWindow, Larger
          <6>3. PairSafe(tracks, w, source[l], source[r], pos[r] - pos[l])
            BY <1>4, <2>3
          <6>4. pos[r] - pos[l] \in Int
            BY <3>2
          <6> QED
            BY <5>1, <6>2, <6>3, <6>4, SafePairIsBeyondWindow
        <5>3. f[r] = f[l] + SaturatingSub(window + 1, r - l)
          BY <5>1
        <5> HIDE DEF window
        <5>4. /\ l \in Nat /\ r - l \in Nat /\ f[l] \in Nat /\ f[r] \in Nat /\ pos[l] \in Int
              /\ f[l] <= pos[l] - pos[1] - (l - 1)
          <6>1. l \in Nat /\ l < r /\ r \in Nat /\ pos[l] \in Int
            BY <3>1, <3>2
          <6>2. f[l] \in Nat /\ f[r] \in Nat /\ f[l] <= pos[l] - pos[1] - (l - 1)
            BY <1>2, <2>3, <3>4
          <6>3. r - l \in Nat
            BY <6>1
          <6> QED
            BY <6>1, <6>2, <6>3
        <5>5. CASE window + 1 >= r - l
          <6>1. f[r] = f[l] + (window + 1 - (r - l))
            BY <5>2, <5>3, <5>4, <5>5 DEF SaturatingSub
          <6> QED
            BY <3>1, <3>2, <5>2, <5>4, <6>1, RoomForWindow
        <5>6. CASE ~(window + 1 >= r - l)
          <6>1. f[r] = f[l]
            BY <5>3, <5>4, <5>6 DEF SaturatingSub
          <6>2. f[l] <= Between(l) /\ Between(l) \in Int /\ Between(l) <= Between(r)
            BY <3>4, <3>5
          <6> HIDE DEF Between
          <6> QED
            BY <3>3, <5>4, <6>1, <6>2
        <5> QED
          BY <5>5, <5>6
      <4> QED
        BY <3>8, <4>1, <4>2
    <3>10. ASSUME NEW l \in 1..r PROVE Between(l) <= Between(r)
      <4>1. l \in 1..(r - 1) \/ l = r
        BY <3>1
      <4> HIDE DEF Between
      <4> QED
        BY <3>3, <3>5, <4>1
    <3> QED
      BY <2>3, <3>9, <3>10
  <2> QED
    BY <2>4, <2>5
<1>7. f[n] <= Between(n)
  BY <1>1, <1>6
<1> QED
  BY <1>3, <1>7 DEF n
=============================================================================
