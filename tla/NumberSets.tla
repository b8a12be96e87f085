------------------------------ MODULE NumberSets ------------------------------
(***************************************************************************)
(* What the proofs of the components need of finite sets: their greatest   *)
(* element, their elements counted in order, and sums over them            *)
(* (SumFunctionOnSet of the community modules).                            *)
(***************************************************************************)
EXTENDS Integers, FiniteSets, FiniteSetsExt, FiniteSetTheorems, WellFoundedInduction, TLAPS

\* A finite, non-empty set of numbers has a greatest element: among the sets
\* of elements above some element, a minimal one is empty.
LEMMA GreatestExists ==
    ASSUME NEW S \in SUBSET Nat, IsFiniteSet(S), S # {}
    PROVE  \E x \in S : \A y \in S : x >= y
<1> DEFINE Above(x) == {y \in S : y > x}
           T == {Above(x) : x \in S}
<1>1. T \subseteq FiniteSubsetsOf(S) /\ T # {}
  <2>1. \A x \in S : IsFiniteSet(Above(x)) /\ Above(x) \in SUBSET S
    BY FS_Subset
  <2> QED BY <2>1 DEF FiniteSubsetsOf
<1>2. PICK U \in T : \A V \in T : ~ (<<V, U>> \in StrictSubsetOrdering(S))
  BY <1>1, FS_StrictSubsetOrderingWellFounded, WFMin, Zenon
<1>3. PICK x \in S : U = Above(x)
  BY <1>2
<1>4. ASSUME NEW z \in S, z > x PROVE FALSE
  <2>1. Above(z) \in T BY <1>4
  <2>2. Above(z) \subseteq Above(x)
    <3>1. \A y \in S : y > z => y > x
      <4> SUFFICES ASSUME NEW y \in S, y > z PROVE y > x OBVIOUS
      <4>1. x \in Nat /\ y \in Nat /\ z \in Nat OBVIOUS
      <4> QED BY <1>4, <4>1
    <3> QED BY <3>1
  <2>3. Above(z) # Above(x) BY <1>4
  <2>4. <<Above(z), Above(x)>> \in StrictSubsetOrdering(S)
    BY <2>2, <2>3 DEF StrictSubsetOrdering
  <2> QED BY <1>2, <1>3, <2>1, <2>4
<1>5. \A y \in S : y \in Nat OBVIOUS
<1> QED BY <1>4, <1>5

\* Its Max is that element.
LEMMA MaxIsGreatest ==
    ASSUME NEW S \in SUBSET Nat, IsFiniteSet(S), S # {}
    PROVE  Max(S) \in S /\ \A y \in S : Max(S) >= y
<1>1. \E x \in S : \A y \in S : x >= y
  BY GreatestExists
<1> QED BY <1>1 DEF Max

\* Its Min is the least.
LEMMA MinIsLeast ==
    ASSUME NEW S \in SUBSET Nat, IsFiniteSet(S), S # {}
    PROVE  Min(S) \in S /\ \A y \in S : Min(S) <= y
<1>1. \E x \in S : \A y \in S : x <= y
  <2>1. PICK m \in S : \A y \in S : m >= y
    BY GreatestExists
  <2> DEFINE T == {m - y : y \in S}
             g == [y \in S |-> m - y]
  <2>2. T \in SUBSET Nat /\ T # {}
    BY <2>1
  <2>3. IsFiniteSet(T)
    <3>1. g \in Surjection(S, T)
      BY DEF Surjection
    <3> HIDE DEF g, T
    <3> QED BY <3>1, FS_Surjection
  <2>4. PICK z \in T : \A y \in T : z >= y
    <3> HIDE DEF T
    <3> QED BY <2>2, <2>3, GreatestExists
  <2>5. PICK x \in S : z = m - x
    BY <2>4
  <2>6. \A y \in S : m - y \in T
    OBVIOUS
  <2>7. ASSUME NEW y \in S PROVE x <= y
    <3>1. z >= m - y
      BY <2>4, <2>6
    <3>2. x \in Nat /\ y \in Nat /\ m \in Nat
      OBVIOUS
    <3> QED BY <2>5, <3>1, <3>2
  <2> QED BY <2>7
<1> QED BY <1>1 DEF Min

\* The elements of a finite set of numbers, by how many are below each: every
\* count short of the size is some element's, and only one's.
LEMMA RanksCount ==
    ASSUME NEW S \in SUBSET Nat, IsFiniteSet(S)
    PROVE  LET rank(o) == Cardinality({p \in S : p < o})
               n == Cardinality(S)
           IN  /\ n \in Nat
               /\ \A o \in S : rank(o) \in 0 .. n - 1
               /\ \A o, q \in S : o < q => rank(o) < rank(q)
               /\ \A o, q \in S : rank(o) = rank(q) => o = q
               /\ \A i \in 0 .. n - 1 : \E o \in S : rank(o) = i
<1> DEFINE Below(o) == {p \in S : p < o}
           n == Cardinality(S)
           turn == [o \in S |-> Cardinality(Below(o)) + 1]
<1>1. \A o \in S : Below(o) \in SUBSET S /\ IsFiniteSet(Below(o)) /\ Cardinality(Below(o)) \in Nat
  BY FS_Subset, FS_CardinalityType
<1>2. n \in Nat
  BY FS_CardinalityType
<1>3. ASSUME NEW o \in S PROVE Cardinality(Below(o)) < n
  <2>1. Cardinality(Below(o)) <= n /\ (n = Cardinality(Below(o)) => S = Below(o))
    BY <1>1, FS_Subset
  <2>2. S # Below(o)
    OBVIOUS
  <2> HIDE DEF Below, n
  <2> QED BY <2>1, <2>2, <1>1, <1>2
<1>4. ASSUME NEW o \in S, NEW q \in S, o < q PROVE Cardinality(Below(o)) < Cardinality(Below(q))
  <2>1. Below(o) \in SUBSET Below(q)
    <3>1. \A p \in S : p < o => p < q
      BY <1>4
    <3> QED BY <3>1
  <2>2. Below(o) # Below(q)
    <3>1. o \in Below(q) /\ o \notin Below(o)
      BY <1>4
    <3> QED BY <3>1
  <2>3. /\ Cardinality(Below(o)) <= Cardinality(Below(q))
        /\ Cardinality(Below(q)) = Cardinality(Below(o)) => Below(q) = Below(o)
    BY <1>1, <2>1, FS_Subset
  <2> HIDE DEF Below
  <2> QED BY <1>1, <2>2, <2>3
<1>5. turn \in Injection(S, 1..n)
  <2>1. turn \in [S -> 1..n]
    <3> HIDE DEF Below, n
    <3> QED BY <1>1, <1>2, <1>3
  <2>2. ASSUME NEW o \in S, NEW q \in S, o # q PROVE turn[o] # turn[q]
    <3>1. o \in Nat /\ q \in Nat
      OBVIOUS
    <3>2. o < q \/ q < o
      BY <2>2, <3>1
    <3> HIDE DEF Below
    <3> QED BY <1>1, <1>4, <3>2
  <2> QED BY <2>1, <2>2 DEF Injection, IsInjective
<1>6. turn \in Surjection(S, 1..n)
  <2>1. IsFiniteSet(1..n) /\ Cardinality(1..n) = n
    BY <1>2, FS_Interval
  <2> HIDE DEF turn
  <2> QED BY <1>5, <2>1, FS_Injection
<1>7. ASSUME NEW i \in 0 .. n - 1 PROVE \E o \in S : Cardinality(Below(o)) = i
  <2>1. i + 1 \in 1 .. n /\ i \in Int
    BY <1>2
  <2>2. PICK o \in S : turn[o] = i + 1
    BY <1>6, <2>1 DEF Surjection
  <2>3. Cardinality(Below(o)) = i
    <3> HIDE DEF Below
    <3> QED BY <1>1, <2>1, <2>2
  <2> QED BY <2>3
<1>8. ASSUME NEW o \in S, NEW q \in S, Cardinality(Below(o)) = Cardinality(Below(q)) PROVE o = q
  <2> HIDE DEF Below, n
  <2>1. turn[o] = turn[q]
    BY <1>8
  <2> HIDE DEF turn
  <2> QED BY <1>5, <2>1 DEF Injection, IsInjective
<1>9. \A o \in S : Cardinality(Below(o)) \in 0 .. n - 1
  <2> HIDE DEF Below, n
  <2> QED BY <1>1, <1>2, <1>3
<1> HIDE DEF turn
<1> QED BY <1>2, <1>4, <1>7, <1>8, <1>9

\* What is picked for each of as many numbers, rank by rank, is picked once.
LEMMA RankedPick ==
    ASSUME NEW S \in SUBSET Nat, IsFiniteSet(S), NEW T \in SUBSET Nat, IsFiniteSet(T),
           Cardinality(S) = Cardinality(T)
    PROVE  LET pick(k) == CHOOSE l \in S : Cardinality({m \in S : m < l})
                                              = Cardinality({j \in T : j < k})
           IN  /\ \A k \in T : pick(k) \in S
               /\ \A j, k \in T : pick(j) = pick(k) => j = k
<1> DEFINE RankS(l) == Cardinality({m \in S : m < l})
           RankT(k) == Cardinality({j \in T : j < k})
           pick(k) == CHOOSE l \in S : RankS(l) = RankT(k)
<1>1. /\ \A k \in T : RankT(k) \in 0 .. Cardinality(T) - 1
      /\ \A j, k \in T : RankT(j) = RankT(k) => j = k
  BY RanksCount
<1>2. \A i \in 0 .. Cardinality(S) - 1 : \E l \in S : RankS(l) = i
  BY RanksCount
<1>3. \A k \in T : pick(k) \in S /\ RankS(pick(k)) = RankT(k)
  <2> SUFFICES ASSUME NEW k \in T PROVE pick(k) \in S /\ RankS(pick(k)) = RankT(k)
    OBVIOUS
  <2>1. \E l \in S : RankS(l) = RankT(k)
    BY <1>1, <1>2
  <2> HIDE DEF RankS, RankT
  <2> QED BY <2>1
<1> HIDE DEF RankS, RankT, pick
<1>4. ASSUME NEW j \in T, NEW k \in T, pick(j) = pick(k) PROVE j = k
  <2>1. RankT(j) = RankT(k)
    BY <1>3, <1>4
  <2> QED BY <1>1, <2>1
<1> QED BY <1>3, <1>4 DEF RankS, RankT, pick

\* A finite set of numbers, counted in ascending order: the k-th is the one with
\* k - 1 below it.
LEMMA CountedInOrder ==
    ASSUME NEW S \in SUBSET Nat, IsFiniteSet(S), NEW nth,
           \A k \in 1..Cardinality(S) :
               nth[k] = CHOOSE o \in S : Cardinality({p \in S : p < o}) = k - 1
    PROVE  /\ Cardinality(S) \in Nat
           /\ \A k \in 1..Cardinality(S) : nth[k] \in S
           /\ \A i, j \in 1..Cardinality(S) : i < j => nth[i] < nth[j]
           /\ \A w \in S : \E k \in 1..Cardinality(S) : nth[k] = w
<1> DEFINE Below(o) == {p \in S : p < o}
           n == Cardinality(S)
<1>1. /\ n \in Nat
      /\ \A o \in S : Cardinality(Below(o)) \in 0 .. n - 1
      /\ \A o, q \in S : o < q => Cardinality(Below(o)) < Cardinality(Below(q))
      /\ \A o, q \in S : Cardinality(Below(o)) = Cardinality(Below(q)) => o = q
      /\ \A i \in 0 .. n - 1 : \E o \in S : Cardinality(Below(o)) = i
  BY RanksCount
<1>2. ASSUME NEW k \in 1..n
      PROVE  nth[k] \in S /\ Cardinality(Below(nth[k])) = k - 1
  <2> HIDE DEF Below
  <2>1. k - 1 \in 0 .. n - 1
    BY <1>1
  <2>2. \E o \in S : Cardinality(Below(o)) = k - 1
    BY <1>1, <2>1
  <2>3. nth[k] = CHOOSE o \in S : Cardinality(Below(o)) = k - 1
    BY DEF Below
  <2> QED BY <2>2, <2>3
<1>3. \A k \in 1..n : nth[k] \in S /\ Cardinality(Below(nth[k])) = k - 1
  BY <1>2
<1> HIDE DEF Below, n
<1>4. ASSUME NEW i \in 1..n, NEW j \in 1..n, i < j PROVE nth[i] < nth[j]
  <2> DEFINE v == nth[i]
             w == nth[j]
  <2>1. v \in S /\ w \in S /\ Cardinality(Below(v)) = i - 1 /\ Cardinality(Below(w)) = j - 1
    BY <1>3
  <2> HIDE DEF v, w
  <2>2. v # w /\ ~ (w < v)
    BY <1>1, <1>4, <2>1
  <2>3. v \in Nat /\ w \in Nat
    BY <2>1
  <2>4. v < w
    BY <2>2, <2>3
  <2> QED BY <2>4 DEF v, w
<1>5. ASSUME NEW w \in S PROVE \E k \in 1..n : nth[k] = w
  <2> DEFINE k == Cardinality(Below(w)) + 1
  <2>1. k \in 1..n /\ k - 1 = Cardinality(Below(w))
    BY <1>1
  <2>2. nth[k] \in S /\ Cardinality(Below(nth[k])) = Cardinality(Below(w))
    BY <1>3, <2>1
  <2> QED BY <1>1, <2>1, <2>2
<1> QED BY <1>1, <1>3, <1>4, <1>5 DEF n

-----------------------------------------------------------------------------
(***************************************************************************)
(* Sums.                                                                   *)
(***************************************************************************)
\* The element a sum takes first, and the table of partial sums that the
\* definition of SumFunctionOnSet chooses.
First(s) == CHOOSE x \in s : TRUE

Adds(f, S, g) ==
    g = [s \in SUBSET S |-> IF s = {} THEN 0 ELSE f[First(s)] + g[s \ {First(s)}]]

\* The first element of a set that has one.
LEMMA FirstIn == ASSUME NEW s, s # {} PROVE First(s) \in s
BY DEF First

\* A sum is an entry of its table.
LEMMA SumIsTable ==
    ASSUME NEW f, NEW S
    PROVE  SumFunctionOnSet(f, S) = (CHOOSE g : Adds(f, S, g))[S]
BY DEF SumFunctionOnSet, FoldFunctionOnSet, MapThenFoldSet, Adds, First

\* Among subsets of a finite set there is a smallest one: the induction
\* every lemma below is by.
LEMMA SmallestSubset ==
    ASSUME NEW S, IsFiniteSet(S), NEW T \in SUBSET (SUBSET S), T # {}
    PROVE  \E U \in T : \A V \in T : V \subseteq U => V = U
<1>1. T \subseteq FiniteSubsetsOf(S)
  BY FS_Subset DEF FiniteSubsetsOf
<1>2. PICK U \in T : \A V \in T : ~ (<<V, U>> \in StrictSubsetOrdering(S))
  BY <1>1, FS_StrictSubsetOrderingWellFounded, WFMin, Zenon
<1> QED BY <1>2 DEF StrictSubsetOrdering

\* Two tables of the same terms agree where both are defined.
LEMMA TablesAgree ==
    ASSUME NEW f, NEW S, NEW R, NEW g, NEW h, Adds(f, S, g), Adds(f, R, h),
           NEW T \in SUBSET (S \cap R), IsFiniteSet(T)
    PROVE  g[T] = h[T]
<1> DEFINE Bad == {U \in SUBSET T : g[U] # h[U]}
<1> SUFFICES ASSUME Bad # {} PROVE FALSE
  OBVIOUS
<1>1. PICK U \in Bad : \A V \in Bad : V \subseteq U => V = U
  <2>1. Bad \in SUBSET (SUBSET T)
    OBVIOUS
  <2> HIDE DEF Bad
  <2> QED BY <2>1, SmallestSubset
<1>2. U \in SUBSET S /\ U \in SUBSET R /\ g[U] # h[U]
  OBVIOUS
<1>3. /\ g[U] = IF U = {} THEN 0 ELSE f[First(U)] + g[U \ {First(U)}]
      /\ h[U] = IF U = {} THEN 0 ELSE f[First(U)] + h[U \ {First(U)}]
  BY <1>2 DEF Adds
<1>4. U # {}
  BY <1>2, <1>3
<1>5. U \ {First(U)} \in SUBSET T /\ U \ {First(U)} # U
  BY <1>4, FirstIn
<1>6. g[U \ {First(U)}] = h[U \ {First(U)}]
  BY <1>1, <1>5
<1> QED BY <1>2, <1>3, <1>6

\* Every finite set has its table.
LEMMA TableExists ==
    ASSUME NEW f, NEW S, IsFiniteSet(S)
    PROVE  \E g : Adds(f, S, g)
<1> DEFINE Bad == {U \in SUBSET S : \A g : ~ Adds(f, U, g)}
<1> SUFFICES ASSUME Bad # {} PROVE FALSE
  OBVIOUS
<1>1. PICK U \in Bad : \A V \in Bad : V \subseteq U => V = U
  <2>1. Bad \in SUBSET (SUBSET S)
    OBVIOUS
  <2> HIDE DEF Bad
  <2> QED BY <2>1, SmallestSubset
<1> DEFINE Last(s) == (CHOOSE g : Adds(f, s, g))[s]
           h == [s \in SUBSET U |-> IF s = {} THEN 0 ELSE f[First(s)] + Last(s \ {First(s)})]
<1>2. ASSUME NEW W \in SUBSET U, W # U PROVE h[W] = Last(W)
  <2>1. \E g : Adds(f, W, g)
    BY <1>1, <1>2
  <2>2. PICK g : g = (CHOOSE k : Adds(f, W, k)) /\ Adds(f, W, g)
    BY <2>1
  <2>3. g[W] = IF W = {} THEN 0 ELSE f[First(W)] + g[W \ {First(W)}]
    BY <2>2 DEF Adds
  <2>4. CASE W = {}
    BY <2>2, <2>3, <2>4
  <2>5. CASE W # {}
    <3> DEFINE X == W \ {First(W)}
    <3>1. X \in SUBSET U /\ X # U /\ X \in SUBSET W
      BY <2>5, FirstIn
    <3>2. \E k : Adds(f, X, k)
      BY <1>1, <3>1
    <3>3. PICK k : k = (CHOOSE j : Adds(f, X, j)) /\ Adds(f, X, k)
      BY <3>2
    <3>4. IsFiniteSet(X)
      BY <3>1, FS_Subset
    <3>5. g[X] = k[X]
      BY <2>2, <3>1, <3>3, <3>4, TablesAgree
    <3> QED BY <2>2, <2>3, <2>5, <3>3, <3>5
  <2> QED BY <2>4, <2>5
<1>3. \A s \in SUBSET U : s # {} => h[s \ {First(s)}] = Last(s \ {First(s)})
  <2> SUFFICES ASSUME NEW s \in SUBSET U, s # {}
               PROVE  h[s \ {First(s)}] = Last(s \ {First(s)})
    OBVIOUS
  <2>1. s \ {First(s)} \in SUBSET U /\ s \ {First(s)} # U
    BY FirstIn
  <2> QED BY <1>2, <2>1
<1>4. Adds(f, U, h)
  <2>1. [s \in SUBSET U |-> IF s = {} THEN 0 ELSE f[First(s)] + Last(s \ {First(s)})]
        = [s \in SUBSET U |-> IF s = {} THEN 0 ELSE f[First(s)] + h[s \ {First(s)}]]
    <3> HIDE DEF Last
    <3> QED BY <1>3
  <2> QED BY <2>1 DEF Adds
<1> QED BY <1>4


\* What a sum is: nothing, or its first term and the others.
LEMMA SumUnfolds ==
    ASSUME NEW f, NEW S, IsFiniteSet(S)
    PROVE  SumFunctionOnSet(f, S) =
              IF S = {} THEN 0 ELSE f[First(S)] + SumFunctionOnSet(f, S \ {First(S)})
<1> DEFINE X == S \ {First(S)}
<1>1. PICK g : g = (CHOOSE k : Adds(f, S, k)) /\ Adds(f, S, g)
  BY TableExists
<1>2. IsFiniteSet(X)
  BY FS_Subset
<1>3. PICK h : h = (CHOOSE k : Adds(f, X, k)) /\ Adds(f, X, h)
  BY <1>2, TableExists
<1>4. g[S] = IF S = {} THEN 0 ELSE f[First(S)] + g[X]
  BY <1>1 DEF Adds
<1>5. g[X] = h[X]
  BY <1>1, <1>2, <1>3, TablesAgree
<1>6. SumFunctionOnSet(f, S) = g[S] /\ SumFunctionOnSet(f, X) = h[X]
  BY <1>1, <1>3, SumIsTable
<1> QED BY <1>4, <1>5, <1>6

\* The sum of nothing.
LEMMA SumOfNone == ASSUME NEW f PROVE SumFunctionOnSet(f, {}) = 0
BY SumUnfolds, FS_EmptySet

\* Sums of integers are integers.
LEMMA SumIsInt ==
    ASSUME NEW f, NEW S, IsFiniteSet(S), \A x \in S : f[x] \in Int
    PROVE  SumFunctionOnSet(f, S) \in Int
<1> DEFINE Bad == {U \in SUBSET S : SumFunctionOnSet(f, U) \notin Int}
<1> SUFFICES ASSUME Bad # {} PROVE FALSE
  OBVIOUS
<1>1. PICK U \in Bad : \A V \in Bad : V \subseteq U => V = U
  <2>1. Bad \in SUBSET (SUBSET S)
    OBVIOUS
  <2> HIDE DEF Bad
  <2> QED BY <2>1, SmallestSubset
<1>2. IsFiniteSet(U)
  BY FS_Subset
<1>3. U # {}
  BY SumOfNone
<1>4. U \ {First(U)} \in SUBSET S /\ U \ {First(U)} # U /\ First(U) \in S
  BY <1>3, FirstIn
<1>5. SumFunctionOnSet(f, U \ {First(U)}) \in Int
  BY <1>1, <1>4
<1> QED BY <1>2, <1>3, <1>4, <1>5, SumUnfolds

\* Any term can be taken out.
LEMMA SumWithout ==
    ASSUME NEW f, NEW S, IsFiniteSet(S), \A y \in S : f[y] \in Int, NEW x \in S
    PROVE  SumFunctionOnSet(f, S) = f[x] + SumFunctionOnSet(f, S \ {x})
<1> DEFINE Bad == {U \in SUBSET S : \E y \in U :
                      SumFunctionOnSet(f, U) # f[y] + SumFunctionOnSet(f, U \ {y})}
<1> SUFFICES ASSUME Bad # {} PROVE FALSE
  OBVIOUS
<1>1. PICK U \in Bad : \A V \in Bad : V \subseteq U => V = U
  <2>1. Bad \in SUBSET (SUBSET S)
    OBVIOUS
  <2> HIDE DEF Bad
  <2> QED BY <2>1, SmallestSubset
<1>2. PICK y \in U : SumFunctionOnSet(f, U) # f[y] + SumFunctionOnSet(f, U \ {y})
  OBVIOUS
<1> DEFINE c == First(U)
           V == U \ {c}
           W == U \ {y}
<1>3. IsFiniteSet(U) /\ IsFiniteSet(V) /\ IsFiniteSet(W) /\ IsFiniteSet(V \ {y})
  BY FS_Subset
<1>4. c \in U
  BY <1>2, FirstIn
<1>5. SumFunctionOnSet(f, U) = f[c] + SumFunctionOnSet(f, V)
  BY <1>2, <1>3, SumUnfolds
<1>6. y # c
  BY <1>2, <1>5
<1>7. SumFunctionOnSet(f, V) = f[y] + SumFunctionOnSet(f, V \ {y})
  <2>1. V \in SUBSET S /\ V # U /\ V \subseteq U /\ y \in V
    BY <1>4, <1>6
  <2> QED BY <1>1, <2>1
<1>8. SumFunctionOnSet(f, W) = f[c] + SumFunctionOnSet(f, W \ {c})
  <2>1. W \in SUBSET S /\ W # U /\ W \subseteq U /\ c \in W
    BY <1>4, <1>6
  <2> QED BY <1>1, <2>1
<1>9. W \ {c} = V \ {y}
  OBVIOUS
<1>10. f[y] \in Int /\ f[c] \in Int /\ SumFunctionOnSet(f, V \ {y}) \in Int
  BY <1>3, <1>4, SumIsInt
<1> DEFINE a == SumFunctionOnSet(f, U)
           b == SumFunctionOnSet(f, V)
           d == SumFunctionOnSet(f, W)
           e == SumFunctionOnSet(f, V \ {y})
<1>11. a # f[y] + d /\ a = f[c] + b /\ b = f[y] + e /\ d = f[c] + e /\ e \in Int
  BY <1>2, <1>5, <1>7, <1>8, <1>9, <1>10
<1> HIDE DEF a, b, d, e, c
<1> QED BY <1>10, <1>11

\* A term added, wherever it is not counted yet.
LEMMA SumWith ==
    ASSUME NEW f, NEW S, IsFiniteSet(S), NEW x, x \notin S, \A y \in S \cup {x} : f[y] \in Int
    PROVE  SumFunctionOnSet(f, S \cup {x}) = f[x] + SumFunctionOnSet(f, S)
<1>1. IsFiniteSet(S \cup {x}) /\ (S \cup {x}) \ {x} = S
  BY FS_AddElement
<1> QED BY <1>1, SumWithout

\* The terms of a sum are all it depends on.
LEMMA SumOfEqual ==
    ASSUME NEW f, NEW g, NEW S, IsFiniteSet(S), \A x \in S : f[x] = g[x]
    PROVE  SumFunctionOnSet(f, S) = SumFunctionOnSet(g, S)
<1> DEFINE Bad == {U \in SUBSET S : SumFunctionOnSet(f, U) # SumFunctionOnSet(g, U)}
<1> SUFFICES ASSUME Bad # {} PROVE FALSE
  OBVIOUS
<1>1. PICK U \in Bad : \A V \in Bad : V \subseteq U => V = U
  <2>1. Bad \in SUBSET (SUBSET S)
    OBVIOUS
  <2> HIDE DEF Bad
  <2> QED BY <2>1, SmallestSubset
<1>2. IsFiniteSet(U)
  BY FS_Subset
<1>3. U # {}
  BY SumOfNone
<1>4. U \ {First(U)} \in SUBSET S /\ U \ {First(U)} # U /\ First(U) \in S
  BY <1>3, FirstIn
<1>5. SumFunctionOnSet(f, U \ {First(U)}) = SumFunctionOnSet(g, U \ {First(U)})
  BY <1>1, <1>4
<1> QED BY <1>2, <1>3, <1>4, <1>5, SumUnfolds

\* One term changed.
LEMMA SumChanged ==
    ASSUME NEW f, NEW g, NEW S, IsFiniteSet(S), NEW x \in S,
           \A y \in S : f[y] \in Int /\ g[y] \in Int, \A y \in S \ {x} : f[y] = g[y]
    PROVE  SumFunctionOnSet(g, S) = SumFunctionOnSet(f, S) - f[x] + g[x]
<1>1. IsFiniteSet(S \ {x})
  BY FS_Subset
<1>2. SumFunctionOnSet(f, S \ {x}) = SumFunctionOnSet(g, S \ {x})
  BY <1>1, SumOfEqual
<1>3. SumFunctionOnSet(f, S \ {x}) \in Int
  BY <1>1, SumIsInt
<1>4. /\ SumFunctionOnSet(f, S) = f[x] + SumFunctionOnSet(f, S \ {x})
      /\ SumFunctionOnSet(g, S) = g[x] + SumFunctionOnSet(g, S \ {x})
  BY SumWithout
<1> DEFINE a == SumFunctionOnSet(f, S \ {x})
<1> HIDE DEF a
<1> QED BY <1>2, <1>3, <1>4 DEF a

\* Terms that are each at most another.
LEMMA SumAtMost ==
    ASSUME NEW f, NEW g, NEW S, IsFiniteSet(S),
           \A x \in S : f[x] \in Int /\ g[x] \in Int /\ f[x] <= g[x]
    PROVE  SumFunctionOnSet(f, S) <= SumFunctionOnSet(g, S)
<1> DEFINE Bad == {U \in SUBSET S : ~ (SumFunctionOnSet(f, U) <= SumFunctionOnSet(g, U))}
<1> SUFFICES ASSUME Bad # {} PROVE FALSE
  OBVIOUS
<1>1. PICK U \in Bad : \A V \in Bad : V \subseteq U => V = U
  <2>1. Bad \in SUBSET (SUBSET S)
    OBVIOUS
  <2> HIDE DEF Bad
  <2> QED BY <2>1, SmallestSubset
<1>2. IsFiniteSet(U) /\ IsFiniteSet(U \ {First(U)})
  BY FS_Subset
<1>3. U # {}
  BY SumOfNone
<1>4. U \ {First(U)} \in SUBSET S /\ U \ {First(U)} # U /\ First(U) \in S
  BY <1>3, FirstIn
<1> DEFINE a == SumFunctionOnSet(f, U \ {First(U)})
           b == SumFunctionOnSet(g, U \ {First(U)})
<1>5. a <= b /\ a \in Int /\ b \in Int
  BY <1>1, <1>2, <1>4, SumIsInt
<1>6. SumFunctionOnSet(f, U) = f[First(U)] + a /\ SumFunctionOnSet(g, U) = g[First(U)] + b
  BY <1>2, <1>3, SumUnfolds
<1>7. ~ (f[First(U)] + a <= g[First(U)] + b)
  BY <1>6
<1> HIDE DEF a, b
<1> QED BY <1>4, <1>5, <1>7

\* Sums of natural numbers are natural numbers.
LEMMA SumIsNat ==
    ASSUME NEW f, NEW S, IsFiniteSet(S), \A x \in S : f[x] \in Nat
    PROVE  SumFunctionOnSet(f, S) \in Nat
<1> DEFINE Bad == {U \in SUBSET S : SumFunctionOnSet(f, U) \notin Nat}
<1> SUFFICES ASSUME Bad # {} PROVE FALSE
  OBVIOUS
<1>1. PICK U \in Bad : \A V \in Bad : V \subseteq U => V = U
  <2>1. Bad \in SUBSET (SUBSET S)
    OBVIOUS
  <2> HIDE DEF Bad
  <2> QED BY <2>1, SmallestSubset
<1>2. IsFiniteSet(U)
  BY FS_Subset
<1>3. U # {}
  BY SumOfNone
<1>4. U \ {First(U)} \in SUBSET S /\ U \ {First(U)} # U /\ First(U) \in S
  BY <1>3, FirstIn
<1>5. SumFunctionOnSet(f, U \ {First(U)}) \in Nat
  BY <1>1, <1>4
<1> QED BY <1>2, <1>3, <1>4, <1>5, SumUnfolds

\* Terms that are all zero.
LEMMA SumOfZeros ==
    ASSUME NEW f, NEW S, IsFiniteSet(S), \A x \in S : f[x] = 0
    PROVE  SumFunctionOnSet(f, S) = 0
<1> DEFINE Bad == {U \in SUBSET S : SumFunctionOnSet(f, U) # 0}
<1> SUFFICES ASSUME Bad # {} PROVE FALSE
  OBVIOUS
<1>1. PICK U \in Bad : \A V \in Bad : V \subseteq U => V = U
  <2>1. Bad \in SUBSET (SUBSET S)
    OBVIOUS
  <2> HIDE DEF Bad
  <2> QED BY <2>1, SmallestSubset
<1>2. IsFiniteSet(U)
  BY FS_Subset
<1>3. U # {}
  BY SumOfNone
<1>4. U \ {First(U)} \in SUBSET S /\ U \ {First(U)} # U /\ First(U) \in S
  BY <1>3, FirstIn
<1>5. SumFunctionOnSet(f, U \ {First(U)}) = 0
  BY <1>1, <1>4
<1> QED BY <1>2, <1>3, <1>4, <1>5, SumUnfolds

\* Two sets with nothing in common.
LEMMA SumOfUnion ==
    ASSUME NEW f, NEW S, NEW R, IsFiniteSet(S), IsFiniteSet(R), S \cap R = {},
           \A x \in S \cup R : f[x] \in Int
    PROVE  SumFunctionOnSet(f, S \cup R) = SumFunctionOnSet(f, S) + SumFunctionOnSet(f, R)
<1> DEFINE Bad == {U \in SUBSET S :
                      SumFunctionOnSet(f, U \cup R)
                          # SumFunctionOnSet(f, U) + SumFunctionOnSet(f, R)}
<1> SUFFICES ASSUME Bad # {} PROVE FALSE
  OBVIOUS
<1>1. PICK U \in Bad : \A V \in Bad : V \subseteq U => V = U
  <2>1. Bad \in SUBSET (SUBSET S)
    OBVIOUS
  <2> HIDE DEF Bad
  <2> QED BY <2>1, SmallestSubset
<1>2. IsFiniteSet(U) /\ IsFiniteSet(U \ {First(U)}) /\ IsFiniteSet(U \cup R)
  BY FS_Subset, FS_Union
<1>3. SumFunctionOnSet(f, R) \in Int
  BY SumIsInt
<1>4. U # {}
  <2> SUFFICES ASSUME U = {} PROVE FALSE
    OBVIOUS
  <2>1. SumFunctionOnSet(f, U) = 0 /\ U \cup R = R
    BY SumOfNone
  <2> QED BY <1>3, <2>1
<1> DEFINE c == First(U)
           V == U \ {c}
<1>5. V \in SUBSET S /\ V # U /\ c \in U /\ c \in S /\ (U \cup R) \ {c} = V \cup R
  BY <1>4, FirstIn
<1> DEFINE u == SumFunctionOnSet(f, V)
           r == SumFunctionOnSet(f, R)
           t == SumFunctionOnSet(f, V \cup R)
<1>6. t = u + r
  BY <1>1, <1>5
<1>7. SumFunctionOnSet(f, U) = f[c] + u
  BY <1>2, <1>5, SumWithout
<1>8. SumFunctionOnSet(f, U \cup R) = f[c] + t
  BY <1>2, <1>5, SumWithout
<1>9. f[c] + t # (f[c] + u) + r
  BY <1>7, <1>8
<1>10. f[c] \in Int /\ u \in Int /\ r \in Int
  BY <1>2, <1>3, <1>5, SumIsInt
<1> HIDE DEF c, u, r, t
<1> QED BY <1>6, <1>9, <1>10

\* Terms that are zero do not count.
LEMMA SumOfPart ==
    ASSUME NEW f, NEW S, IsFiniteSet(S), NEW T \in SUBSET S,
           \A x \in S : f[x] \in Int, \A x \in S \ T : f[x] = 0
    PROVE  SumFunctionOnSet(f, S) = SumFunctionOnSet(f, T)
<1> DEFINE t == SumFunctionOnSet(f, T)
           d == SumFunctionOnSet(f, S \ T)
<1>1. IsFiniteSet(T) /\ IsFiniteSet(S \ T)
  BY FS_Subset
<1>2. SumFunctionOnSet(f, T \cup (S \ T)) = t + d
  BY <1>1, SumOfUnion
<1>3. T \cup (S \ T) = S
  OBVIOUS
<1>4. d = 0 /\ t \in Int
  BY <1>1, SumOfZeros, SumIsInt
<1>5. SumFunctionOnSet(f, S) = t + d
  BY <1>2, <1>3
<1> HIDE DEF t, d
<1> QED BY <1>4, <1>5 DEF t

\* Of terms none of which is negative, some come to at most all.
LEMMA SumOfSome ==
    ASSUME NEW f, NEW S, IsFiniteSet(S), NEW T \in SUBSET S, \A x \in S : f[x] \in Nat
    PROVE  SumFunctionOnSet(f, T) <= SumFunctionOnSet(f, S)
<1> DEFINE t == SumFunctionOnSet(f, T)
           d == SumFunctionOnSet(f, S \ T)
<1>1. IsFiniteSet(T) /\ IsFiniteSet(S \ T)
  BY FS_Subset
<1>2. \A x \in T \cup (S \ T) : f[x] \in Int
  OBVIOUS
<1>3. SumFunctionOnSet(f, T \cup (S \ T)) = t + d
  BY <1>1, <1>2, SumOfUnion
<1>4. T \cup (S \ T) = S
  OBVIOUS
<1>5. t \in Nat /\ d \in Nat
  BY <1>1, SumIsNat
<1>6. SumFunctionOnSet(f, S) = t + d
  BY <1>3, <1>4
<1> HIDE DEF d
<1> QED BY <1>5, <1>6

\* Two terms for each element.
LEMMA SumOfDifferences ==
    ASSUME NEW f, NEW g, NEW h, NEW S, IsFiniteSet(S),
           \A x \in S : f[x] \in Int /\ g[x] \in Int /\ h[x] = f[x] - g[x]
    PROVE  SumFunctionOnSet(h, S) = SumFunctionOnSet(f, S) - SumFunctionOnSet(g, S)
<1> DEFINE Bad == {U \in SUBSET S : SumFunctionOnSet(h, U)
                                      # SumFunctionOnSet(f, U) - SumFunctionOnSet(g, U)}
<1> SUFFICES ASSUME Bad # {} PROVE FALSE
  OBVIOUS
<1>1. PICK U \in Bad : \A V \in Bad : V \subseteq U => V = U
  <2>1. Bad \in SUBSET (SUBSET S)
    OBVIOUS
  <2> HIDE DEF Bad
  <2> QED BY <2>1, SmallestSubset
<1>2. IsFiniteSet(U) /\ IsFiniteSet(U \ {First(U)})
  BY FS_Subset
<1>3. U # {}
  BY SumOfNone
<1>4. U \ {First(U)} \in SUBSET S /\ U \ {First(U)} # U /\ First(U) \in S
  BY <1>3, FirstIn
<1> DEFINE a == SumFunctionOnSet(f, U \ {First(U)})
           b == SumFunctionOnSet(g, U \ {First(U)})
           c == SumFunctionOnSet(h, U \ {First(U)})
<1>5. c = a - b /\ a \in Int /\ b \in Int
  BY <1>1, <1>2, <1>4, SumIsInt
<1>6. /\ SumFunctionOnSet(f, U) = f[First(U)] + a
      /\ SumFunctionOnSet(g, U) = g[First(U)] + b
      /\ SumFunctionOnSet(h, U) = h[First(U)] + c
  BY <1>2, <1>3, SumUnfolds
<1>7. h[First(U)] + c # (f[First(U)] + a) - (g[First(U)] + b)
  BY <1>6
<1> HIDE DEF a, b, c
<1> QED BY <1>4, <1>5, <1>7

\* Terms counted group by group: part[k] is the group of key k, and e[k] the
\* sum of its terms.
LEMMA SumGrouped ==
    ASSUME NEW f, NEW S, IsFiniteSet(S), \A x \in S : f[x] \in Int,
           NEW key, NEW K, IsFiniteSet(K), \A x \in S : key[x] \in K,
           NEW part, \A k \in K : \A x : x \in part[k] <=> x \in S /\ key[x] = k,
           NEW e, \A k \in K : e[k] = SumFunctionOnSet(f, part[k])
    PROVE  SumFunctionOnSet(f, S) = SumFunctionOnSet(e, K)
<1> DEFINE In(M) == {x \in S : key[x] \in M}
           Bad == {M \in SUBSET K : SumFunctionOnSet(f, In(M)) # SumFunctionOnSet(e, M)}
<1>0. In(K) = S
  OBVIOUS
<1> SUFFICES ASSUME Bad # {} PROVE FALSE
  BY <1>0
<1>1. PICK U \in Bad : \A V \in Bad : V \subseteq U => V = U
  <2>1. Bad \in SUBSET (SUBSET K)
    OBVIOUS
  <2> HIDE DEF Bad
  <2> QED BY <2>1, SmallestSubset
<1>2. IsFiniteSet(U)
  BY FS_Subset
<1>3. U # {}
  <2> SUFFICES ASSUME U = {} PROVE FALSE
    OBVIOUS
  <2>1. In(U) = {}
    OBVIOUS
  <2> QED BY <2>1, SumOfNone
<1> DEFINE c == First(U)
           V == U \ {c}
           G == {x \in S : key[x] = c}
<1>4. V \in SUBSET K /\ V # U /\ c \in K /\ c \in U
  BY <1>3, FirstIn
<1>5. In(U) = In(V) \cup G /\ In(V) \cap G = {}
  BY <1>4
<1>6. IsFiniteSet(In(V)) /\ IsFiniteSet(G) /\ In(V) \in SUBSET S /\ G \in SUBSET S
  BY FS_Subset
<1> HIDE DEF In, G
<1>7. SumFunctionOnSet(f, In(V) \cup G) = SumFunctionOnSet(f, In(V)) + SumFunctionOnSet(f, G)
  <2> DEFINE A == In(V)
  <2>1. IsFiniteSet(A) /\ IsFiniteSet(G) /\ A \cap G = {} /\ \A x \in A \cup G : f[x] \in Int
    BY <1>5, <1>6
  <2> HIDE DEF A
  <2>2. SumFunctionOnSet(f, A \cup G) = SumFunctionOnSet(f, A) + SumFunctionOnSet(f, G)
    BY ONLY <2>1, SumOfUnion
  <2> QED BY <2>2 DEF A
<1>8. SumFunctionOnSet(f, In(V)) = SumFunctionOnSet(e, V)
  BY <1>1, <1>4
<1>9. e[c] = SumFunctionOnSet(f, G)
  <2>1. part[c] = G
    BY <1>4 DEF G
  <2> QED BY <1>4, <2>1
<1>10. SumFunctionOnSet(e, U) = e[c] + SumFunctionOnSet(e, V)
  BY <1>2, <1>3, SumUnfolds
<1>11. SumFunctionOnSet(f, In(V)) \in Int /\ SumFunctionOnSet(f, G) \in Int
  BY <1>6, SumIsInt
<1>12. SumFunctionOnSet(f, In(U)) # SumFunctionOnSet(e, U)
  OBVIOUS
<1> DEFINE a == SumFunctionOnSet(f, In(V))
           b == SumFunctionOnSet(f, G)
<1>13. a + b # b + a
  BY <1>5, <1>7, <1>8, <1>9, <1>10, <1>12
<1> HIDE DEF a, b
<1> QED BY <1>11, <1>13 DEF a, b

\* The same terms under other names.
LEMMA SumRenamed ==
    ASSUME NEW f, NEW g, NEW S, NEW R, IsFiniteSet(S), NEW h \in [S -> R],
           \A x, y \in S : h[x] = h[y] => x = y,
           \A y \in R : \E x \in S : h[x] = y,
           \A x \in S : f[x] \in Int /\ f[x] = g[h[x]]
    PROVE  SumFunctionOnSet(f, S) = SumFunctionOnSet(g, R)
<1> DEFINE Image(U) == {h[x] : x \in U}
           Bad == {U \in SUBSET S : SumFunctionOnSet(f, U) # SumFunctionOnSet(g, Image(U))}
<1>0. Image(S) = R
  OBVIOUS
<1> SUFFICES ASSUME Bad # {} PROVE FALSE
  BY <1>0
<1>1. PICK U \in Bad : \A V \in Bad : V \subseteq U => V = U
  <2>1. Bad \in SUBSET (SUBSET S)
    OBVIOUS
  <2> HIDE DEF Bad
  <2> QED BY <2>1, SmallestSubset
<1>2. IsFiniteSet(U)
  BY FS_Subset
<1>3. U # {}
  <2> SUFFICES ASSUME U = {} PROVE FALSE
    OBVIOUS
  <2>1. Image(U) = {}
    OBVIOUS
  <2> QED BY <2>1, SumOfNone
<1> DEFINE c == First(U)
           V == U \ {c}
<1>4. V \in SUBSET S /\ V # U /\ c \in S /\ c \in U
  BY <1>3, FirstIn
<1>5. Image(U) = Image(V) \cup {h[c]} /\ h[c] \notin Image(V)
  BY <1>4
<1>6. IsFiniteSet(Image(V)) /\ \A y \in Image(V) \cup {h[c]} : g[y] \in Int
  <2>1. IsFiniteSet(V)
    BY <1>2, FS_Subset
  <2>2. [x \in V |-> h[x]] \in Surjection(V, Image(V))
    BY DEF Surjection
  <2>3. IsFiniteSet(Image(V))
    BY <2>1, <2>2, FS_Surjection
  <2> QED BY <1>4, <2>3
<1>7. SumFunctionOnSet(g, Image(V) \cup {h[c]}) = g[h[c]] + SumFunctionOnSet(g, Image(V))
  BY <1>5, <1>6, SumWith
<1>8. SumFunctionOnSet(f, V) = SumFunctionOnSet(g, Image(V))
  BY <1>1, <1>4
<1>9. SumFunctionOnSet(f, U) = f[c] + SumFunctionOnSet(f, V)
  BY <1>2, <1>3, SumUnfolds
<1>10. SumFunctionOnSet(f, U) # SumFunctionOnSet(g, Image(U))
  OBVIOUS
<1> HIDE DEF Image
<1> QED BY <1>4, <1>5, <1>7, <1>8, <1>9, <1>10

\* Rows, one for each key, of which those that are left out show nothing.
LEMMA SumOfRows ==
    ASSUME NEW K, IsFiniteSet(K), NEW row, \A x, y \in K : row[x] = row[y] => x = y,
           NEW f, \A x \in K : f[x] \in Int,
           NEW R, \A y \in R : \E x \in K : row[x] = y,
           NEW g, \A x \in K : IF row[x] \in R THEN g[row[x]] = f[x] ELSE f[x] = 0
    PROVE  SumFunctionOnSet(g, R) = SumFunctionOnSet(f, K)
<1> DEFINE T == {x \in K : row[x] \in R}
           h == [x \in T |-> row[x]]
<1>1. T \in SUBSET K /\ IsFiniteSet(T)
  BY FS_Subset
<1>2. \A x \in K \ T : f[x] = 0
  OBVIOUS
<1>3. SumFunctionOnSet(f, K) = SumFunctionOnSet(f, T)
  <2> HIDE DEF T
  <2> QED BY <1>1, <1>2, SumOfPart
<1>4. h \in [T -> R] /\ \A x \in T : h[x] = row[x]
  OBVIOUS
<1>5. \A y \in R : \E x \in T : h[x] = y
  OBVIOUS
<1>6. \A x, y \in T : h[x] = h[y] => x = y
  OBVIOUS
<1>7. \A x \in T : f[x] \in Int /\ f[x] = g[h[x]]
  OBVIOUS
<1> HIDE DEF T, h
<1>8. SumFunctionOnSet(f, T) = SumFunctionOnSet(g, R)
  BY <1>1, <1>4, <1>5, <1>6, <1>7, SumRenamed
<1> QED BY <1>3, <1>8

\* A sum over some members is the sum over all, where the others count 0.
LEMMA SumOverAll ==
    ASSUME NEW K, IsFiniteSet(K), NEW S \in SUBSET K, NEW f, NEW g,
           \A x \in S : f[x] = g[x] /\ f[x] \in Nat, \A x \in K \ S : g[x] = 0
    PROVE  /\ SumFunctionOnSet(f, S) = SumFunctionOnSet(g, K)
           /\ SumFunctionOnSet(f, S) \in Nat
<1>1. IsFiniteSet(S) /\ \A x \in K : g[x] \in Nat
  BY FS_Subset
<1>2. SumFunctionOnSet(f, S) = SumFunctionOnSet(g, S)
  BY <1>1, SumOfEqual
<1>3. SumFunctionOnSet(g, K) = SumFunctionOnSet(g, S)
  BY <1>1, SumOfPart
<1>4. SumFunctionOnSet(g, K) \in Nat
  BY <1>1, SumIsNat
<1> QED
  BY <1>2, <1>3, <1>4
=============================================================================
