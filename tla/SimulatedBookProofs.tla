------------------------ MODULE SimulatedBookProofs ------------------------
(***************************************************************************)
(* Lemmas about the deterministic executor, for every set of symbols, list *)
(* of intents, target and bar: what each operator keeps of a book.         *)
(***************************************************************************)
EXTENDS SimulatedBook, FiniteSetTheorems, FunctionTheorems,
        SequenceTheorems, TLAPS

\* A nonempty set of naturals has a least element.
LEMMA MinOfNaturals ==
    ASSUME NEW S \in SUBSET Nat, S # {}
    PROVE  Min(S) \in S /\ \A b \in S : Min(S) <= b
<1> DEFINE F == {0..k : k \in S}
<1>1. F \subseteq FiniteSubsetsOf(Nat) /\ F # {}
    <2>1. \A k \in S : 0..k \in SUBSET Nat /\ IsFiniteSet(0..k)
        BY FS_Interval
    <2> QED BY <2>1 DEF FiniteSubsetsOf
<1>2. PICK U \in F : \A V \in F : <<V, U>> \notin StrictSubsetOrdering(Nat)
    <2> HIDE DEF F
    <2> QED BY <1>1, FS_StrictSubsetOrderingWellFounded, WFMin
<1>3. PICK x \in S : U = 0..x
    OBVIOUS
<1>4. ASSUME NEW y \in S, y < x
      PROVE  FALSE
    <2>1. 0..y \in F /\ 0..y \in SUBSET Nat /\ 0..x \in SUBSET Nat
        OBVIOUS
    <2>2. 0..y \subseteq 0..x /\ 0..y # 0..x
        <3>1. x \in 0..x /\ x \notin 0..y /\ x \in Nat /\ y \in Nat
            BY <1>4
        <3> QED BY <1>4, <3>1
    <2> HIDE DEF F
    <2>3. <<0..y, 0..x>> \in StrictSubsetOrdering(Nat)
        BY <2>1, <2>2 DEF StrictSubsetOrdering
    <2> QED BY <1>2, <1>3, <2>1, <2>3
<1>5. \A y \in S : x <= y
    BY <1>4
<1> QED BY <1>5 DEF Min

\* A nonempty set of naturals with a bound has a greatest element.
LEMMA MaxOfNaturals ==
    ASSUME NEW r \in Nat, NEW S \in SUBSET (0..r), S # {}
    PROVE  Max(S) \in S /\ \A b \in S : b <= Max(S)
<1> DEFINE Above == {n \in Nat : \A b \in S : b <= n}
<1>1. Above \in SUBSET Nat /\ r \in Above
    OBVIOUS
<1>2. /\ Min(Above) \in Above
      /\ \A n \in Above : Min(Above) <= n
    <2> HIDE DEF Above
    <2> QED BY <1>1, MinOfNaturals
<1>3. ASSUME Min(Above) \notin S
      PROVE  FALSE
    <2>1. PICK b \in S : TRUE
        OBVIOUS
    <2>2. b <= Min(Above) /\ b # Min(Above) /\ b \in Nat /\ Min(Above) \in Nat
        BY <1>2, <1>3
    <2>3. Min(Above) - 1 \in Above
        BY <1>2, <1>3, <2>2
    <2> QED BY <1>2, <2>2, <2>3
<1>4. \A b \in S : b <= Min(Above)
    BY <1>2
<1> QED BY <1>3, <1>4 DEF Max

(***************************************************************************)
(* Induction, on concrete sets: G is the set of the numbers, or of the     *)
(* subsets, that have the property.                                        *)
(***************************************************************************)
LEMMA Upward ==
    ASSUME NEW n \in Nat, NEW G, 0 \in G,
           \A k \in 1..n : k - 1 \in G => k \in G
    PROVE  \A k \in 0..n : k \in G
<1> DEFINE Bad == {k \in 0..n : k \notin G}
<1>1. ASSUME Bad # {}
      PROVE  FALSE
    <2>1. Bad \in SUBSET Nat
        OBVIOUS
    <2>2. Min(Bad) \in Bad /\ \A b \in Bad : Min(Bad) <= b
        <3> HIDE DEF Bad
        <3> QED BY <1>1, <2>1, MinOfNaturals
    <2> DEFINE m == Min(Bad)
    <2> HIDE DEF m
    <2>3. m \in 0..n /\ m \notin G /\ \A b \in Bad : m <= b
        BY <2>2 DEF m
    <2>4. m \in 1..n /\ m - 1 \in 0..n
        BY <2>3
    <2>5. m - 1 \notin Bad
        BY <2>3, <2>4
    <2> QED BY <2>3, <2>4, <2>5
<1> QED BY <1>1

\* What a nonempty set inherits from itself without one of its elements holds
\* of every finite set.
LEMMA SetInduction ==
    ASSUME NEW S, IsFiniteSet(S), NEW G, {} \in G,
           \A T \in SUBSET S : T # {} => \E e \in T : T \ {e} \in G => T \in G
    PROVE  \A T \in SUBSET S : T \in G
<1>1. Cardinality(S) \in Nat
    BY FS_CardinalityType
<1>2. \A T \in SUBSET S : /\ IsFiniteSet(T) /\ Cardinality(T) \in Nat
                          /\ Cardinality(T) <= Cardinality(S)
    BY FS_Subset, FS_CardinalityType
<1>0. \A T \in SUBSET S : Cardinality(T) = 0 <=> T = {}
    BY <1>2, FS_EmptySet
<1> DEFINE Good == {k \in 0..Cardinality(S) :
                      \A T \in SUBSET S : Cardinality(T) = k => T \in G}
<1>3. 0 \in Good
    BY <1>0, <1>1
<1>4. ASSUME NEW k \in 1..Cardinality(S), k - 1 \in Good
      PROVE  k \in Good
    <2>1. ASSUME NEW T \in SUBSET S, Cardinality(T) = k
          PROVE  T \in G
        <3>1. T # {}
            BY <2>1, <1>0
        <3>2. PICK e \in T : T \ {e} \in G => T \in G
            BY <3>1
        <3>3. Cardinality(T \ {e}) = k - 1
            BY <1>2, <2>1, <3>2, FS_RemoveElement
        <3> QED BY <1>4, <3>2, <3>3
    <2> QED BY <2>1, <1>1
<1>5. \A k \in 0..Cardinality(S) : k \in Good
    <2> HIDE DEF Good
    <2> QED BY <1>1, <1>3, <1>4, Upward
<1> QED BY <1>1, <1>2, <1>5

(***************************************************************************)
(* The unfolding of a fold: C chooses the next element, F combines.        *)
(***************************************************************************)
Unfolding(it, S, C, base, F) ==
    \A T \in SUBSET S :
       it[T] = IF T = {} THEN base ELSE F[<<C[T], it[T \ {C[T]}]>>]

LEMMA FoldExists ==
    ASSUME NEW S, IsFiniteSet(S), NEW C, \A T \in SUBSET S : T # {} => C[T] \in T,
           NEW Y, NEW base \in Y, NEW F \in [S \X Y -> Y]
    PROVE  \E it \in [SUBSET S -> Y] : Unfolding(it, S, C, base, F)
<1> DEFINE Unfolds(it, T) ==
              it[T] = IF T = {} THEN base ELSE F[<<C[T], it[T \ {C[T]}]>>]
<1>1. Cardinality(S) \in Nat
    BY FS_CardinalityType
<1>2. \A T \in SUBSET S : /\ IsFiniteSet(T) /\ Cardinality(T) \in Nat
                          /\ Cardinality(T) <= Cardinality(S)
    BY FS_Subset, FS_CardinalityType
<1> DEFINE Good == {k \in 0..Cardinality(S) :
                      \E it \in [SUBSET S -> Y] :
                         \A T \in SUBSET S : Cardinality(T) <= k => Unfolds(it, T)}
<1>3. 0 \in Good
    <2> DEFINE it == [T \in SUBSET S |-> base]
    <2>1. it \in [SUBSET S -> Y]
        OBVIOUS
    <2>2. ASSUME NEW T \in SUBSET S, Cardinality(T) <= 0
          PROVE  Unfolds(it, T)
        <3>1. T = {}
            BY <1>2, <2>2, FS_EmptySet
        <3> QED BY <3>1
    <2> HIDE DEF it, Unfolds
    <2> QED BY <1>1, <2>1, <2>2
<1>4. ASSUME NEW k \in 1..Cardinality(S), k - 1 \in Good
      PROVE  k \in Good
    <2>1. PICK old \in [SUBSET S -> Y] :
             \A T \in SUBSET S : Cardinality(T) <= k - 1 => Unfolds(old, T)
        BY <1>4
    <2> DEFINE it == [T \in SUBSET S |->
                        IF T = {} THEN base ELSE F[<<C[T], old[T \ {C[T]}]>>]]
    <2>2. it \in [SUBSET S -> Y]
        <3>1. \A T \in SUBSET S : T # {} => <<C[T], old[T \ {C[T]}]>> \in S \X Y
            OBVIOUS
        <3> QED BY <3>1
    <2>3. ASSUME NEW T \in SUBSET S, Cardinality(T) <= k
          PROVE  Unfolds(it, T)
        <3>1. CASE T = {}
            BY <3>1
        <3>2. CASE T # {}
            <4> DEFINE R == T \ {C[T]}
            <4>1. C[T] \in T /\ R \in SUBSET S
                BY <3>2
            <4>2. Cardinality(R) = Cardinality(T) - 1
                BY <4>1, <1>2, FS_RemoveElement
            <4>3. Cardinality(R) <= k - 1
                BY <4>2, <2>3, <1>2, <1>1
            <4>4. old[R] = it[R]
                <5> HIDE DEF R
                <5>1. Unfolds(old, R)
                    BY <2>1, <4>1, <4>3
                <5> QED BY <5>1, <4>1
            <4> HIDE DEF R
            <4>5. it[T] = F[<<C[T], old[R]>>]
                BY <3>2 DEF R
            <4> QED BY <3>2, <4>4, <4>5 DEF R
        <3> QED BY <3>1, <3>2
    <2> HIDE DEF it, Unfolds
    <2> QED BY <1>1, <2>2, <2>3
<1>5. Cardinality(S) \in Good
    <2> HIDE DEF Good
    <2>1. \A k \in 0..Cardinality(S) : k \in Good
        BY <1>1, <1>3, <1>4, Upward
    <2> QED BY <1>1, <2>1
<1>6. PICK it \in [SUBSET S -> Y] :
         \A T \in SUBSET S : Cardinality(T) <= Cardinality(S) => Unfolds(it, T)
    BY <1>5
<1>7. \A T \in SUBSET S : Unfolds(it, T)
    BY <1>2, <1>6
<1> QED BY <1>7 DEF Unfolding

\* From the first k numbers their greatest is taken next.
LEMMA TopOf ==
    ASSUME NEW n \in Nat, NEW k \in 1..n
    PROVE  /\ Max(1..k) = k /\ (1..k) \ {k} = 1..(k - 1)
           /\ 1..k # {} /\ 1..k \in SUBSET (1..n) /\ 1..(k - 1) \in SUBSET (1..n)
<1>1. k \in Nat /\ 1..k \in SUBSET (0..k) /\ k \in 1..k
    OBVIOUS
<1>2. Max(1..k) \in 1..k /\ \A b \in 1..k : b <= Max(1..k)
    BY <1>1, MaxOfNaturals
<1>3. Max(1..k) = k
    BY <1>1, <1>2
<1> QED BY <1>3

LEMMA MaxIn ==
    ASSUME NEW n \in Nat, NEW T \in SUBSET (1..n), T # {}
    PROVE  Max(T) \in T
<1>1. T \in SUBSET (0..n)
    OBVIOUS
<1> QED BY <1>1, MaxOfNaturals

\* it unwinds a fold over a sequence of n elements.
Unwound(it, n, Y, base, F) ==
    /\ it[{}] = base
    /\ \A T \in SUBSET (1..n) : T # {} =>
          /\ Max(T) \in T /\ Max(T) \in 1..n /\ T \ {Max(T)} \in SUBSET (1..n)
          /\ it[T \ {Max(T)}] \in Y
          /\ it[T] = F[<<Max(T), it[T \ {Max(T)}]>>]

LEMMA ChainExists ==
    ASSUME NEW n \in Nat, NEW Y, NEW base \in Y, NEW F \in [(1..n) \X Y -> Y]
    PROVE  \E it \in [SUBSET (1..n) -> Y] : Unwound(it, n, Y, base, F)
<1> DEFINE C == [T \in SUBSET (1..n) |-> Max(T)]
<1>1. IsFiniteSet(1..n)
    BY FS_Interval
<1>2. \A T \in SUBSET (1..n) : C[T] = Max(T)
    OBVIOUS
<1>3. \A T \in SUBSET (1..n) : T # {} => C[T] \in T
    BY <1>2, MaxIn
<1> HIDE DEF C
<1>4. PICK it \in [SUBSET (1..n) -> Y] : Unfolding(it, 1..n, C, base, F)
    BY <1>1, <1>3, FoldExists
<1>5. \A T \in SUBSET (1..n) :
              it[T] = IF T = {} THEN base ELSE F[<<Max(T), it[T \ {Max(T)}]>>]
    BY <1>2, <1>4 DEF Unfolding
<1>6. Unwound(it, n, Y, base, F)
    BY <1>5, MaxIn DEF Unwound
<1> QED BY <1>6

(***************************************************************************)
(* Sums.                                                                   *)
(***************************************************************************)
NextOf(T) == CHOOSE e \in T : TRUE
\* it is the running sum of f over the subsets of its domain.
Sums(f, it) ==
    /\ it \in [SUBSET DOMAIN f -> Int]
    /\ \A T \in SUBSET DOMAIN f :
          it[T] = IF T = {} THEN 0 ELSE f[NextOf(T)] + it[T \ {NextOf(T)}]

LEMMA TotalUnfolds ==
    ASSUME NEW D, IsFiniteSet(D), NEW f \in [D -> Int]
    PROVE  \E it : Sums(f, it) /\ Total(f) = it[D]
<1> DEFINE P(it) == it = [T \in SUBSET DOMAIN f |->
                            IF T = {} THEN 0
                            ELSE f[CHOOSE e \in T : TRUE] + it[T \ {CHOOSE e \in T : TRUE}]]
<1> DEFINE C == [T \in SUBSET D |-> NextOf(T)]
<1> DEFINE F == [p \in D \X Int |-> f[p[1]] + p[2]]
<1>1. \A T \in SUBSET D : C[T] = NextOf(T) /\ (T # {} => C[T] \in T)
    BY DEF NextOf
<1>2. F \in [D \X Int -> Int] /\ 0 \in Int
    OBVIOUS
<1>3. \A d \in D, n \in Int : F[<<d, n>>] = f[d] + n
    OBVIOUS
<1>4. PICK it \in [SUBSET D -> Int] : Unfolding(it, D, C, 0, F)
    <2> HIDE DEF C, F
    <2> QED BY <1>1, <1>2, FoldExists
<1>5. ASSUME NEW T \in SUBSET D
      PROVE  it[T] = IF T = {} THEN 0 ELSE f[NextOf(T)] + it[T \ {NextOf(T)}]
    <2>1. CASE T = {}
        BY <1>4, <2>1 DEF Unfolding
    <2>2. CASE T # {}
        <3>1. NextOf(T) \in D /\ it[T \ {NextOf(T)}] \in Int
            BY <1>1, <2>2
        <3>2. it[T] = F[<<NextOf(T), it[T \ {NextOf(T)}]>>]
            <4> HIDE DEF F, C
            <4> QED BY <1>1, <1>4, <2>2 DEF Unfolding
        <3> HIDE DEF F
        <3> QED BY <1>3, <2>2, <3>1, <3>2
    <2> QED BY <2>1, <2>2
<1>6. P(it)
    BY <1>5 DEF NextOf
<1> DEFINE sum == CHOOSE h : P(h)
<1>7. P(sum)
    <2>1. \E h : P(h)
        BY <1>6
    <2> HIDE DEF P
    <2> QED BY <2>1, Zenon
<1>8. Total(f) = sum[DOMAIN f]
    BY DEF Total, FoldFunction, FoldFunctionOnSet, MapThenFoldSet
<1> HIDE DEF sum
<1>9. \A T \in SUBSET D : sum[T] = IF T = {} THEN 0 ELSE f[NextOf(T)] + sum[T \ {NextOf(T)}]
    BY <1>7 DEF NextOf
<1>10. \A T \in SUBSET D : sum[T] \in Int
    <2> DEFINE G == {T \in SUBSET D : sum[T] \in Int}
    <2>1. {} \in G
        BY <1>9
    <2>2. ASSUME NEW T \in SUBSET D, T # {}
          PROVE  \E e \in T : T \ {e} \in G => T \in G
        <3>1. NextOf(T) \in T
            BY <2>2 DEF NextOf
        <3>2. T \ {NextOf(T)} \in G => T \in G
            <4>1. sum[T] = f[NextOf(T)] + sum[T \ {NextOf(T)}]
                BY <1>9, <2>2
            <4>2. f[NextOf(T)] \in Int /\ T \ {NextOf(T)} \in SUBSET D
                BY <3>1
            <4> HIDE <1>7, <1>8, <1>9
            <4> QED BY <4>1, <4>2
        <3> HIDE DEF G
        <3> QED BY <3>1, <3>2
    <2>3. \A T \in SUBSET D : T \in G
        <3> HIDE DEF G
        <3> QED BY <2>1, <2>2, SetInduction
    <2> QED BY <2>3
<1>11. DOMAIN f = D
    OBVIOUS
<1>12. sum \in [SUBSET D -> Int]
    BY <1>7, <1>10, <1>11
<1> QED BY <1>8, <1>9, <1>11, <1>12 DEF Sums

LEMMA TotalInt ==
    ASSUME NEW D, IsFiniteSet(D), NEW f \in [D -> Int]
    PROVE  Total(f) \in Int
<1>1. PICK it : Sums(f, it) /\ Total(f) = it[D]
    BY TotalUnfolds
<1> QED BY <1>1 DEF Sums

\* A sum changes by what one of its terms changes.
LEMMA TotalChange ==
    ASSUME NEW D, IsFiniteSet(D), NEW f \in [D -> Int], NEW d \in D,
           NEW g \in [D -> Int], \A e \in D \ {d} : f[e] = g[e]
    PROVE  Total(g) = Total(f) + (g[d] - f[d])
<1>1. PICK a : Sums(f, a) /\ Total(f) = a[D]
    BY TotalUnfolds
<1>2. PICK b : Sums(g, b) /\ Total(g) = b[D]
    BY TotalUnfolds
<1>3. DOMAIN f = D /\ DOMAIN g = D
    OBVIOUS
<1>4. \A T \in SUBSET D : a[T] \in Int /\ b[T] \in Int
    BY <1>1, <1>2, <1>3 DEF Sums
<1> DEFINE G == {T \in SUBSET D : b[T] = a[T] + (IF d \in T THEN g[d] - f[d] ELSE 0)}
<1>5. {} \in G
    <2>1. a[{}] = 0 /\ b[{}] = 0
        BY <1>1, <1>2, <1>3 DEF Sums
    <2> QED BY <2>1
<1>6. ASSUME NEW T \in SUBSET D, T # {}
      PROVE  \E e \in T : T \ {e} \in G => T \in G
    <2> DEFINE e == NextOf(T)
    <2>1. e \in T
        BY <1>6 DEF NextOf
    <2> HIDE DEF e
    <2>2. a[T] = f[e] + a[T \ {e}] /\ b[T] = g[e] + b[T \ {e}]
        BY <1>1, <1>2, <1>3, <1>6 DEF Sums, e
    <2>3. ASSUME T \ {e} \in G
          PROVE  T \in G
        <3>1. CASE e = d
            <4>1. b[T \ {e}] = a[T \ {e}] + 0
                BY <2>3, <3>1
            <4>2. d \in T /\ T \ {e} \in SUBSET D /\ f[d] \in Int /\ g[d] \in Int
                BY <2>1, <3>1
            <4>3. b[T] = a[T] + (g[d] - f[d])
                BY <1>4, <2>2, <3>1, <4>1, <4>2
            <4> QED BY <4>2, <4>3
        <3>2. CASE e # d
            <4>1. f[e] = g[e] /\ (d \in T \ {e} <=> d \in T)
                BY <2>1, <3>2
            <4>2. T \ {e} \in SUBSET D /\ f[e] \in Int /\ g[d] - f[d] \in Int
                BY <2>1
            <4> QED BY <1>4, <2>2, <2>3, <4>1, <4>2
        <3> QED BY <3>1, <3>2
    <2> HIDE DEF G
    <2> QED BY <2>1, <2>3
<1>7. D \in G
    <2>1. \A T \in SUBSET D : T \in G
        <3> HIDE DEF G
        <3> QED BY <1>5, <1>6, SetInduction
    <2> QED BY <2>1
<1> QED BY <1>1, <1>2, <1>7

LEMMA TotalGrows ==
    ASSUME NEW D, IsFiniteSet(D), NEW f \in [D -> Int], NEW g \in [D -> Int],
           \A e \in D : f[e] <= g[e]
    PROVE  Total(f) <= Total(g)
<1>1. PICK a : Sums(f, a) /\ Total(f) = a[D]
    BY TotalUnfolds
<1>2. PICK b : Sums(g, b) /\ Total(g) = b[D]
    BY TotalUnfolds
<1>3. DOMAIN f = D /\ DOMAIN g = D
    OBVIOUS
<1>4. \A T \in SUBSET D : a[T] \in Int /\ b[T] \in Int
    BY <1>1, <1>2, <1>3 DEF Sums
<1> DEFINE G == {T \in SUBSET D : a[T] <= b[T]}
<1>5. {} \in G
    <2>1. a[{}] = 0 /\ b[{}] = 0
        BY <1>1, <1>2, <1>3 DEF Sums
    <2> QED BY <2>1
<1>6. ASSUME NEW T \in SUBSET D, T # {}
      PROVE  \E e \in T : T \ {e} \in G => T \in G
    <2> DEFINE e == NextOf(T)
    <2>1. e \in T /\ T \ {e} \in SUBSET D
        BY <1>6 DEF NextOf
    <2> HIDE DEF e
    <2>2. a[T] = f[e] + a[T \ {e}] /\ b[T] = g[e] + b[T \ {e}]
        BY <1>1, <1>2, <1>3, <1>6 DEF Sums, e
    <2>3. T \ {e} \in G => T \in G
        BY <1>4, <2>1, <2>2
    <2> HIDE DEF G
    <2> QED BY <2>1, <2>3
<1>7. D \in G
    <2>1. \A T \in SUBSET D : T \in G
        <3> HIDE DEF G
        <3> QED BY <1>5, <1>6, SetInduction
    <2> QED BY <2>1
<1> QED BY <1>1, <1>2, <1>7

LEMMA TotalZero ==
    ASSUME NEW D, IsFiniteSet(D), NEW f \in [D -> Int], \A e \in D : f[e] = 0
    PROVE  Total(f) = 0
<1>1. PICK a : Sums(f, a) /\ Total(f) = a[D]
    BY TotalUnfolds
<1>3. DOMAIN f = D
    OBVIOUS
<1> DEFINE G == {T \in SUBSET D : a[T] = 0}
<1>5. {} \in G
    <2>1. a[{}] = 0
        BY <1>1, <1>3 DEF Sums
    <2> QED BY <2>1
<1>6. ASSUME NEW T \in SUBSET D, T # {}
      PROVE  \E e \in T : T \ {e} \in G => T \in G
    <2> DEFINE e == NextOf(T)
    <2>1. e \in T /\ T \ {e} \in SUBSET D
        BY <1>6 DEF NextOf
    <2> HIDE DEF e
    <2>2. a[T] = f[e] + a[T \ {e}]
        BY <1>1, <1>3, <1>6 DEF Sums, e
    <2>3. T \ {e} \in G => T \in G
        BY <2>1, <2>2
    <2> HIDE DEF G
    <2> QED BY <2>1, <2>3
<1>7. D \in G
    <2>1. \A T \in SUBSET D : T \in G
        <3> HIDE DEF G
        <3> QED BY <1>5, <1>6, SetInduction
    <2> QED BY <2>1
<1> QED BY <1>1, <1>7

\* h is the run of a fold over a sequence of n elements, and ends with last.
Chain(h, n, Y, base, F, last) ==
    /\ h \in [0..n -> Y] /\ h[0] = base /\ h[n] = last
    /\ \A k \in 1..n : h[k] = F[<<k, h[k - 1]>>]

Unwinds(sum, n, Y, base, F) ==
    /\ sum[{}] = base
    /\ \A T \in SUBSET (1..n) :
          T # {} /\ sum[T \ {Max(T)}] \in Y
             => sum[T] = F[<<Max(T), sum[T \ {Max(T)}]>>]

LEMMA ChainHolds ==
    ASSUME NEW n \in Nat, NEW Y, NEW base \in Y, NEW F \in [(1..n) \X Y -> Y],
           NEW sum, Unwinds(sum, n, Y, base, F)
    PROVE  \E h : Chain(h, n, Y, base, F, sum[1..n])
<1> DEFINE h == [k \in 0..n |-> sum[1..k]]
<1> DEFINE G == {k \in 0..n : h[k] \in Y /\ (k # 0 => h[k] = F[<<k, h[k - 1]>>])}
<1>0. /\ sum[{}] = base
      /\ \A T \in SUBSET (1..n) :
            T # {} /\ sum[T \ {Max(T)}] \in Y
               => sum[T] = F[<<Max(T), sum[T \ {Max(T)}]>>]
    BY DEF Unwinds
<1>1. h[0] = base
    <2>1. 1..0 = {} /\ 0 \in 0..n
        OBVIOUS
    <2> QED BY <1>0, <2>1
<1>2. ASSUME NEW k \in 1..n, k - 1 \in G
      PROVE  k \in G
    <2>1. h[k] = sum[1..k] /\ h[k - 1] = sum[1..(k - 1)] /\ h[k - 1] \in Y
        BY <1>2
    <2>2. /\ Max(1..k) = k /\ (1..k) \ {k} = 1..(k - 1)
          /\ 1..k # {} /\ 1..k \in SUBSET (1..n)
        BY TopOf
    <2>3. h[k] = F[<<k, h[k - 1]>>]
        <3> HIDE DEF h, G
        <3> QED BY <1>0, <2>1, <2>2
    <2>4. <<k, h[k - 1]>> \in (1..n) \X Y
        BY <2>1
    <2>5. h[k] \in Y
        <3> HIDE DEF h, G
        <3> QED BY <2>3, <2>4
    <2>6. k \in 0..n
        OBVIOUS
    <2>7. h[k] \in Y /\ (k # 0 => h[k] = F[<<k, h[k - 1]>>])
        BY <2>3, <2>5
    <2> HIDE DEF h
    <2> QED BY <2>6, <2>7
<1>3. 0 \in G
    BY <1>1
<1>4. \A k \in 0..n : k \in G
    <2> HIDE DEF h, G
    <2> QED BY <1>2, <1>3, Upward
<1>5. \A k \in 0..n : h[k] \in Y
    BY <1>4
<1>6. h \in [0..n -> Y]
    BY <1>5
<1>7. \A k \in 1..n : h[k] = F[<<k, h[k - 1]>>]
    <2>1. \A k \in 1..n : k \in 0..n /\ k # 0
        OBVIOUS
    <2> QED BY <1>4, <2>1
<1>8. sum[1..n] = h[n]
    OBVIOUS
<1>9. Chain(h, n, Y, base, F, sum[1..n])
    <2> HIDE DEF h, G
    <2> QED BY <1>1, <1>6, <1>7, <1>8 DEF Chain
<1> QED BY <1>9

(***************************************************************************)
(* Kept.                                                                   *)
(***************************************************************************)
KeptStep(seq, S, k, out) == IF seq[k] \in S THEN Append(out, seq[k]) ELSE out

KeptRun(h, U, seq, S) ==
    /\ h \in [0..Len(seq) -> Seq(U)]
    /\ h[0] = <<>>
    /\ \A k \in 1..Len(seq) : h[k] = KeptStep(seq, S, k, h[k - 1])
    /\ Kept(seq, S) = h[Len(seq)]

LEMMA KeptFold ==
    ASSUME NEW U, NEW seq \in Seq(U), NEW S
    PROVE  \E h : KeptRun(h, U, seq, S)
<1> DEFINE n == Len(seq)
<1> DEFINE Y == Seq(U)
<1> DEFINE F == [p \in (1..n) \X Y |-> KeptStep(seq, S, p[1], p[2])]
<1> DEFINE P(it) == it = [T \in SUBSET DOMAIN seq |->
                            IF T = {} THEN <<>>
                            ELSE IF seq[Max(T)] \in S
                                 THEN Append(it[T \ {Max(T)}], seq[Max(T)])
                                 ELSE it[T \ {Max(T)}]]
<1> DEFINE sum == CHOOSE it : P(it)
<1>1. n \in Nat /\ DOMAIN seq = 1..n /\ <<>> \in Y
    OBVIOUS
<1>2. F \in [(1..n) \X Y -> Y]
    <2>1. ASSUME NEW k \in 1..n, NEW y \in Y
          PROVE  KeptStep(seq, S, k, y) \in Y
        BY DEF KeptStep
    <2> QED BY <2>1
<1>3. \A k \in 1..n, y \in Y : F[<<k, y>>] = KeptStep(seq, S, k, y)
    OBVIOUS
<1>4. \E it : P(it)
    <2>1. PICK it \in [SUBSET (1..n) -> Y] : Unwound(it, n, Y, <<>>, F)
        <3> HIDE DEF F, Y, n
        <3> QED BY <1>1, <1>2, ChainExists
    <2>2. ASSUME NEW T \in SUBSET (1..n), T # {}
          PROVE  it[T] = KeptStep(seq, S, Max(T), it[T \ {Max(T)}])
        <3> HIDE DEF F, n, Y
        <3> QED BY <2>1, <2>2, <1>3 DEF Unwound
    <2>3. it[{}] = <<>>
        BY <2>1 DEF Unwound
    <2>4. P(it)
        <3> HIDE DEF F
        <3> QED BY <1>1, <2>2, <2>3 DEF KeptStep
    <2> QED BY <2>4
<1>5. P(sum)
    <2> HIDE DEF P
    <2> QED BY <1>4, Zenon
<1>6. Kept(seq, S) = sum[1..n]
    <2>1. Kept(seq, S) = sum[DOMAIN seq]
        BY DEF Kept, FoldLeft, MapThenFoldSet
    <2> QED BY <1>1, <2>1
<1> HIDE DEF sum
<1>7. sum[{}] = <<>> /\ \A T \in SUBSET (1..n) :
              T # {} => sum[T] = KeptStep(seq, S, Max(T), sum[T \ {Max(T)}])
    BY <1>1, <1>5 DEF KeptStep
<1>8. Unwinds(sum, n, Y, <<>>, F)
    <2>1. \A T \in SUBSET (1..n) : T # {} => Max(T) \in 1..n
        BY <1>1, MaxIn
    <2> HIDE DEF F, n, Y, P
    <2> QED BY <1>3, <1>7, <2>1 DEF Unwinds
<1>9. PICK h : Chain(h, n, Y, <<>>, F, sum[1..n])
    <2> HIDE DEF F, n, Y, P
    <2> QED BY <1>1, <1>2, <1>8, ChainHolds
<1>10. /\ h \in [0..n -> Y] /\ h[0] = <<>> /\ h[n] = sum[1..n]
       /\ \A k \in 1..n : h[k] = KeptStep(seq, S, k, h[k - 1])
    <2>1. \A k \in 1..n : k - 1 \in 0..n
        BY <1>1
    <2> HIDE DEF F, n, Y, P
    <2> QED BY <1>3, <1>9, <2>1 DEF Chain
<1> HIDE DEF F, P
<1> QED BY <1>6, <1>10 DEF KeptRun

LEMMA KeptSeq ==
    ASSUME NEW U, NEW seq \in Seq(U), NEW S
    PROVE  Kept(seq, S) \in Seq(U \cap S)
<1>0. PICK h : KeptRun(h, U, seq, S)
    BY KeptFold
<1>1. /\ Len(seq) \in Nat /\ h \in [0..Len(seq) -> Seq(U)]
      /\ h[0] = <<>>
      /\ \A k \in 1..Len(seq) : h[k] = KeptStep(seq, S, k, h[k - 1])
      /\ Kept(seq, S) = h[Len(seq)]
    BY <1>0 DEF KeptRun
<1> DEFINE G == {k \in 0..Len(seq) : h[k] \in Seq(U \cap S)}
<1>2. 0 \in G
    BY <1>1
<1>3. ASSUME NEW k \in 1..Len(seq), k - 1 \in G
      PROVE  k \in G
    <2>1. seq[k] \in U /\ h[k - 1] \in Seq(U \cap S) /\ h[k] = KeptStep(seq, S, k, h[k - 1])
        BY <1>1, <1>3
    <2>2. ASSUME seq[k] \in S
          PROVE  h[k] \in Seq(U \cap S)
        <3>1. seq[k] \in U \cap S
            BY <2>1, <2>2
        <3>2. Append(h[k - 1], seq[k]) \in Seq(U \cap S)
            BY <2>1, <3>1
        <3>3. h[k] = Append(h[k - 1], seq[k])
            BY <2>1, <2>2 DEF KeptStep
        <3> QED BY <3>2, <3>3
    <2>3. ASSUME seq[k] \notin S
          PROVE  h[k] \in Seq(U \cap S)
        <3>1. h[k] = h[k - 1]
            BY <2>1, <2>3 DEF KeptStep
        <3> QED BY <2>1, <3>1
    <2>4. h[k] \in Seq(U \cap S) /\ k \in 0..Len(seq)
        BY <1>1, <2>2, <2>3
    <2> QED BY <2>4
<1>4. \A k \in 0..Len(seq) : k \in G
    <2> HIDE DEF G
    <2> QED BY <1>1, <1>2, <1>3, Upward
<1> QED BY <1>1, <1>4

LEMMA KeptAll ==
    ASSUME NEW U, NEW seq \in Seq(U), NEW S, NEW j \in 1..Len(seq), seq[j] \in S
    PROVE  \E m \in 1..Len(Kept(seq, S)) : Kept(seq, S)[m] = seq[j]
<1>0. PICK h : KeptRun(h, U, seq, S)
    BY KeptFold
<1>1. /\ Len(seq) \in Nat /\ h \in [0..Len(seq) -> Seq(U)]
      /\ h[0] = <<>>
      /\ \A k \in 1..Len(seq) : h[k] = KeptStep(seq, S, k, h[k - 1])
      /\ Kept(seq, S) = h[Len(seq)]
    BY <1>0 DEF KeptRun
<1> DEFINE Has(y) == \E m \in 1..Len(y) : y[m] = seq[j]
<1> DEFINE G == {k \in 0..Len(seq) : k >= j => Has(h[k])}
<1>2. 0 \in G
    OBVIOUS
<1>3. ASSUME NEW k \in 1..Len(seq), k - 1 \in G
      PROVE  k \in G
    <2>0. k - 1 \in 0..Len(seq)
        BY <1>1
    <2>1. /\ h[k - 1] \in Seq(U) /\ seq[k] \in U
          /\ h[k] = KeptStep(seq, S, k, h[k - 1])
        BY <1>1, <2>0
    <2>2. CASE k = j
        <3>1. h[k] = Append(h[k - 1], seq[j])
            BY <2>1, <2>2 DEF KeptStep
        <3>2. Len(h[k]) \in 1..Len(h[k]) /\ h[k][Len(h[k])] = seq[j]
            BY <2>1, <3>1
        <3> QED BY <3>2
    <2>3. CASE k > j
        <3>1. Has(h[k - 1])
            BY <1>3, <2>3
        <3>2. PICK m \in 1..Len(h[k - 1]) : h[k - 1][m] = seq[j]
            BY <3>1
        <3>3. m \in 1..Len(h[k]) /\ h[k][m] = seq[j]
            BY <2>1, <3>2 DEF KeptStep
        <3> QED BY <3>3
    <2>4. CASE k < j
        BY <2>4
    <2> QED BY <2>2, <2>3, <2>4
<1>4. \A k \in 0..Len(seq) : k \in G
    <2> HIDE DEF G
    <2> QED BY <1>1, <1>2, <1>3, Upward
<1>5. Has(h[Len(seq)])
    BY <1>4
<1> QED BY <1>1, <1>5

(***************************************************************************)
(* The folds of the executor.  Y is a set of books that every step keeps.  *)
(***************************************************************************)
LEMMA EachKeeps ==
    ASSUME NEW U, NEW intents \in Seq(U), NEW bars0, NEW cap, NEW Y, NEW x \in Y,
           \A y \in Y, k \in 1..Len(intents) :
              ExecuteIntent(y, bars0, cap, intents[k]) \in Y
    PROVE  ExecuteEach(x, bars0, cap, intents) \in Y
<1> DEFINE n == Len(intents)
<1> DEFINE F == [p \in (1..n) \X Y |-> ExecuteIntent(p[2], bars0, cap, intents[p[1]])]
<1> DEFINE P(it) == it = [T \in SUBSET DOMAIN intents |->
                            IF T = {} THEN x
                            ELSE ExecuteIntent(it[T \ {Max(T)}], bars0, cap, intents[Max(T)])]
<1> DEFINE sum == CHOOSE it : P(it)
<1>1. n \in Nat /\ DOMAIN intents = 1..n /\ x \in Y
    OBVIOUS
<1>2. \A k \in 1..n, y \in Y : ExecuteIntent(y, bars0, cap, intents[k]) \in Y
    OBVIOUS
<1>3. F \in [(1..n) \X Y -> Y]
    BY <1>2
<1>4. \A k \in 1..n, y \in Y : F[<<k, y>>] = ExecuteIntent(y, bars0, cap, intents[k])
    OBVIOUS
<1>5. \E it : P(it)
    <2>1. PICK it \in [SUBSET (1..n) -> Y] : Unwound(it, n, Y, x, F)
        <3> HIDE DEF F, n
        <3> QED BY <1>1, <1>3, ChainExists
    <2>2. ASSUME NEW T \in SUBSET (1..n), T # {}
          PROVE  it[T] = ExecuteIntent(it[T \ {Max(T)}], bars0, cap, intents[Max(T)])
        <3> HIDE DEF F, n
        <3> QED BY <2>1, <2>2, <1>4 DEF Unwound
    <2>3. it[{}] = x
        BY <2>1 DEF Unwound
    <2>4. P(it)
        <3> HIDE DEF F
        <3> QED BY <1>1, <2>2, <2>3
    <2> QED BY <2>4
<1>6. P(sum)
    <2> HIDE DEF P
    <2> QED BY <1>5, Zenon
<1>7. ExecuteEach(x, bars0, cap, intents) = sum[1..n]
    <2>1. ExecuteEach(x, bars0, cap, intents) = sum[DOMAIN intents]
        BY DEF ExecuteEach, FoldLeft, MapThenFoldSet
    <2> QED BY <1>1, <2>1
<1> HIDE DEF sum
<1>8. sum[{}] = x /\ \A T \in SUBSET (1..n) :
              T # {} => sum[T] = ExecuteIntent(sum[T \ {Max(T)}], bars0, cap, intents[Max(T)])
    BY <1>1, <1>6
<1>9. Unwinds(sum, n, Y, x, F)
    <2>1. \A T \in SUBSET (1..n) : T # {} => Max(T) \in 1..n
        BY <1>1, MaxIn
    <2> HIDE DEF F, n, P
    <2> QED BY <1>4, <1>8, <2>1 DEF Unwinds
<1>10. PICK h : Chain(h, n, Y, x, F, sum[1..n])
    <2> HIDE DEF F, n, P
    <2> QED BY <1>1, <1>3, <1>9, ChainHolds
<1>11. /\ h \in [0..n -> Y] /\ h[0] = x /\ h[n] = sum[1..n]
       /\ \A k \in 1..n : h[k] = ExecuteIntent(h[k - 1], bars0, cap, intents[k])
    <2>1. \A k \in 1..n : k - 1 \in 0..n
        BY <1>1
    <2> HIDE DEF F, n, P
    <2> QED BY <1>4, <1>10, <2>1 DEF Chain
<1> HIDE DEF F, P
<1> QED BY <1>1, <1>7, <1>11

LEMMA UnitsKeep ==
    ASSUME NEW bars0, NEW cap, NEW intents, NEW U, Units(intents) \in Seq(U),
           NEW Y, NEW x \in Y,
           \A y \in Y, k \in 1..Len(Units(intents)) :
              ExecuteUnit(y, bars0, cap, Units(intents)[k]) \in Y
    PROVE  EachUnit(x, bars0, cap, intents) \in Y
<1> DEFINE n == Len(Units(intents))
<1> DEFINE F == [p \in (1..n) \X Y |-> ExecuteUnit(p[2], bars0, cap, Units(intents)[p[1]])]
<1> DEFINE P(it) == it = [T \in SUBSET DOMAIN Units(intents) |->
                            IF T = {} THEN x
                            ELSE ExecuteUnit(it[T \ {Max(T)}], bars0, cap, Units(intents)[Max(T)])]
<1> DEFINE sum == CHOOSE it : P(it)
<1>1. n \in Nat /\ DOMAIN Units(intents) = 1..n /\ x \in Y
    OBVIOUS
<1>2. \A k \in 1..n, y \in Y : ExecuteUnit(y, bars0, cap, Units(intents)[k]) \in Y
    OBVIOUS
<1>3. F \in [(1..n) \X Y -> Y]
    BY <1>2
<1>4. \A k \in 1..n, y \in Y : F[<<k, y>>] = ExecuteUnit(y, bars0, cap, Units(intents)[k])
    OBVIOUS
<1>5. \E it : P(it)
    <2>1. PICK it \in [SUBSET (1..n) -> Y] : Unwound(it, n, Y, x, F)
        <3> HIDE DEF F, n
        <3> QED BY <1>1, <1>3, ChainExists
    <2>2. ASSUME NEW T \in SUBSET (1..n), T # {}
          PROVE  it[T] = ExecuteUnit(it[T \ {Max(T)}], bars0, cap, Units(intents)[Max(T)])
        <3> HIDE DEF F, n
        <3> QED BY <2>1, <2>2, <1>4 DEF Unwound
    <2>3. it[{}] = x
        BY <2>1 DEF Unwound
    <2>4. P(it)
        <3> HIDE DEF F
        <3> QED BY <1>1, <2>2, <2>3
    <2> QED BY <2>4
<1>6. P(sum)
    <2> HIDE DEF P
    <2> QED BY <1>5, Zenon
<1>7. EachUnit(x, bars0, cap, intents) = sum[1..n]
    <2>1. EachUnit(x, bars0, cap, intents) = sum[DOMAIN Units(intents)]
        BY DEF EachUnit, FoldLeft, MapThenFoldSet
    <2> QED BY <1>1, <2>1
<1> HIDE DEF sum
<1>8. sum[{}] = x /\ \A T \in SUBSET (1..n) :
              T # {} => sum[T] = ExecuteUnit(sum[T \ {Max(T)}], bars0, cap, Units(intents)[Max(T)])
    BY <1>1, <1>6
<1>9. Unwinds(sum, n, Y, x, F)
    <2>1. \A T \in SUBSET (1..n) : T # {} => Max(T) \in 1..n
        BY <1>1, MaxIn
    <2> HIDE DEF F, n, P
    <2> QED BY <1>4, <1>8, <2>1 DEF Unwinds
<1>10. PICK h : Chain(h, n, Y, x, F, sum[1..n])
    <2> HIDE DEF F, n, P
    <2> QED BY <1>1, <1>3, <1>9, ChainHolds
<1>11. /\ h \in [0..n -> Y] /\ h[0] = x /\ h[n] = sum[1..n]
       /\ \A k \in 1..n : h[k] = ExecuteUnit(h[k - 1], bars0, cap, Units(intents)[k])
    <2>1. \A k \in 1..n : k - 1 \in 0..n
        BY <1>1
    <2> HIDE DEF F, n, P
    <2> QED BY <1>4, <1>10, <2>1 DEF Chain
<1> HIDE DEF F, P
<1> QED BY <1>1, <1>7, <1>11

(***************************************************************************)
(* What a list of fills traded.                                            *)
(***************************************************************************)
TradedStep(fs, s, k, n) == n + (IF fs[k].sym = s THEN fs[k].qty ELSE 0)
TradedRun(h, fs, s, last) ==
    /\ h \in [0..Len(fs) -> Nat] /\ h[0] = 0 /\ h[Len(fs)] = last
    /\ \A k \in 1..Len(fs) : h[k] = TradedStep(fs, s, k, h[k - 1])

LEMMA TradedFold ==
    ASSUME NEW O, \A f \in O : f.qty \in Nat, NEW x, x.fills \in Seq(O), NEW s
    PROVE  \E h : TradedRun(h, x.fills, s, Traded(x, s))
<1> DEFINE n == Len(x.fills)
<1> DEFINE F == [p \in (1..n) \X Nat |-> TradedStep(x.fills, s, p[1], p[2])]
<1> DEFINE P(it) == it = [T \in SUBSET DOMAIN x.fills |->
                            IF T = {} THEN 0
                            ELSE it[T \ {Max(T)}] + (IF x.fills[Max(T)].sym = s THEN x.fills[Max(T)].qty ELSE 0)]
<1> DEFINE sum == CHOOSE it : P(it)
<1>1. n \in Nat /\ DOMAIN x.fills = 1..n /\ 0 \in Nat
    OBVIOUS
<1>2. \A k \in 1..n, y \in Nat : TradedStep(x.fills, s, k, y) \in Nat
    <2>1. \A k \in 1..n : x.fills[k] \in O
        OBVIOUS
    <2> QED BY <2>1 DEF TradedStep
<1>3. F \in [(1..n) \X Nat -> Nat]
    BY <1>2
<1>4. \A k \in 1..n, y \in Nat : F[<<k, y>>] = TradedStep(x.fills, s, k, y)
    OBVIOUS
<1>5. \E it : P(it)
    <2>1. PICK it \in [SUBSET (1..n) -> Nat] : Unwound(it, n, Nat, 0, F)
        <3> HIDE DEF F, n
        <3> QED BY <1>1, <1>3, ChainExists
    <2>2. ASSUME NEW T \in SUBSET (1..n), T # {}
          PROVE  it[T] = TradedStep(x.fills, s, Max(T), it[T \ {Max(T)}])
        <3> HIDE DEF F, n
        <3> QED BY <2>1, <2>2, <1>4 DEF Unwound
    <2>3. it[{}] = 0
        BY <2>1 DEF Unwound
    <2>4. P(it)
        <3> HIDE DEF F
        <3> QED BY <1>1, <2>2, <2>3 DEF TradedStep
    <2> QED BY <2>4
<1>6. P(sum)
    <2> HIDE DEF P
    <2> QED BY <1>5, Zenon
<1>7. Traded(x, s) = sum[1..n]
    <2>1. Traded(x, s) = sum[DOMAIN x.fills]
        BY DEF Traded, FoldLeft, MapThenFoldSet
    <2> QED BY <1>1, <2>1
<1> HIDE DEF sum
<1>8. sum[{}] = 0 /\ \A T \in SUBSET (1..n) :
              T # {} => sum[T] = TradedStep(x.fills, s, Max(T), sum[T \ {Max(T)}])
    BY <1>1, <1>6 DEF TradedStep
<1>9. Unwinds(sum, n, Nat, 0, F)
    <2>1. \A T \in SUBSET (1..n) : T # {} => Max(T) \in 1..n
        BY <1>1, MaxIn
    <2> HIDE DEF F, n, P
    <2> QED BY <1>4, <1>8, <2>1 DEF Unwinds
<1>10. PICK h : Chain(h, n, Nat, 0, F, sum[1..n])
    <2> HIDE DEF F, n, P
    <2> QED BY <1>1, <1>3, <1>9, ChainHolds
<1>11. /\ h \in [0..n -> Nat] /\ h[0] = 0 /\ h[n] = sum[1..n]
       /\ \A k \in 1..n : h[k] = TradedStep(x.fills, s, k, h[k - 1])
    <2>1. \A k \in 1..n : k - 1 \in 0..n
        BY <1>1
    <2> HIDE DEF F, n, P
    <2> QED BY <1>4, <1>10, <2>1 DEF Chain
<1> HIDE DEF F, P
<1> QED BY <1>7, <1>11 DEF TradedRun

LEMMA TradedNat ==
    ASSUME NEW O, \A f \in O : f.qty \in Nat, NEW x, x.fills \in Seq(O), NEW s
    PROVE  Traded(x, s) \in Nat
<1>1. PICK h : TradedRun(h, x.fills, s, Traded(x, s))
    BY TradedFold
<1>2. Len(x.fills) \in Nat
    OBVIOUS
<1> QED BY <1>1, <1>2 DEF TradedRun

LEMMA TradedNone ==
    ASSUME NEW x, x.fills = <<>>, NEW s
    PROVE  Traded(x, s) = 0
<1> DEFINE O == {f \in {} : TRUE}
<1>1. x.fills \in Seq({}) /\ Len(x.fills) = 0
    OBVIOUS
<1>2. PICK h : TradedRun(h, x.fills, s, Traded(x, s))
    BY <1>1, TradedFold
<1> QED BY <1>1, <1>2 DEF TradedRun

\* One more fill adds its quantity to what its symbol traded.
LEMMA TradedMore ==
    ASSUME NEW O, \A f \in O : f.qty \in Nat, NEW x, x.fills \in Seq(O), NEW f \in O,
           NEW y, y.fills = Append(x.fills, f), NEW s
    PROVE  Traded(y, s) = Traded(x, s) + (IF f.sym = s THEN f.qty ELSE 0)
<1>1. PICK a : TradedRun(a, x.fills, s, Traded(x, s))
    BY TradedFold
<1>2. y.fills \in Seq(O) /\ Len(y.fills) = Len(x.fills) + 1 /\ Len(x.fills) \in Nat
    OBVIOUS
<1>3. PICK b : TradedRun(b, y.fills, s, Traded(y, s))
    BY <1>2, TradedFold
<1> DEFINE n == Len(x.fills)
<1> DEFINE G == {k \in 0..n : a[k] = b[k]}
<1>4. \A k \in 1..n : x.fills[k] = y.fills[k]
    BY <1>2
<1>5. y.fills[n + 1] = f
    BY <1>2
<1>6. /\ a[0] = 0 /\ b[0] = 0 /\ a[n] = Traded(x, s) /\ b[n + 1] = Traded(y, s)
      /\ \A k \in 1..n : a[k] = TradedStep(x.fills, s, k, a[k - 1])
      /\ \A k \in 1..(n + 1) : b[k] = TradedStep(y.fills, s, k, b[k - 1])
    BY <1>1, <1>2, <1>3 DEF TradedRun
<1>7. 0 \in G
    BY <1>2, <1>6
<1>8. ASSUME NEW k \in 1..n, k - 1 \in G
      PROVE  k \in G
    <2>1. a[k - 1] = b[k - 1] /\ k \in 1..(n + 1) /\ k \in 0..n
        BY <1>2, <1>8
    <2> QED BY <1>4, <1>6, <2>1 DEF TradedStep
<1>9. n \in G
    <2>1. \A k \in 0..n : k \in G
        <3> HIDE DEF G
        <3> QED BY <1>2, <1>7, <1>8, Upward
    <2> QED BY <1>2, <2>1
<1>10. a[n] = b[n] /\ n + 1 \in 1..(n + 1) /\ (n + 1) - 1 = n
    BY <1>2, <1>9
<1>11. b[n + 1] = TradedStep(y.fills, s, n + 1, b[n])
    BY <1>6, <1>10
<1> HIDE DEF n, G
<1> QED BY <1>5, <1>6, <1>10, <1>11 DEF TradedStep

LEMMA StopsKeep ==
    ASSUME NEW bars0, NEW eligible, NEW Y, NEW x \in Y,
           \A y \in Y, s \in Protected(x.pos, bars0, eligible) : CheckStop(y, bars0, s) \in Y
    PROVE  CheckStops(x, bars0, eligible) \in Y
<1> DEFINE D == Protected(x.pos, bars0, eligible)
<1> DEFINE C == [T \in SUBSET D |-> NextOf(T)]
<1> DEFINE F == [p \in D \X Y |-> CheckStop(p[2], bars0, p[1])]
<1> DEFINE P(it) == it = [T \in SUBSET D |->
                            IF T = {} THEN x
                            ELSE CheckStop(it[T \ {CHOOSE e \in T : TRUE}], bars0,
                                           CHOOSE e \in T : TRUE)]
<1>1. IsFiniteSet(D)
    <2>1. D \subseteq Symbols
        BY DEF Protected, Held
    <2> QED BY <2>1, BookAssumption, FS_Subset
<1>2. \A T \in SUBSET D : C[T] = NextOf(T) /\ (T # {} => C[T] \in T)
    BY DEF NextOf
<1>3. F \in [D \X Y -> Y]
    OBVIOUS
<1>4. \A d \in D, y \in Y : F[<<d, y>>] = CheckStop(y, bars0, d)
    OBVIOUS
<1>5. PICK it \in [SUBSET D -> Y] : Unfolding(it, D, C, x, F)
    <2> HIDE DEF C, F, D
    <2> QED BY <1>1, <1>2, <1>3, FoldExists
<1>6. ASSUME NEW T \in SUBSET D
      PROVE  it[T] = IF T = {} THEN x ELSE CheckStop(it[T \ {NextOf(T)}], bars0, NextOf(T))
    <2>1. T # {} => NextOf(T) \in D /\ it[T \ {NextOf(T)}] \in Y
        <3> HIDE DEF D, F
        <3> QED BY <1>2
    <2> HIDE DEF F, C, D
    <2> QED BY <1>2, <1>4, <1>5, <2>1 DEF Unfolding
<1>7. P(it)
    <2> HIDE DEF D
    <2> QED BY <1>6 DEF NextOf
<1> DEFINE sum == CHOOSE h : P(h)
<1>8. P(sum)
    <2>1. \E h : P(h)
        BY <1>7
    <2> HIDE DEF P
    <2> QED BY <2>1, Zenon
<1>9. CheckStops(x, bars0, eligible) = sum[D]
    BY DEF CheckStops, FoldSet, MapThenFoldSet
<1> HIDE DEF sum
<1>10. \A T \in SUBSET D : sum[T] = IF T = {} THEN x
                                    ELSE CheckStop(sum[T \ {NextOf(T)}], bars0, NextOf(T))
    <2> HIDE DEF D
    <2> QED BY <1>8 DEF NextOf
<1> DEFINE G == {T \in SUBSET D : sum[T] \in Y}
<1>11. {} \in G
    BY <1>10
<1>12. ASSUME NEW T \in SUBSET D, T # {}
       PROVE  \E e \in T : T \ {e} \in G => T \in G
    <2> HIDE DEF D
    <2>1. NextOf(T) \in T
        BY <1>12 DEF NextOf
    <2>2. ASSUME T \ {NextOf(T)} \in G
          PROVE  T \in G
        <3>1. sum[T] = CheckStop(sum[T \ {NextOf(T)}], bars0, NextOf(T))
            BY <1>10, <1>12
        <3>2. NextOf(T) \in D /\ sum[T \ {NextOf(T)}] \in Y
            BY <2>1, <2>2
        <3>3. CheckStop(sum[T \ {NextOf(T)}], bars0, NextOf(T)) \in Y
            BY <3>2 DEF D
        <3> QED BY <1>12, <3>1, <3>3
    <2> HIDE DEF G
    <2> QED BY <2>1, <2>2
<1>13. D \in G
    <2>1. \A T \in SUBSET D : T \in G
        <3> HIDE DEF G, D
        <3> QED BY <1>1, <1>11, <1>12, SetInduction
    <2> QED BY <2>1
<1> QED BY <1>9, <1>13

(***************************************************************************)
(* The orders of a phase, and the units of a list of intents.              *)
(***************************************************************************)
LEMMA OrdersSeq ==
    ASSUME NEW order, IsFiniteSet(DOMAIN order), NEW V,
           \A d \in DOMAIN order : order[d] \in V
    PROVE  Orders(order) \in Seq(V)
<1> DEFINE D == DOMAIN order
<1> DEFINE n == Cardinality(D)
<1> DEFINE sorted == SetToSeq(D)
<1>1. n \in Nat /\ ExistsBijection(1..n, D)
    BY FS_CardinalityType
<1>2. PICK f \in Bijection(1..n, D) : TRUE
    BY <1>1 DEF ExistsBijection
<1>3. f \in [1..n -> D] /\ IsInjective(f)
    BY <1>2 DEF Bijection, Injection
<1>4. sorted \in [1..n -> D]
    <2> HIDE DEF D
    <2> QED BY <1>3 DEF SetToSeq
<1>5. Orders(order) = [k \in DOMAIN sorted |-> order[sorted[k]]]
    BY DEF Orders
<1> HIDE DEF sorted
<1>6. Orders(order) \in [1..n -> V]
    BY <1>4, <1>5
<1> QED BY <1>1, <1>6

UnitOf(intents, k) == IF intents[k].group = NoGroup
                      THEN <<intents[k]>> ELSE Legs(intents, intents[k].group)
LEMMA UnitsSeq ==
    ASSUME NEW U, NEW intents \in Seq(U)
    PROVE  /\ Units(intents) \in Seq(Seq(U))
           /\ \A m \in 1..Len(Units(intents)) :
                 \E k \in 1..Len(intents) : Units(intents)[m] = UnitOf(intents, k)
<1> DEFINE opens(k) == \/ intents[k].group = NoGroup
                       \/ \A j \in 1..(k - 1) : intents[j].group # intents[k].group
<1> DEFINE D == DOMAIN intents
<1> DEFINE starts == Kept([k \in D |-> k], {k \in D : opens(k)})
<1>1. D = 1..Len(intents) /\ Len(intents) \in Nat
    OBVIOUS
<1>2. [k \in D |-> k] \in Seq(D)
    BY <1>1
<1>3. starts \in Seq(D)
    <2>1. starts \in Seq(D \cap {k \in D : opens(k)})
        <3> HIDE DEF D, opens
        <3> QED BY <1>2, KeptSeq
    <2>2. D \cap {k \in D : opens(k)} \subseteq D
        OBVIOUS
    <2> HIDE DEF starts, D, opens
    <2> QED BY <2>1, <2>2
<1>4. Units(intents) = [m \in DOMAIN starts |-> UnitOf(intents, starts[m])]
    BY DEF Units, UnitOf
<1> HIDE DEF starts
<1>5. \A k \in D : UnitOf(intents, k) \in Seq(U)
    <2>1. ASSUME NEW k \in D
          PROVE  UnitOf(intents, k) \in Seq(U)
        <3> DEFINE S == {i \in Range(intents) : i.group = intents[k].group}
        <3>1. Kept(intents, S) \in Seq(U \cap S)
            <4> HIDE DEF S
            <4> QED BY KeptSeq
        <3>2. Kept(intents, S) \in Seq(U)
            <4> HIDE DEF S
            <4> QED BY <3>1
        <3>3. Legs(intents, intents[k].group) \in Seq(U)
            BY <3>2 DEF Legs
        <3>4. intents[k] \in U
            BY <1>1
        <3> QED BY <3>3, <3>4 DEF UnitOf
    <2> QED BY <2>1
<1>6. /\ Len(starts) \in Nat /\ DOMAIN starts = 1..Len(starts)
      /\ \A m \in 1..Len(starts) : starts[m] \in D
    BY <1>3
<1>7. Units(intents) \in Seq(Seq(U)) /\ Len(Units(intents)) = Len(starts)
    <2>1. Units(intents) \in [1..Len(starts) -> Seq(U)]
        <3> HIDE DEF D
        <3> QED BY <1>4, <1>5, <1>6
    <2> QED BY <1>6, <2>1
<1>8. \A m \in 1..Len(starts) : Units(intents)[m] = UnitOf(intents, starts[m])
    BY <1>4, <1>6
<1> QED BY <1>1, <1>6, <1>7, <1>8

(***************************************************************************)
(* What a step filled.                                                     *)
(***************************************************************************)
LEMMA NewFillsSeq ==
    ASSUME NEW V, NEW x, x.fills \in Seq(V), NEW O, NEW y, y.fills \in Seq(O)
    PROVE  NewFills(x, y) \in Seq(O)
<1>1. Len(x.fills) + 1 \in 1..(Len(x.fills) + 1) /\ Len(x.fills) \in Nat /\ Len(y.fills) \in Nat
    OBVIOUS
<1>2. CASE Len(x.fills) + 1 <= Len(y.fills)
    <2>1. Len(x.fills) + 1 \in 1..Len(y.fills)
        BY <1>1, <1>2
    <2>2. \A m \in (Len(x.fills) + 1)..Len(y.fills) : y.fills[m] \in O
        BY <1>1
    <2> QED BY <1>1, <2>1, <2>2, SubSeqProperties DEF NewFills
<1>3. CASE Len(x.fills) + 1 > Len(y.fills)
    <2>1. /\ Len(x.fills) + 1 \in Int /\ Len(y.fills) \in Int
          /\ Len(y.fills) < Len(x.fills) + 1
        BY <1>1, <1>3
    <2>2. SubSeq(y.fills, Len(x.fills) + 1, Len(y.fills)) = <<>>
        BY <2>1, SubSeqEmpty
    <2>3. NewFills(x, y) = <<>>
        BY <2>2 DEF NewFills
    <2> QED BY <2>3
<1> QED BY <1>1, <1>2, <1>3

FilledStep(fs, s, kinds, k, n) == n + (IF fs[k].sym = s /\ fs[k].kind \in kinds THEN fs[k].qty ELSE 0)
FilledRun(h, fs, s, kinds, last) ==
    /\ h \in [0..Len(fs) -> Nat] /\ h[0] = 0 /\ h[Len(fs)] = last
    /\ \A k \in 1..Len(fs) : h[k] = FilledStep(fs, s, kinds, k, h[k - 1])
LEMMA FilledUnfolds ==
    ASSUME NEW O, \A f \in O : f.qty \in Nat, NEW x, NEW y0, NewFills(x, y0) \in Seq(O),
           NEW s, NEW kinds
    PROVE  \E h : FilledRun(h, NewFills(x, y0), s, kinds, FilledOf(x, y0, s, kinds))
<1> DEFINE n == Len(NewFills(x, y0))
<1> DEFINE F == [p \in (1..n) \X Nat |-> FilledStep(NewFills(x, y0), s, kinds, p[1], p[2])]
<1> DEFINE P(it) == it = [T \in SUBSET DOMAIN NewFills(x, y0) |->
                            IF T = {} THEN 0
                            ELSE it[T \ {Max(T)}] + (IF NewFills(x, y0)[Max(T)].sym = s /\ NewFills(x, y0)[Max(T)].kind \in kinds THEN NewFills(x, y0)[Max(T)].qty ELSE 0)]
<1> DEFINE sum == CHOOSE it : P(it)
<1>1. n \in Nat /\ DOMAIN NewFills(x, y0) = 1..n /\ 0 \in Nat
    OBVIOUS
<1>2. \A k \in 1..n, y \in Nat : FilledStep(NewFills(x, y0), s, kinds, k, y) \in Nat
    <2>1. \A k \in 1..n : NewFills(x, y0)[k] \in O
        OBVIOUS
    <2> QED BY <2>1 DEF FilledStep
<1>3. F \in [(1..n) \X Nat -> Nat]
    BY <1>2
<1>4. \A k \in 1..n, y \in Nat : F[<<k, y>>] = FilledStep(NewFills(x, y0), s, kinds, k, y)
    OBVIOUS
<1>5. \E it : P(it)
    <2>1. PICK it \in [SUBSET (1..n) -> Nat] : Unwound(it, n, Nat, 0, F)
        <3> HIDE DEF F, n
        <3> QED BY <1>1, <1>3, ChainExists
    <2>2. ASSUME NEW T \in SUBSET (1..n), T # {}
          PROVE  it[T] = FilledStep(NewFills(x, y0), s, kinds, Max(T), it[T \ {Max(T)}])
        <3> HIDE DEF F, n
        <3> QED BY <2>1, <2>2, <1>4 DEF Unwound
    <2>3. it[{}] = 0
        BY <2>1 DEF Unwound
    <2>4. P(it)
        <3> HIDE DEF F
        <3> QED BY <1>1, <2>2, <2>3 DEF FilledStep
    <2> QED BY <2>4
<1>6. P(sum)
    <2> HIDE DEF P
    <2> QED BY <1>5, Zenon
<1>7. FilledOf(x, y0, s, kinds) = sum[1..n]
    <2>1. FilledOf(x, y0, s, kinds) = sum[DOMAIN NewFills(x, y0)]
        BY DEF FilledOf, FoldLeft, MapThenFoldSet
    <2> QED BY <1>1, <2>1
<1> HIDE DEF sum
<1>8. sum[{}] = 0 /\ \A T \in SUBSET (1..n) :
              T # {} => sum[T] = FilledStep(NewFills(x, y0), s, kinds, Max(T), sum[T \ {Max(T)}])
    BY <1>1, <1>6 DEF FilledStep
<1>9. Unwinds(sum, n, Nat, 0, F)
    <2>1. \A T \in SUBSET (1..n) : T # {} => Max(T) \in 1..n
        BY <1>1, MaxIn
    <2> HIDE DEF F, n, P
    <2> QED BY <1>4, <1>8, <2>1 DEF Unwinds
<1>10. PICK h : Chain(h, n, Nat, 0, F, sum[1..n])
    <2> HIDE DEF F, n, P
    <2> QED BY <1>1, <1>3, <1>9, ChainHolds
<1>11. /\ h \in [0..n -> Nat] /\ h[0] = 0 /\ h[n] = sum[1..n]
       /\ \A k \in 1..n : h[k] = FilledStep(NewFills(x, y0), s, kinds, k, h[k - 1])
    <2>1. \A k \in 1..n : k - 1 \in 0..n
        BY <1>1
    <2> HIDE DEF F, n, P
    <2> QED BY <1>4, <1>10, <2>1 DEF Chain
<1> HIDE DEF F, P
<1> QED BY <1>7, <1>11 DEF FilledRun

LEMMA FilledFold ==
    ASSUME NEW O, \A f \in O : f.qty \in Nat, NEW x, NEW y0, NewFills(x, y0) \in Seq(O),
           NEW s, NEW kinds
    PROVE  FilledOf(x, y0, s, kinds) \in Nat
<1>1. PICK h : FilledRun(h, NewFills(x, y0), s, kinds, FilledOf(x, y0, s, kinds))
    BY FilledUnfolds
<1>2. Len(NewFills(x, y0)) \in Nat
    OBVIOUS
<1> QED BY <1>1, <1>2 DEF FilledRun

(***************************************************************************)
(* The executor's data.                                                    *)
(***************************************************************************)
AnyTif == Resting \union {"none", "ioc", "fok", "protective", "force_close"}
GroupIds == Groups \union {NoGroup}
Stamps == Nat \union {-1}
Kinds == {"open", "add", "reduce", "close"}
\* What the executor is given: an intent of the strategy, or an order of a
\* target, of a protection or of the end of the run.
IsOrder(i) ==
    /\ i.sym \in Symbols /\ i.act \in Actions /\ i.qty \in Nat
    /\ i.limit \in BOOLEAN /\ i.tif \in AnyTif /\ i.group \in GroupIds
    /\ i.protect \in SUBSET Protections
    /\ i.at \in Stamps /\ i.since \in Stamps
    /\ i.tif \in Resting => i \in Intents
Fills == [sym: Symbols, kind: Kinds, qty: Nat, limit: BOOLEAN, tif: AnyTif,
          group: GroupIds, at: Stamps, since: Stamps]
Positions == [qty: Int, protect: SUBSET Protections, exit: BOOLEAN, group: GroupIds]
Cohorts == UNION {[D -> BarShapes] : D \in SUBSET Symbols}
\* The books whose fills are in O.
Books(O) == [cash: Int, pos: [Symbols -> Positions], fills: Seq(O), resting: Seq(Intents)]

LEMMA IntentIsOrder ==
    ASSUME NEW i \in Intents
    PROVE  IsOrder(i)
BY DEF Intents, IsOrder, AnyTif, GroupIds, Stamps

LEMMA CohortBar ==
    ASSUME NEW bars0 \in Cohorts, NEW s \in DOMAIN bars0
    PROVE  s \in Symbols /\ bars0[s] \in BarShapes
BY DEF Cohorts

LEMMA RoomBound ==
    ASSUME NEW O \in SUBSET Fills, NEW x \in Books(O), NEW bars0 \in Cohorts,
           NEW s \in DOMAIN bars0
    PROVE  /\ Traded(x, s) \in Nat /\ Room(x, bars0, s) \in Nat
           /\ \A n \in Nat \ {0} : n <= Room(x, bars0, s)
                                   => Traded(x, s) + n <= bars0[s].room
<1>1. x.fills \in Seq(O) /\ \A f \in O : f.qty \in Nat
    BY DEF Books, Fills
<1>2. Traded(x, s) \in Nat
    BY <1>1, TradedNat
<1>3. bars0[s].room \in Nat
    BY CohortBar DEF BarShapes
<1> QED BY <1>2, <1>3 DEF Room, Positive

LEMMA MagnitudeNat ==
    ASSUME NEW n \in Int
    PROVE  Magnitude(n) \in Nat /\ (Magnitude(n) = 0 <=> n = 0)
BY DEF Magnitude

\* What one step of the executor does: n of an entry, or of an exit, fills.
Enters(x, y, bars0, i, n) ==
    /\ n \in Nat \ {0} /\ i.act \in {"long", "short"}
    /\ n <= x.cash
    /\ Magnitude(x.pos[i.sym].qty) + n <= MaxPosition
    /\ i.sym \in DOMAIN bars0 /\ Traded(x, i.sym) + n <= bars0[i.sym].room
    /\ x.pos[i.sym].qty # 0 => (x.pos[i.sym].qty > 0) = (i.act = "long")
    /\ y = Entered(x, i, n)
Leaves(x, y, bars0, i, n) ==
    /\ n \in Nat \ {0} /\ i.act = "close"
    /\ n <= Magnitude(x.pos[i.sym].qty)
    /\ i.sym \in DOMAIN bars0 /\ Traded(x, i.sym) + n <= bars0[i.sym].room
    /\ y = Reduced(x, i, n)
Rests(x, y, bars0, i) ==
    /\ i.tif \in Resting /\ ~Priced(x.pos, bars0, i)
    /\ y = [x EXCEPT !.resting = Append(@, i)]

LEMMA EntryBounds ==
    ASSUME NEW O \in SUBSET Fills, NEW x \in Books(O), NEW bars0 \in Cohorts,
           NEW i, IsOrder(i), i.sym \in DOMAIN bars0
    PROVE  LET n == EntryQuantity(x, bars0, i, MaxPosition)
           IN  /\ n \in Nat
               /\ n # 0 => /\ n <= x.cash
                           /\ Magnitude(x.pos[i.sym].qty) + n <= MaxPosition
                           /\ n <= Room(x, bars0, i.sym)
<1>1. /\ x.cash \in Int /\ x.pos[i.sym].qty \in Int /\ i.qty \in Nat
      /\ Magnitude(x.pos[i.sym].qty) \in Nat /\ MaxPosition \in Nat
    BY MagnitudeNat, BookAssumption DEF Books, Positions, IsOrder
<1>2. Room(x, bars0, i.sym) \in Nat
    BY RoomBound
<1>3. Wanted(x, i) \in Nat
    BY <1>1 DEF Wanted, Positive
<1>4. /\ Headroom(x, i.sym, MaxPosition) \in Nat
      /\ Headroom(x, i.sym, MaxPosition) # 0
            => Magnitude(x.pos[i.sym].qty) + Headroom(x, i.sym, MaxPosition) = MaxPosition
    BY <1>1 DEF Headroom, Positive
<1>5. /\ Fillable(x, bars0, i, MaxPosition) \in Nat
      /\ Fillable(x, bars0, i, MaxPosition) <= Headroom(x, i.sym, MaxPosition)
      /\ Fillable(x, bars0, i, MaxPosition) <= Room(x, bars0, i.sym)
    BY <1>2, <1>3, <1>4 DEF Fillable, Lesser
<1> QED BY <1>1, <1>2, <1>4, <1>5 DEF EntryQuantity

LEMMA CloseBounds ==
    ASSUME NEW O \in SUBSET Fills, NEW x \in Books(O), NEW bars0 \in Cohorts,
           NEW i, IsOrder(i), i.sym \in DOMAIN bars0
    PROVE  LET n == CloseQuantity(x, bars0, i)
           IN  /\ n \in Nat
               /\ n <= Magnitude(x.pos[i.sym].qty)
               /\ n <= Room(x, bars0, i.sym)
<1>1. /\ x.pos[i.sym].qty \in Int /\ i.qty \in Nat
      /\ Magnitude(x.pos[i.sym].qty) \in Nat
    BY MagnitudeNat DEF Books, Positions, IsOrder
<1>2. Room(x, bars0, i.sym) \in Nat
    BY RoomBound
<1> QED BY <1>1, <1>2 DEF CloseQuantity, Lesser

LEMMA IntentCases ==
    ASSUME NEW O \in SUBSET Fills, NEW x \in Books(O), NEW bars0 \in Cohorts,
           NEW i, IsOrder(i), NEW y, y = ExecuteIntent(x, bars0, MaxPosition, i)
    PROVE  \/ y = x
           \/ Rests(x, y, bars0, i)
           \/ \E n \in Nat : Enters(x, y, bars0, i, n)
           \/ \E n \in Nat : Leaves(x, y, bars0, i, n)
<1>1. CASE ~Priced(x.pos, bars0, i)
    BY <1>1 DEF ExecuteIntent, Rests
<1>2. CASE Priced(x.pos, bars0, i)
    <2>1. i.sym \in DOMAIN bars0
        BY <1>2 DEF Priced, FillTiming
    <2>2. CASE i.act = "close"
        <3> DEFINE n == CloseQuantity(x, bars0, i)
        <3>1. n \in Nat /\ n <= Magnitude(x.pos[i.sym].qty) /\ n <= Room(x, bars0, i.sym)
            BY <2>1, CloseBounds
        <3>2. y = Reduced(x, i, n)
            BY <1>2, <2>2 DEF ExecuteIntent
        <3> HIDE DEF n
        <3>3. CASE n = 0
            BY <3>2, <3>3 DEF Reduced
        <3>4. CASE n # 0
            <4>1. n \in Nat \ {0} /\ Traded(x, i.sym) + n <= bars0[i.sym].room
                BY <2>1, <3>1, <3>4, RoomBound
            <4>2. Leaves(x, y, bars0, i, n)
                BY <2>1, <2>2, <3>1, <3>2, <4>1 DEF Leaves
            <4> QED BY <4>1, <4>2
        <3> QED BY <3>3, <3>4
    <2>3. CASE i.act # "close" /\ Refused(x.pos[i.sym], i)
        BY <1>2, <2>3 DEF ExecuteIntent
    <2>4. CASE i.act # "close" /\ ~Refused(x.pos[i.sym], i)
        <3> DEFINE n == EntryQuantity(x, bars0, i, MaxPosition)
        <3>1. /\ n \in Nat
              /\ n # 0 => /\ n <= x.cash
                          /\ Magnitude(x.pos[i.sym].qty) + n <= MaxPosition
                          /\ n <= Room(x, bars0, i.sym)
            BY <2>1, EntryBounds
        <3>2. y = Entered(x, i, n)
            BY <1>2, <2>4 DEF ExecuteIntent
        <3>3. i.act \in {"long", "short"}
            BY <2>4 DEF IsOrder, Actions
        <3>4. x.pos[i.sym].qty # 0 => (x.pos[i.sym].qty > 0) = (i.act = "long")
            BY <2>4 DEF Refused, OppositeSide
        <3> HIDE DEF n
        <3>5. CASE n = 0
            BY <3>2, <3>5 DEF Entered
        <3>6. CASE n # 0
            <4>1. n \in Nat \ {0} /\ Traded(x, i.sym) + n <= bars0[i.sym].room
                BY <2>1, <3>1, <3>6, RoomBound
            <4>2. Enters(x, y, bars0, i, n)
                BY <2>1, <3>1, <3>2, <3>3, <3>4, <3>6, <4>1 DEF Enters
            <4> QED BY <4>1, <4>2
        <3> QED BY <3>5, <3>6
    <2> QED BY <2>2, <2>3, <2>4
<1> QED BY <1>1, <1>2

(***************************************************************************)
(* What an entry and an exit change.                                       *)
(***************************************************************************)
\* y is x after a fill f of symbol s, which leaves position p.
Filled(x, y, s, p, f) ==
    /\ y.pos = [x.pos EXCEPT ![s] = p]
    /\ y.fills = Append(x.fills, f)
    /\ y.resting = x.resting

LEMMA EntersEffect ==
    ASSUME NEW O \in SUBSET Fills, NEW x \in Books(O), NEW bars0,
           NEW i, IsOrder(i), NEW y, NEW n \in Nat, Enters(x, y, bars0, i, n)
    PROVE  \E p \in Positions, kind \in {"open", "add"} :
              /\ Filled(x, y, i.sym, p, Fill(i, kind, n))
              /\ p.qty # 0 /\ Magnitude(p.qty) = Magnitude(x.pos[i.sym].qty) + n
              /\ p.exit = x.pos[i.sym].exit
              /\ y.cash = x.cash - n
              /\ y = [cash |-> y.cash, pos |-> y.pos, fills |-> y.fills, resting |-> y.resting]
<1> DEFINE q == x.pos[i.sym]
<1> DEFINE signed == IF i.act = "long" THEN n ELSE -n
<1> DEFINE p == [qty |-> q.qty + signed, protect |-> q.protect \union i.protect,
                 exit |-> q.exit, group |-> IF q.qty = 0 THEN i.group ELSE q.group]
<1> DEFINE kind == IF q.qty = 0 THEN "open" ELSE "add"
<1>1. q \in Positions /\ i.sym \in Symbols
    BY DEF Books, IsOrder
<1>2. p \in Positions /\ kind \in {"open", "add"}
    BY <1>1 DEF Positions, IsOrder
<1>3. p.qty # 0 /\ Magnitude(p.qty) = Magnitude(q.qty) + n
    <2>1. q.qty \in Int /\ n \in Nat /\ n # 0 /\ i.act \in {"long", "short"}
          /\ (q.qty # 0 => (q.qty > 0) = (i.act = "long"))
        BY <1>1 DEF Enters, Positions
    <2>2. p.qty = q.qty + signed
        OBVIOUS
    <2> HIDE DEF q, p
    <2>3. CASE i.act = "long"
        <3>1. q.qty >= 0 /\ signed = n
            BY <2>1, <2>3
        <3> QED BY <2>1, <2>2, <3>1 DEF Magnitude
    <2>4. CASE i.act = "short"
        <3>1. q.qty <= 0 /\ signed = -n
            BY <2>1, <2>4
        <3> QED BY <2>1, <2>2, <3>1 DEF Magnitude
    <2> QED BY <2>1, <2>3, <2>4
<1>4. y = [x EXCEPT !.cash = x.cash - n, !.pos = [x.pos EXCEPT ![i.sym] = p],
                    !.fills = Append(x.fills, Fill(i, kind, n))]
    BY DEF Enters, Entered, Books
<1>5. /\ Filled(x, y, i.sym, p, Fill(i, kind, n)) /\ y.cash = x.cash - n
      /\ y = [cash |-> y.cash, pos |-> y.pos, fills |-> y.fills, resting |-> y.resting]
    <2> HIDE DEF p, kind
    <2> QED BY <1>4 DEF Filled, Books
<1>6. p.exit = q.exit
    OBVIOUS
<1> HIDE DEF p, kind
<1> QED BY <1>2, <1>3, <1>5, <1>6

LEMMA LeavesEffect ==
    ASSUME NEW O \in SUBSET Fills, NEW x \in Books(O), NEW bars0,
           NEW i, IsOrder(i), NEW y, NEW n \in Nat, Leaves(x, y, bars0, i, n)
    PROVE  \E p \in Positions, kind \in {"reduce", "close"} :
              /\ Filled(x, y, i.sym, p, Fill(i, kind, n))
              /\ Magnitude(p.qty) = Magnitude(x.pos[i.sym].qty) - n
              /\ p.qty = 0 => p = Flat
              /\ p.exit => x.pos[i.sym].exit
              /\ y.cash = x.cash + n
              /\ y = [cash |-> y.cash, pos |-> y.pos, fills |-> y.fills, resting |-> y.resting]
<1> DEFINE q == x.pos[i.sym]
<1> DEFINE left == IF q.qty > 0 THEN q.qty - n ELSE q.qty + n
<1> DEFINE p == IF left = 0 THEN Flat ELSE [q EXCEPT !.qty = left]
<1> DEFINE kind == IF left = 0 THEN "close" ELSE "reduce"
<1>1. q \in Positions /\ i.sym \in Symbols
    BY DEF Books, IsOrder
<1>2. /\ q.qty \in Int /\ n # 0 /\ n <= Magnitude(q.qty)
    BY <1>1 DEF Leaves, Positions
<1>3. left \in Int /\ Magnitude(left) = Magnitude(q.qty) - n
    <2> HIDE DEF q
    <2> QED BY <1>2 DEF Magnitude
<1>4. Flat \in Positions
    BY DEF Flat, Positions, GroupIds
<1>5. p \in Positions /\ kind \in {"reduce", "close"}
    <2> HIDE DEF left, q
    <2> QED BY <1>1, <1>3, <1>4 DEF Positions
<1>6. p.qty = left /\ (p.qty = 0 => p = Flat) /\ (p.exit => q.exit)
    <2> HIDE DEF left, q
    <2> QED BY <1>1, <1>3 DEF Positions, Flat
<1>7. y = [x EXCEPT !.cash = x.cash + n, !.pos = [x.pos EXCEPT ![i.sym] = p],
                    !.fills = Append(x.fills, Fill(i, kind, n))]
    BY DEF Leaves, Reduced, Books
<1>8. /\ Filled(x, y, i.sym, p, Fill(i, kind, n)) /\ y.cash = x.cash + n
      /\ y = [cash |-> y.cash, pos |-> y.pos, fills |-> y.fills, resting |-> y.resting]
    <2> HIDE DEF p, kind
    <2> QED BY <1>7 DEF Filled, Books
<1>9. Magnitude(p.qty) = Magnitude(q.qty) - n
    BY <1>3, <1>6
<1> HIDE DEF p, kind
<1> QED BY <1>5, <1>6, <1>8, <1>9

(***************************************************************************)
(* What the executor keeps.                                                *)
(***************************************************************************)
\* Cash and positions make up the starting cash, no position is too large,
\* and only a position carries protection.
Sound(x) ==
    /\ x.cash >= 0 /\ x.cash + Gross(x.pos) = StartCash
    /\ \A s \in Symbols : /\ Magnitude(x.pos[s].qty) <= MaxPosition
                          /\ x.pos[s].qty = 0 => x.pos[s] = Flat
\* y only adds fills to x, and a symbol it adds one for stays in its budget.
Extends(x, y) ==
    /\ Len(x.fills) <= Len(y.fills)
    /\ \A k \in 1..Len(x.fills) : y.fills[k] = x.fills[k]
Liquid(x, y, bars0, s) ==
    \/ /\ Traded(y, s) = Traded(x, s)
       /\ \A k \in (Len(x.fills) + 1)..Len(y.fills) : y.fills[k].sym # s
    \/ s \in DOMAIN bars0 /\ Traded(y, s) <= bars0[s].room
Fits(x, y, bars0) ==
    /\ Sound(x) => Sound(y)
    /\ Extends(x, y)
    /\ \A s \in Symbols : Liquid(x, y, bars0, s)
NoNewExit(x, y) == \A s \in Symbols : y.pos[s].exit => x.pos[s].exit
Shrinks(x, y) ==
    \A s \in Symbols : Magnitude(y.pos[s].qty) <= Magnitude(x.pos[s].qty)

LEMMA SizesType ==
    ASSUME NEW p \in [Symbols -> Positions]
    PROVE  /\ [s \in Symbols |-> Magnitude(p[s].qty)] \in [Symbols -> Int]
           /\ \A s \in Symbols : p[s].qty \in Int /\ Magnitude(p[s].qty) \in Nat
BY MagnitudeNat DEF Positions

LEMMA GrossInt ==
    ASSUME NEW p \in [Symbols -> Positions]
    PROVE  Gross(p) \in Int
BY SizesType, TotalInt, BookAssumption DEF Gross

LEMMA GrossChange ==
    ASSUME NEW p \in [Symbols -> Positions], NEW s \in Symbols, NEW a \in Positions
    PROVE  Gross([p EXCEPT ![s] = a])
              = Gross(p) + (Magnitude(a.qty) - Magnitude(p[s].qty))
<1> DEFINE q == [p EXCEPT ![s] = a]
<1> DEFINE f == [t \in Symbols |-> Magnitude(p[t].qty)]
<1> DEFINE g == [t \in Symbols |-> Magnitude(q[t].qty)]
<1>1. q \in [Symbols -> Positions] /\ q[s] = a /\ \A t \in Symbols \ {s} : q[t] = p[t]
    OBVIOUS
<1> HIDE DEF q
<1>2. f \in [Symbols -> Int] /\ g \in [Symbols -> Int]
    BY <1>1, SizesType
<1>3. f[s] = Magnitude(p[s].qty) /\ g[s] = Magnitude(a.qty)
    BY <1>1
<1>4. \A t \in Symbols \ {s} : f[t] = g[t]
    BY <1>1
<1>5. Gross(p) = Total(f) /\ Gross(q) = Total(g)
    BY DEF Gross
<1> HIDE DEF f, g
<1>6. Total(g) = Total(f) + (g[s] - f[s])
    BY <1>2, <1>4, BookAssumption, TotalChange
<1> QED BY <1>3, <1>5, <1>6 DEF q

LEMMA GrossShrinks ==
    ASSUME NEW p \in [Symbols -> Positions], NEW q \in [Symbols -> Positions],
           \A s \in Symbols : Magnitude(q[s].qty) <= Magnitude(p[s].qty)
    PROVE  Gross(q) <= Gross(p)
<1> DEFINE f == [t \in Symbols |-> Magnitude(p[t].qty)]
<1> DEFINE g == [t \in Symbols |-> Magnitude(q[t].qty)]
<1>1. f \in [Symbols -> Int] /\ g \in [Symbols -> Int]
    BY SizesType
<1>2. \A t \in Symbols : g[t] <= f[t]
    OBVIOUS
<1>3. Gross(p) = Total(f) /\ Gross(q) = Total(g)
    BY DEF Gross
<1> HIDE DEF f, g
<1> QED BY <1>1, <1>2, <1>3, BookAssumption, TotalGrows

LEMMA FitsItself ==
    ASSUME NEW x, NEW bars0
    PROVE  Fits(x, x, bars0) /\ NoNewExit(x, x)
<1>1. Extends(x, x)
    BY DEF Extends
<1>2. \A s \in Symbols : Liquid(x, x, bars0, s)
    BY DEF Liquid
<1> QED BY <1>1, <1>2 DEF Fits, NoNewExit

LEMMA ShrinksItself ==
    ASSUME NEW O, NEW x \in Books(O)
    PROVE  Shrinks(x, x)
<1>1. x.pos \in [Symbols -> Positions]
    BY DEF Books
<1> QED BY <1>1, SizesType DEF Shrinks

LEMMA FitsOnward ==
    ASSUME NEW O, NEW x \in Books(O), NEW y \in Books(O), NEW z \in Books(O),
           NEW bars0, Fits(x, y, bars0), Fits(y, z, bars0)
    PROVE  Fits(x, z, bars0)
<1>1. /\ Len(x.fills) \in Nat /\ Len(y.fills) \in Nat /\ Len(z.fills) \in Nat
    BY DEF Books
<1>2. Extends(x, y) /\ Extends(y, z)
    BY DEF Fits
<1>3. Extends(x, z)
    BY <1>1, <1>2 DEF Extends
<1>4. ASSUME NEW s \in Symbols
      PROVE  Liquid(x, z, bars0, s)
    <2>1. Liquid(x, y, bars0, s) /\ Liquid(y, z, bars0, s)
        BY DEF Fits
    <2>2. CASE s \in DOMAIN bars0 /\ Traded(z, s) <= bars0[s].room
        BY <2>2 DEF Liquid
    <2>3. CASE /\ Traded(z, s) = Traded(y, s)
               /\ \A k \in (Len(y.fills) + 1)..Len(z.fills) : z.fills[k].sym # s
        <3>1. CASE s \in DOMAIN bars0 /\ Traded(y, s) <= bars0[s].room
            BY <2>3, <3>1 DEF Liquid
        <3>2. CASE /\ Traded(y, s) = Traded(x, s)
                   /\ \A k \in (Len(x.fills) + 1)..Len(y.fills) : y.fills[k].sym # s
            <4>1. ASSUME NEW k \in (Len(x.fills) + 1)..Len(z.fills)
                  PROVE  z.fills[k].sym # s
                <5>1. CASE k <= Len(y.fills)
                    <6>1. k \in 1..Len(y.fills) /\ k \in (Len(x.fills) + 1)..Len(y.fills)
                        BY <1>1, <5>1
                    <6>2. z.fills[k] = y.fills[k]
                        BY <1>2, <6>1 DEF Extends
                    <6> QED BY <3>2, <6>1, <6>2
                <5>2. CASE k > Len(y.fills)
                    <6>1. k \in (Len(y.fills) + 1)..Len(z.fills)
                        BY <1>1, <5>2
                    <6> QED BY <2>3, <6>1
                <5> QED BY <1>1, <5>1, <5>2
            <4> QED BY <2>3, <3>2, <4>1 DEF Liquid
        <3> QED BY <2>1, <3>1, <3>2 DEF Liquid
    <2> QED BY <2>1, <2>2, <2>3 DEF Liquid
<1> QED BY <1>3, <1>4 DEF Fits

LEMMA ShrinksOnward ==
    ASSUME NEW O, NEW x \in Books(O), NEW y \in Books(O), NEW z \in Books(O),
           Shrinks(x, y), Shrinks(y, z)
    PROVE  Shrinks(x, z)
<1>1. \A s \in Symbols : /\ Magnitude(x.pos[s].qty) \in Nat
                         /\ Magnitude(y.pos[s].qty) \in Nat
                         /\ Magnitude(z.pos[s].qty) \in Nat
    BY SizesType DEF Books
<1> QED BY <1>1 DEF Shrinks

\* A fill within the budget of its symbol.
LEMMA FilledFits ==
    ASSUME NEW O \in SUBSET Fills, NEW x \in Books(O), NEW bars0 \in Cohorts, NEW y,
           NEW s \in Symbols, NEW p \in Positions, NEW f \in O, f.sym = s,
           Filled(x, y, s, p, f),
           y = [cash |-> y.cash, pos |-> y.pos, fills |-> y.fills, resting |-> y.resting],
           y.cash = x.cash + (Magnitude(x.pos[s].qty) - Magnitude(p.qty)),
           y.cash >= 0 \/ ~Sound(x),
           s \in DOMAIN bars0, Traded(x, s) + f.qty <= bars0[s].room,
           Magnitude(p.qty) <= MaxPosition \/ ~Sound(x), p.qty = 0 => p = Flat
    PROVE  y \in Books(O) /\ Fits(x, y, bars0)
<1>1. /\ x.fills \in Seq(O) /\ x.pos \in [Symbols -> Positions] /\ x.cash \in Int
      /\ \A e \in O : e.qty \in Nat
    BY DEF Books, Fills
<1>2. /\ y.pos = [x.pos EXCEPT ![s] = p] /\ y.fills = Append(x.fills, f)
      /\ y.resting = x.resting
    BY DEF Filled
<1>3. /\ x.pos[s].qty \in Int /\ Magnitude(x.pos[s].qty) \in Nat
      /\ p.qty \in Int /\ Magnitude(p.qty) \in Nat
    BY <1>1, MagnitudeNat DEF Positions
<1>4. y \in Books(O)
    <2>1. /\ y.cash \in Int /\ y.pos \in [Symbols -> Positions] /\ y.fills \in Seq(O)
          /\ y.resting \in Seq(Intents)
        BY <1>1, <1>2, <1>3 DEF Books
    <2> QED BY <2>1 DEF Books
<1>5. Extends(x, y) /\ Len(y.fills) = Len(x.fills) + 1 /\ Len(x.fills) \in Nat
    BY <1>1, <1>2 DEF Extends
<1>6. ASSUME NEW t \in Symbols
      PROVE  Liquid(x, y, bars0, t)
    <2>1. Traded(y, t) = Traded(x, t) + (IF f.sym = t THEN f.qty ELSE 0)
        <3>1. /\ \A e \in O : e.qty \in Nat
              /\ x.fills \in Seq(O) /\ f \in O /\ y.fills = Append(x.fills, f)
            BY <1>1, <1>2
        <3> QED BY ONLY <3>1, TradedMore
    <2>2. Traded(x, t) \in Nat
        BY <1>1, TradedNat
    <2>3. CASE t = s
        BY <2>1, <2>3 DEF Liquid
    <2>4. CASE t # s
        <3>1. Traded(y, t) = Traded(x, t)
            BY <2>1, <2>2, <2>4
        <3>2. \A k \in (Len(x.fills) + 1)..Len(y.fills) : y.fills[k].sym # t
            BY <1>1, <1>2, <1>5, <2>4
        <3> QED BY <3>1, <3>2 DEF Liquid
    <2> QED BY <2>3, <2>4
<1>7. ASSUME Sound(x)
      PROVE  Sound(y)
    <2>1. Gross(y.pos) = Gross(x.pos) + (Magnitude(p.qty) - Magnitude(x.pos[s].qty))
        <3>1. Gross([x.pos EXCEPT ![s] = p])
                 = Gross(x.pos) + (Magnitude(p.qty) - Magnitude(x.pos[s].qty))
            <4>1. x.pos \in [Symbols -> Positions]
                BY <1>1
            <4> DEFINE q == x.pos
            <4> HIDE DEF q
            <4>2. Gross([q EXCEPT ![s] = p]) = Gross(q) + (Magnitude(p.qty) - Magnitude(q[s].qty))
                BY <4>1, GrossChange DEF q
            <4> QED BY <4>2 DEF q
        <3> QED BY <1>2, <3>1
    <2>2. Gross(x.pos) \in Int
        BY <1>1, GrossInt
    <2>3. y.cash + Gross(y.pos) = StartCash
        BY <1>1, <1>3, <1>7, <2>1, <2>2, BookAssumption DEF Sound
    <2>4. \A t \in Symbols : /\ Magnitude(y.pos[t].qty) <= MaxPosition
                             /\ y.pos[t].qty = 0 => y.pos[t] = Flat
        BY <1>1, <1>2, <1>7 DEF Sound
    <2> QED BY <1>7, <2>3, <2>4 DEF Sound
<1> QED BY <1>4, <1>5, <1>6, <1>7 DEF Fits

LEMMA FillType ==
    ASSUME NEW i, IsOrder(i), NEW kind \in Kinds, NEW n \in Nat
    PROVE  Fill(i, kind, n) \in Fills /\ Fill(i, kind, n).sym = i.sym
           /\ Fill(i, kind, n).qty = n
BY DEF Fill, Fills, IsOrder

\* The fills an order may have are in O.
MayFill(i, bars0, O) ==
    i.sym \in DOMAIN bars0 => \A kind \in Kinds, n \in Nat : Fill(i, kind, n) \in O

\* n of a close fills.
LEMMA LeavesFits ==
    ASSUME NEW O \in SUBSET Fills, NEW x \in Books(O), NEW bars0 \in Cohorts,
           NEW i, IsOrder(i), MayFill(i, bars0, O), NEW y, NEW n \in Nat,
           Leaves(x, y, bars0, i, n)
    PROVE  /\ y \in Books(O) /\ Fits(x, y, bars0) /\ NoNewExit(x, y)
           /\ Shrinks(x, y)
           /\ Magnitude(y.pos[i.sym].qty) = Magnitude(x.pos[i.sym].qty) - n
<1>a. /\ x.fills \in Seq(O) /\ x.pos \in [Symbols -> Positions] /\ x.cash \in Int
      /\ i.sym \in Symbols
    BY DEF Books, IsOrder
<1>b. /\ x.pos[i.sym].qty \in Int /\ Magnitude(x.pos[i.sym].qty) \in Nat
    BY <1>a, SizesType
<1>1. PICK p \in Positions, kind \in {"reduce", "close"} :
          /\ Filled(x, y, i.sym, p, Fill(i, kind, n))
          /\ Magnitude(p.qty) = Magnitude(x.pos[i.sym].qty) - n
          /\ p.qty = 0 => p = Flat
          /\ p.exit => x.pos[i.sym].exit
          /\ y.cash = x.cash + n
          /\ y = [cash |-> y.cash, pos |-> y.pos, fills |-> y.fills, resting |-> y.resting]
    BY LeavesEffect
<1>2. /\ i.sym \in DOMAIN bars0 /\ Traded(x, i.sym) + n <= bars0[i.sym].room
      /\ n <= Magnitude(x.pos[i.sym].qty)
    BY DEF Leaves
<1> DEFINE f == Fill(i, kind, n)
<1>3. f \in O /\ f.sym = i.sym /\ f.qty = n
    BY <1>2, FillType DEF MayFill, Kinds
<1> HIDE DEF f
<1>4. Filled(x, y, i.sym, p, f)
    BY <1>1 DEF f
<1>5. /\ y.cash = x.cash + (Magnitude(x.pos[i.sym].qty) - Magnitude(p.qty))
      /\ y.cash >= 0 \/ ~Sound(x)
      /\ Magnitude(p.qty) <= MaxPosition \/ ~Sound(x)
    BY <1>a, <1>b, <1>1, <1>2, BookAssumption DEF Sound
<1>6. y \in Books(O) /\ Fits(x, y, bars0)
    BY <1>a, <1>1, <1>2, <1>3, <1>4, <1>5, FilledFits
<1>7. NoNewExit(x, y)
    BY <1>a, <1>1, <1>4 DEF NoNewExit, Filled
<1>8. Shrinks(x, y)
    <2>1. \A s \in Symbols : Magnitude(x.pos[s].qty) \in Nat
        BY <1>a, SizesType
    <2>2. ASSUME NEW s \in Symbols
          PROVE  Magnitude(y.pos[s].qty) <= Magnitude(x.pos[s].qty)
        <3>1. CASE s = i.sym
            <4>1. y.pos[s] = p
                BY <1>a, <1>4, <3>1 DEF Filled
            <4> QED BY <1>b, <1>1, <3>1, <4>1
        <3>2. CASE s # i.sym
            <4>1. y.pos[s] = x.pos[s]
                BY <1>a, <1>4, <3>2 DEF Filled
            <4> QED BY <2>1, <4>1
        <3> QED BY <3>1, <3>2
    <2> QED BY <2>2 DEF Shrinks
<1>9. y.pos[i.sym] = p
    BY <1>a, <1>4 DEF Filled
<1> QED BY <1>1, <1>6, <1>7, <1>8, <1>9

LEMMA IntentFits ==
    ASSUME NEW O \in SUBSET Fills, NEW x \in Books(O), NEW bars0 \in Cohorts,
           NEW i, IsOrder(i), MayFill(i, bars0, O)
    PROVE  LET y == ExecuteIntent(x, bars0, MaxPosition, i)
           IN  /\ y \in Books(O) /\ Fits(x, y, bars0) /\ NoNewExit(x, y)
               /\ i.act = "close" => Shrinks(x, y)
<1> DEFINE y == ExecuteIntent(x, bars0, MaxPosition, i)
<1>1. /\ x.fills \in Seq(O) /\ x.pos \in [Symbols -> Positions] /\ x.cash \in Int
      /\ i.sym \in Symbols
    BY DEF Books, IsOrder
<1>2. /\ x.pos[i.sym].qty \in Int /\ Magnitude(x.pos[i.sym].qty) \in Nat
    BY <1>1, SizesType
<1>3. \/ y = x
      \/ Rests(x, y, bars0, i)
      \/ \E n \in Nat : Enters(x, y, bars0, i, n)
      \/ \E n \in Nat : Leaves(x, y, bars0, i, n)
    BY IntentCases
<1> HIDE DEF y
<1> SUFFICES /\ y \in Books(O) /\ Fits(x, y, bars0) /\ NoNewExit(x, y)
             /\ i.act = "close" => Shrinks(x, y)
    BY DEF y
<1>4. CASE y = x
    BY <1>4, FitsItself, ShrinksItself
<1>5. CASE Rests(x, y, bars0, i)
    <2>1. i \in Intents
        BY <1>5 DEF Rests, IsOrder
    <2>2. y = [x EXCEPT !.resting = Append(x.resting, i)]
        BY <1>5 DEF Rests
    <2>3. /\ y \in Books(O) /\ y.fills = x.fills /\ y.pos = x.pos /\ y.cash = x.cash
        <3>1. Append(x.resting, i) \in Seq(Intents)
            BY <2>1 DEF Books
        <3> DEFINE r == Append(x.resting, i)
        <3> HIDE DEF r
        <3> QED BY <2>2, <3>1 DEF Books, r
    <2>4. \A s \in Symbols : Traded(y, s) = Traded(x, s)
        BY <2>3 DEF Traded
    <2>5. Fits(x, y, bars0)
        <3>1. Extends(x, y)
            BY <1>1, <2>3 DEF Extends
        <3>2. \A s \in Symbols : Liquid(x, y, bars0, s)
            BY <1>1, <2>3, <2>4 DEF Liquid
        <3>3. Sound(x) => Sound(y)
            BY <2>3 DEF Sound
        <3> QED BY <3>1, <3>2, <3>3 DEF Fits
    <2>6. NoNewExit(x, y) /\ Shrinks(x, y)
        BY <2>3, ShrinksItself DEF NoNewExit, Shrinks
    <2> QED BY <2>3, <2>5, <2>6
<1>6. ASSUME NEW n \in Nat, Enters(x, y, bars0, i, n)
      PROVE  /\ y \in Books(O) /\ Fits(x, y, bars0) /\ NoNewExit(x, y)
             /\ i.act # "close"
    <2>1. PICK p \in Positions, kind \in {"open", "add"} :
              /\ Filled(x, y, i.sym, p, Fill(i, kind, n))
              /\ p.qty # 0 /\ Magnitude(p.qty) = Magnitude(x.pos[i.sym].qty) + n
              /\ p.exit = x.pos[i.sym].exit
              /\ y.cash = x.cash - n
              /\ y = [cash |-> y.cash, pos |-> y.pos, fills |-> y.fills, resting |-> y.resting]
        BY <1>6, EntersEffect
    <2>2. /\ i.sym \in DOMAIN bars0 /\ Traded(x, i.sym) + n <= bars0[i.sym].room
          /\ n <= x.cash /\ Magnitude(x.pos[i.sym].qty) + n <= MaxPosition
          /\ i.act # "close"
        BY <1>6 DEF Enters
    <2> DEFINE f == Fill(i, kind, n)
    <2>3. f \in O /\ f.sym = i.sym /\ f.qty = n
        BY <2>2, FillType DEF MayFill, Kinds
    <2> HIDE DEF f
    <2>4. Filled(x, y, i.sym, p, f)
        BY <2>1 DEF f
    <2>5. y.cash = x.cash + (Magnitude(x.pos[i.sym].qty) - Magnitude(p.qty)) /\ y.cash >= 0
        BY <1>1, <1>2, <2>1, <2>2
    <2>6. y \in Books(O) /\ Fits(x, y, bars0)
        BY <1>1, <2>1, <2>2, <2>3, <2>4, <2>5, FilledFits
    <2>7. NoNewExit(x, y)
        BY <1>1, <2>1, <2>4 DEF NoNewExit, Filled
    <2> QED BY <2>2, <2>6, <2>7
<1>7. ASSUME NEW n \in Nat, Leaves(x, y, bars0, i, n)
      PROVE  /\ y \in Books(O) /\ Fits(x, y, bars0) /\ NoNewExit(x, y)
             /\ Shrinks(x, y)
    BY <1>7, LeavesFits
<1> QED BY <1>3, <1>4, <1>5, <1>6, <1>7

(***************************************************************************)
(* Batches.  A set of books that a book x may become on the bars bars0.    *)
(***************************************************************************)
After(O, x, bars0) == {y \in Books(O) : Fits(x, y, bars0) /\ NoNewExit(x, y)}
\* Orders whose fills are in O.
Allowed(U, bars0, O) == \A i \in U : IsOrder(i) /\ MayFill(i, bars0, O)

LEMMA AfterItself ==
    ASSUME NEW O, NEW x \in Books(O), NEW bars0
    PROVE  x \in After(O, x, bars0)
BY FitsItself DEF After

LEMMA AfterOnward ==
    ASSUME NEW O, NEW x \in Books(O), NEW bars0, NEW y \in After(O, x, bars0),
           NEW z \in After(O, y, bars0)
    PROVE  z \in After(O, x, bars0)
<1>1. /\ y \in Books(O) /\ Fits(x, y, bars0) /\ NoNewExit(x, y)
      /\ z \in Books(O) /\ Fits(y, z, bars0) /\ NoNewExit(y, z)
    BY DEF After
<1>2. Fits(x, z, bars0)
    BY <1>1, FitsOnward
<1>3. NoNewExit(x, z)
    BY <1>1 DEF NoNewExit
<1> QED BY <1>1, <1>2, <1>3 DEF After

LEMMA IntentAfter ==
    ASSUME NEW O \in SUBSET Fills, NEW x \in Books(O), NEW bars0 \in Cohorts,
           NEW i, IsOrder(i), MayFill(i, bars0, O)
    PROVE  ExecuteIntent(x, bars0, MaxPosition, i) \in After(O, x, bars0)
BY IntentFits DEF After

LEMMA EachAfter ==
    ASSUME NEW O \in SUBSET Fills, NEW x \in Books(O), NEW bars0 \in Cohorts,
           NEW U, NEW intents \in Seq(U), Allowed(U, bars0, O)
    PROVE  ExecuteEach(x, bars0, MaxPosition, intents) \in After(O, x, bars0)
<1> DEFINE Y == After(O, x, bars0)
<1>1. x \in Y
    BY AfterItself
<1>2. ASSUME NEW y \in Y, NEW k \in 1..Len(intents)
      PROVE  ExecuteIntent(y, bars0, MaxPosition, intents[k]) \in Y
    <2>1. intents[k] \in U
        OBVIOUS
    <2>2. IsOrder(intents[k]) /\ MayFill(intents[k], bars0, O)
        BY <2>1 DEF Allowed
    <2>3. y \in Books(O)
        BY DEF After
    <2>4. ExecuteIntent(y, bars0, MaxPosition, intents[k]) \in After(O, y, bars0)
        BY <2>2, <2>3, IntentAfter
    <2> QED BY <2>4, AfterOnward
<1> HIDE DEF Y
<1>3. ExecuteEach(x, bars0, MaxPosition, intents) \in Y
    BY <1>1, <1>2, EachKeeps
<1> QED BY <1>3 DEF Y

\* Orders that only close shrink every position.
LEMMA ClosesShrink ==
    ASSUME NEW O \in SUBSET Fills, NEW x \in Books(O), NEW bars0 \in Cohorts,
           NEW U, NEW intents \in Seq(U), Allowed(U, bars0, O),
           \A i \in U : i.act = "close"
    PROVE  Shrinks(x, ExecuteEach(x, bars0, MaxPosition, intents))
<1> DEFINE Y == {y \in Books(O) : Shrinks(x, y)}
<1>1. x \in Y
    BY ShrinksItself
<1>2. ASSUME NEW y \in Y, NEW k \in 1..Len(intents)
      PROVE  ExecuteIntent(y, bars0, MaxPosition, intents[k]) \in Y
    <2>1. intents[k] \in U
        OBVIOUS
    <2>2. IsOrder(intents[k]) /\ MayFill(intents[k], bars0, O) /\ intents[k].act = "close"
        BY <2>1 DEF Allowed
    <2>3. y \in Books(O) /\ Shrinks(x, y)
        OBVIOUS
    <2> DEFINE z == ExecuteIntent(y, bars0, MaxPosition, intents[k])
    <2>4. z \in Books(O) /\ Shrinks(y, z)
        BY <2>2, <2>3, IntentFits
    <2> HIDE DEF z
    <2>5. Shrinks(x, z)
        BY <2>3, <2>4, ShrinksOnward
    <2> QED BY <2>4, <2>5 DEF z
<1> HIDE DEF Y
<1>3. ExecuteEach(x, bars0, MaxPosition, intents) \in Y
    BY <1>1, <1>2, EachKeeps
<1> QED BY <1>3 DEF Y

(***************************************************************************)
(* Groups.                                                                 *)
(***************************************************************************)
LEMMA UnitNonempty ==
    ASSUME NEW U, NEW intents \in Seq(U), NEW m \in 1..Len(Units(intents))
    PROVE  Units(intents)[m] \in Seq(U) /\ Units(intents)[m][1] \in U
<1>1. PICK k \in 1..Len(intents) : Units(intents)[m] = UnitOf(intents, k)
    BY UnitsSeq
<1>2. Units(intents) \in Seq(Seq(U))
    BY UnitsSeq
<1>3. Units(intents)[m] \in Seq(U)
    BY <1>2
<1>4. CASE intents[k].group = NoGroup
    BY <1>1, <1>3, <1>4 DEF UnitOf
<1>5. CASE intents[k].group # NoGroup
    <2> DEFINE S == {i \in Range(intents) : i.group = intents[k].group}
    <2>1. intents[k] \in S
        BY DEF Range
    <2>2. PICK j \in 1..Len(Kept(intents, S)) : Kept(intents, S)[j] = intents[k]
        <3> HIDE DEF S
        <3> QED BY <2>1, KeptAll
    <2>3. Units(intents)[m] = Kept(intents, S)
        BY <1>1, <1>5 DEF UnitOf, Legs
    <2> HIDE DEF S
    <2>4. Len(Units(intents)[m]) >= 1
        BY <1>3, <2>2, <2>3
    <2> QED BY <1>3, <2>4
<1> QED BY <1>3, <1>4, <1>5

LEMMA UnitAfter ==
    ASSUME NEW O \in SUBSET Fills, NEW x \in Books(O), NEW bars0 \in Cohorts,
           NEW U, Allowed(U, bars0, O), NEW unit \in Seq(U), unit[1] \in U
    PROVE  ExecuteUnit(x, bars0, MaxPosition, unit) \in After(O, x, bars0)
<1>1. CASE unit[1].group = NoGroup
    <2>1. IsOrder(unit[1]) /\ MayFill(unit[1], bars0, O)
        BY DEF Allowed
    <2>2. ExecuteUnit(x, bars0, MaxPosition, unit) = ExecuteIntent(x, bars0, MaxPosition, unit[1])
        BY <1>1 DEF ExecuteUnit
    <2> QED BY <2>1, <2>2, IntentAfter
<1>2. CASE unit[1].group # NoGroup
    <2> DEFINE all == ExecuteEach(x, bars0, MaxPosition, unit)
    <2>1. all \in After(O, x, bars0) /\ x \in After(O, x, bars0)
        BY EachAfter, AfterItself
    <2>2. ExecuteUnit(x, bars0, MaxPosition, unit) = WholeOrNothing(x, all, unit)
        BY <1>2 DEF ExecuteUnit, StageGroup
    <2> HIDE DEF all
    <2>3. WholeOrNothing(x, all, unit) \in {all, x}
        BY DEF WholeOrNothing
    <2> QED BY <2>1, <2>2, <2>3
<1> QED BY <1>1, <1>2

LEMMA UnitsAfter ==
    ASSUME NEW O \in SUBSET Fills, NEW x \in Books(O), NEW bars0 \in Cohorts,
           NEW U, NEW intents \in Seq(U), Allowed(U, bars0, O)
    PROVE  ExecuteUnits(x, bars0, MaxPosition, intents) \in After(O, x, bars0)
<1> DEFINE Y == After(O, x, bars0)
<1> DEFINE z == EachUnit(x, bars0, MaxPosition, intents)
<1>1. x \in Y
    BY AfterItself
<1>2. ASSUME NEW y \in Y, NEW k \in 1..Len(Units(intents))
      PROVE  ExecuteUnit(y, bars0, MaxPosition, Units(intents)[k]) \in Y
    <2>1. Units(intents)[k] \in Seq(U) /\ Units(intents)[k][1] \in U
        BY UnitNonempty
    <2>2. y \in Books(O)
        BY DEF After
    <2>3. ExecuteUnit(y, bars0, MaxPosition, Units(intents)[k]) \in After(O, y, bars0)
        BY <2>1, <2>2, UnitAfter
    <2> QED BY <2>3, AfterOnward
<1>3. Units(intents) \in Seq(Seq(U))
    BY UnitsSeq
<1>4. z \in Y
    <2> HIDE DEF Y
    <2> QED BY <1>1, <1>2, <1>3, UnitsKeep
<1>5. ExecuteUnits(x, bars0, MaxPosition, intents) = [z EXCEPT !.resting = x.resting]
    BY DEF ExecuteUnits
<1> HIDE DEF z
<1> DEFINE y == [z EXCEPT !.resting = x.resting]
<1>6. z \in Books(O) /\ Fits(x, z, bars0) /\ NoNewExit(x, z)
    BY <1>4 DEF After
<1>7. y \in Books(O) /\ y.fills = z.fills /\ y.pos = z.pos /\ y.cash = z.cash
    BY <1>6 DEF Books
<1> HIDE DEF y
<1>8. \A s \in Symbols : Traded(y, s) = Traded(z, s)
    BY <1>7 DEF Traded
<1>9. Fits(x, y, bars0) /\ NoNewExit(x, y)
    BY <1>6, <1>7, <1>8 DEF Fits, Sound, Extends, Liquid, NoNewExit
<1>10. y \in After(O, x, bars0)
    BY <1>7, <1>9 DEF After
<1> QED BY <1>5, <1>10 DEF y

LEMMA ExecuteIntentsAfter ==
    ASSUME NEW O \in SUBSET Fills, NEW x \in Books(O), NEW bars0 \in Cohorts,
           NEW U, NEW intents \in Seq(U), Allowed(U, bars0, O)
    PROVE  LET r == ExecuteIntents(x, bars0, intents)
           IN  r.x \in After(O, x, bars0) /\ r.left = NoRebalance
<1> DEFINE y == IF Grouped(intents) = {}
                THEN ExecuteEach(x, bars0, MaxPosition, intents)
                ELSE ExecuteUnits(x, bars0, MaxPosition, intents)
<1>1. y \in After(O, x, bars0) /\ x \in After(O, x, bars0)
    BY EachAfter, UnitsAfter, AfterItself
<1>2. ExecuteIntents(x, bars0, intents)
         = IF PreflightFails(x.pos, bars0, intents) THEN Outcome("raise", x, NoRebalance)
           ELSE Unambiguous(x, y, bars0, intents)
    BY DEF ExecuteIntents
<1> HIDE DEF y
<1> QED BY <1>1, <1>2 DEF Unambiguous, Outcome

(***************************************************************************)
(* Protective exits.                                                       *)
(***************************************************************************)
\* O has every fill of a market order that a target or a protection places.
Neutral(O) == \A f \in Fills : (~f.limit /\ f.tif \in {"none", "protective"}) => f \in O
\* Only a symbol of D owes an exit that it did not owe before.
ExitsIn(D, x, y) == \A s \in Symbols : y.pos[s].exit => x.pos[s].exit \/ s \in D

LEMMA ProtectiveOrderType ==
    ASSUME NEW O, Neutral(O), NEW bars0, NEW s \in Symbols
    PROVE  /\ IsOrder(ProtectiveOrder(s)) /\ MayFill(ProtectiveOrder(s), bars0, O)
           /\ ProtectiveOrder(s).sym = s /\ ProtectiveOrder(s).act = "close"
<1> DEFINE i == ProtectiveOrder(s)
<1>1. /\ i.sym = s /\ i.act = "close" /\ i.qty = 0 /\ i.limit = FALSE
      /\ i.tif = "protective" /\ i.group = NoGroup /\ i.protect = {}
      /\ i.at = -1 /\ i.since = -1
    BY DEF ProtectiveOrder, Order
<1> HIDE DEF i
<1>2. IsOrder(i)
    <2>1. i.tif \in AnyTif /\ i.tif \notin Resting
        BY <1>1 DEF AnyTif, Resting
    <2>2. i.group \in GroupIds /\ i.at \in Stamps /\ i.since \in Stamps
        BY <1>1 DEF GroupIds, Stamps
    <2>3. i.limit \in BOOLEAN /\ i.act \in Actions
        BY <1>1 DEF Actions
    <2> QED BY <1>1, <2>1, <2>2, <2>3 DEF IsOrder
<1>3. \A kind \in Kinds, n \in Nat : /\ Fill(i, kind, n) \in Fills
                                     /\ ~Fill(i, kind, n).limit
                                     /\ Fill(i, kind, n).tif = "protective"
    BY <1>1, <1>2, FillType DEF Fill
<1>4. MayFill(i, bars0, O)
    BY <1>3 DEF MayFill, Neutral
<1> QED BY <1>1, <1>2, <1>4 DEF i

\* An exit that stays owed only marks the position.
LEMMA OwedExit ==
    ASSUME NEW O \in SUBSET Fills, NEW x \in Books(O), NEW bars0, NEW y \in Books(O),
           Fits(x, y, bars0), Shrinks(x, y), NoNewExit(x, y), NEW s \in Symbols,
           y.pos[s].qty # 0, NEW b \in BOOLEAN, NEW z, z = [y EXCEPT !.pos[s].exit = b]
    PROVE  z \in Books(O) /\ Fits(x, z, bars0) /\ Shrinks(x, z) /\ ExitsIn({s}, x, z)
<1> DEFINE p == [y.pos[s] EXCEPT !.exit = b]
<1>1. y.pos \in [Symbols -> Positions]
    BY DEF Books
<1>2. p \in Positions /\ p.qty = y.pos[s].qty
    BY <1>1 DEF Positions
<1>3. z = [y EXCEPT !.pos = [y.pos EXCEPT ![s] = p]]
    BY DEF Books
<1> HIDE DEF p
<1>4. /\ z \in Books(O) /\ z.fills = y.fills /\ z.cash = y.cash
      /\ z.pos = [y.pos EXCEPT ![s] = p]
    <2> DEFINE q == [y.pos EXCEPT ![s] = p]
    <2>1. q \in [Symbols -> Positions]
        BY <1>1, <1>2
    <2> HIDE DEF q
    <2>2. z = [y EXCEPT !.pos = q]
        BY <1>3 DEF q
    <2>3. z \in Books(O) /\ z.fills = y.fills /\ z.cash = y.cash /\ z.pos = q
        BY <2>1, <2>2 DEF Books
    <2> QED BY <2>3 DEF q
<1>5. \A t \in Symbols : /\ z.pos[t].qty = y.pos[t].qty
                         /\ t # s => z.pos[t] = y.pos[t]
    BY <1>1, <1>2, <1>4
<1>6. \A t \in Symbols : Traded(z, t) = Traded(y, t)
    BY <1>4 DEF Traded
<1>7. [t \in Symbols |-> Magnitude(z.pos[t].qty)] = [t \in Symbols |-> Magnitude(y.pos[t].qty)]
    BY <1>5
<1>8. Gross(z.pos) = Gross(y.pos)
    BY <1>7 DEF Gross
<1>9. Sound(y) => Sound(z)
    <2>1. \A t \in Symbols : z.pos[t].qty = 0 => t # s
        BY <1>5
    <2> QED BY <1>4, <1>5, <1>8, <2>1 DEF Sound
<1>10. Fits(x, z, bars0)
    BY <1>4, <1>6, <1>9 DEF Fits, Extends, Liquid
<1>11. Shrinks(x, z) /\ ExitsIn({s}, x, z)
    BY <1>5 DEF Shrinks, NoNewExit, ExitsIn
<1> QED BY <1>4, <1>10, <1>11

LEMMA StopFits ==
    ASSUME NEW O \in SUBSET Fills, Neutral(O), NEW x \in Books(O),
           NEW bars0 \in Cohorts, NEW s \in Symbols, s \in DOMAIN bars0
    PROVE  LET y == CheckStop(x, bars0, s)
           IN  y \in Books(O) /\ Fits(x, y, bars0) /\ Shrinks(x, y) /\ ExitsIn({s}, x, y)
<1> DEFINE i == ProtectiveOrder(s)
<1> DEFINE n == IF Priced(x.pos, bars0, i) THEN CloseQuantity(x, bars0, i) ELSE 0
<1> DEFINE closed == Reduced(x, i, n)
<1> DEFINE b == x.pos[s].exit \/ StopCrossed(x.pos[s], bars0[s])
<1> DEFINE y == CheckStop(x, bars0, s)
<1>1. IsOrder(i) /\ MayFill(i, bars0, O) /\ i.sym = s /\ i.act = "close"
    BY ProtectiveOrderType
<1>2. y = IF n = Magnitude(x.pos[s].qty) THEN closed
          ELSE [closed EXCEPT !.pos[s].exit = b]
    BY DEF CheckStop, Stopped
<1>3. b \in BOOLEAN
    BY DEF StopCrossed
<1> HIDE DEF i
<1>4. n \in Nat /\ n <= Magnitude(x.pos[s].qty) /\ (n # 0 => n <= Room(x, bars0, s))
    <2>1. /\ CloseQuantity(x, bars0, i) \in Nat
          /\ CloseQuantity(x, bars0, i) <= Magnitude(x.pos[s].qty)
          /\ CloseQuantity(x, bars0, i) <= Room(x, bars0, s)
        BY <1>1, CloseBounds
    <2>2. Magnitude(x.pos[s].qty) \in Nat
        BY SizesType DEF Books
    <2> QED BY <2>1, <2>2
<1> HIDE DEF n, b, y
<1>5. /\ closed \in Books(O) /\ Fits(x, closed, bars0) /\ NoNewExit(x, closed)
      /\ Shrinks(x, closed)
      /\ Magnitude(closed.pos[s].qty) = Magnitude(x.pos[s].qty) - n
    <2>1. CASE n = 0
        <3>1. closed = x
            BY <2>1 DEF Reduced
        <3>2. Magnitude(x.pos[s].qty) \in Nat
            BY SizesType DEF Books
        <3> HIDE DEF closed
        <3> QED BY <2>1, <3>1, <3>2, FitsItself, ShrinksItself
    <2>2. CASE n # 0
        <3>1. n \in Nat \ {0} /\ Traded(x, s) + n <= bars0[s].room
            BY <1>4, <2>2, RoomBound
        <3>2. Leaves(x, closed, bars0, i, n)
            BY <1>1, <1>4, <3>1 DEF Leaves
        <3> HIDE DEF closed
        <3> QED BY <1>1, <1>4, <3>2, LeavesFits
    <2> QED BY <2>1, <2>2
<1> HIDE DEF closed
<1>6. CASE n = Magnitude(x.pos[s].qty)
    <2>1. y = closed
        BY <1>2, <1>6
    <2>2. ExitsIn({s}, x, closed)
        BY <1>5 DEF NoNewExit, ExitsIn
    <2> QED BY <1>5, <2>1, <2>2 DEF y
<1>7. CASE n # Magnitude(x.pos[s].qty)
    <2>1. y = [closed EXCEPT !.pos[s].exit = b]
        BY <1>2, <1>7
    <2>2. closed.pos[s].qty \in Int /\ x.pos[s].qty \in Int
        BY <1>5, SizesType DEF Books
    <2>3. closed.pos[s].qty # 0
        <3>1. Magnitude(x.pos[s].qty) \in Nat
            BY <2>2, MagnitudeNat
        <3>2. Magnitude(closed.pos[s].qty) # 0
            BY <1>4, <1>5, <1>7, <3>1
        <3> QED BY <2>2, <3>2, MagnitudeNat
    <2>4. y \in Books(O) /\ Fits(x, y, bars0) /\ Shrinks(x, y) /\ ExitsIn({s}, x, y)
        BY <1>3, <1>5, <2>1, <2>3, OwedExit
    <2> QED BY <2>4 DEF y
<1> QED BY <1>6, <1>7

\* Every protection a bar triggers is executed: positions only shrink, and an
\* exit that becomes owed is one of a protected symbol.
LEMMA StopsFit ==
    ASSUME NEW O \in SUBSET Fills, Neutral(O), NEW x \in Books(O),
           NEW bars0 \in Cohorts, NEW eligible
    PROVE  LET y == CheckStops(x, bars0, eligible)
           IN  /\ y \in Books(O) /\ Fits(x, y, bars0) /\ Shrinks(x, y)
               /\ ExitsIn(Protected(x.pos, bars0, eligible), x, y)
<1> DEFINE D == Protected(x.pos, bars0, eligible)
<1> DEFINE Y == {y \in Books(O) : Fits(x, y, bars0) /\ Shrinks(x, y) /\ ExitsIn(D, x, y)}
<1>1. x \in Y
    BY FitsItself, ShrinksItself DEF ExitsIn
<1>2. \A s \in D : s \in Symbols /\ s \in DOMAIN bars0
    BY DEF Protected, Held
<1>3. ASSUME NEW y \in Y, NEW s \in D
      PROVE  CheckStop(y, bars0, s) \in Y
    <2> DEFINE z == CheckStop(y, bars0, s)
    <2>1. y \in Books(O) /\ Fits(x, y, bars0) /\ Shrinks(x, y) /\ ExitsIn(D, x, y)
        OBVIOUS
    <2> HIDE DEF D
    <2>2. z \in Books(O) /\ Fits(y, z, bars0) /\ Shrinks(y, z) /\ ExitsIn({s}, y, z)
        BY <1>2, <2>1, StopFits
    <2> HIDE DEF z
    <2>3. Fits(x, z, bars0) /\ Shrinks(x, z)
        BY <2>1, <2>2, FitsOnward, ShrinksOnward
    <2>4. ExitsIn(D, x, z)
        BY <2>1, <2>2 DEF ExitsIn
    <2> QED BY <2>2, <2>3, <2>4 DEF z
<1> HIDE DEF Y
<1>4. CheckStops(x, bars0, eligible) \in Y
    BY <1>1, <1>3, StopsKeep
<1> QED BY <1>4 DEF Y

(***************************************************************************)
(* Portfolio targets.                                                      *)
(***************************************************************************)
Residuals == [red: [Symbols -> Nat], add: [Symbols -> Int], legs: [Symbols -> Int]]
PlainOrders == {Order(s, a, n) : s \in Symbols, a \in Actions, n \in Nat}

LEMMA OrderType ==
    ASSUME NEW O, Neutral(O), NEW bars0
    PROVE  Allowed(PlainOrders, bars0, O)
<1> SUFFICES ASSUME NEW i \in PlainOrders
             PROVE  IsOrder(i) /\ MayFill(i, bars0, O)
    BY DEF Allowed
<1>0. PICK s \in Symbols, a \in Actions, n \in Nat : i = Order(s, a, n)
    BY DEF PlainOrders
<1>1. /\ i.sym = s /\ i.act = a /\ i.qty = n /\ i.limit = FALSE
      /\ i.tif = "none" /\ i.group = NoGroup /\ i.protect = {}
      /\ i.at = -1 /\ i.since = -1
    BY <1>0 DEF Order
<1>2. IsOrder(i)
    <2>1. i.tif \in AnyTif /\ i.tif \notin Resting
        BY <1>1 DEF AnyTif, Resting
    <2>2. i.group \in GroupIds /\ i.at \in Stamps /\ i.since \in Stamps
        BY <1>1 DEF GroupIds, Stamps
    <2>3. i.limit \in BOOLEAN /\ i.act \in Actions
        BY <1>1
    <2> QED BY <1>1, <2>1, <2>2, <2>3 DEF IsOrder
<1>3. \A kind \in Kinds, m \in Nat : /\ Fill(i, kind, m) \in Fills
                                     /\ ~Fill(i, kind, m).limit
                                     /\ Fill(i, kind, m).tif = "none"
    BY <1>1, <1>2, FillType DEF Fill
<1>4. MayFill(i, bars0, O)
    BY <1>3 DEF MayFill, Neutral
<1> QED BY <1>2, <1>4

LEMMA SymbolSets ==
    ASSUME NEW S \in SUBSET Symbols
    PROVE  IsFiniteSet(S)
BY BookAssumption, FS_Subset

LEMMA ReductionsSeq ==
    ASSUME NEW r, r.red \in [Symbols -> Nat], NEW syms \in SUBSET Symbols
    PROVE  Reductions(r, syms) \in Seq(PlainOrders)
<1> DEFINE order == [s \in {s \in syms : r.red[s] # 0} |-> Order(s, "close", r.red[s])]
<1>1. DOMAIN order \in SUBSET Symbols
    OBVIOUS
<1>2. \A s \in DOMAIN order : order[s] \in PlainOrders
    BY DEF PlainOrders, Actions
<1>3. IsFiniteSet(DOMAIN order)
    <2> HIDE DEF order
    <2> QED BY <1>1, SymbolSets
<1>4. Reductions(r, syms) = Orders(order)
    BY DEF Reductions
<1> HIDE DEF order
<1> QED BY <1>2, <1>3, <1>4, OrdersSeq

LEMMA AdditionsSeq ==
    ASSUME NEW add \in [Symbols -> Int], NEW syms \in SUBSET Symbols
    PROVE  Additions(add, syms) \in Seq(PlainOrders)
<1> DEFINE order == [s \in {s \in syms : add[s] # 0} |->
                        Order(s, IF add[s] > 0 THEN "long" ELSE "short", Magnitude(add[s]))]
<1>1. DOMAIN order \in SUBSET Symbols
    OBVIOUS
<1>2. \A s \in DOMAIN order : order[s] \in PlainOrders
    <2>1. ASSUME NEW s \in DOMAIN order
          PROVE  order[s] \in PlainOrders
        <3>1. s \in Symbols /\ Magnitude(add[s]) \in Nat
            BY <2>1, MagnitudeNat
        <3>2. (IF add[s] > 0 THEN "long" ELSE "short") \in Actions
            BY DEF Actions
        <3>3. order[s] = Order(s, IF add[s] > 0 THEN "long" ELSE "short", Magnitude(add[s]))
            BY <2>1
        <3> HIDE DEF order
        <3> QED BY <3>1, <3>2, <3>3 DEF PlainOrders
    <2> QED BY <2>1
<1>3. IsFiniteSet(DOMAIN order)
    <2> HIDE DEF order
    <2> QED BY <1>1, SymbolSets
<1>4. Additions(add, syms) = Orders(order)
    BY DEF Additions
<1> HIDE DEF order
<1> QED BY <1>2, <1>3, <1>4, OrdersSeq

(***************************************************************************)
(* What the cash pays for.                                                 *)
(***************************************************************************)
Factor(add, s) == IF add[s] = 0 THEN 1 ELSE Magnitude(add[s])

LEMMA StepsPositive ==
    ASSUME NEW add \in [Symbols -> Int]
    PROVE  Steps(add) \in Nat \ {0}
<1> DEFINE Y == Nat \ {0}
<1> DEFINE D == Symbols
<1> DEFINE C == [T \in SUBSET D |-> NextOf(T)]
<1> DEFINE F == [p \in D \X Y |-> p[2] * Factor(add, p[1])]
<1> DEFINE P(it) == it = [T \in SUBSET D |->
                            IF T = {} THEN 1
                            ELSE it[T \ {CHOOSE e \in T : TRUE}]
                                    * (IF add[CHOOSE e \in T : TRUE] = 0 THEN 1
                                       ELSE Magnitude(add[CHOOSE e \in T : TRUE]))]
<1>1. IsFiniteSet(D)
    BY BookAssumption
<1>2. \A T \in SUBSET D : C[T] = NextOf(T) /\ (T # {} => C[T] \in T)
    BY DEF NextOf
<1>0. \A d \in D, y \in Y : y * Factor(add, d) \in Y
    <2>1. ASSUME NEW d \in D, NEW y \in Y
          PROVE  y * Factor(add, d) \in Y
        <3>1. Factor(add, d) \in Nat \ {0}
            BY MagnitudeNat DEF Factor
        <3> DEFINE k == Factor(add, d)
        <3> HIDE DEF k
        <3>2. k \in Nat /\ k >= 1 /\ y \in Nat /\ y >= 1
            BY <3>1 DEF k
        <3>3. y * k \in Nat /\ y * k >= 1
            BY <3>2
        <3> QED BY <3>3 DEF k
    <2> QED BY <2>1
<1>3. F \in [D \X Y -> Y]
    BY <1>0
<1>4. \A d \in D, y \in Y : F[<<d, y>>] = y * Factor(add, d)
    OBVIOUS
<1>5. PICK it \in [SUBSET D -> Y] : Unfolding(it, D, C, 1, F)
    <2>1. 1 \in Y
        OBVIOUS
    <2> HIDE DEF C, F, D, Y
    <2> QED BY <1>1, <1>2, <1>3, <2>1, FoldExists
<1>6. ASSUME NEW T \in SUBSET D
      PROVE  it[T] = IF T = {} THEN 1 ELSE it[T \ {NextOf(T)}] * Factor(add, NextOf(T))
    <2>1. T # {} => NextOf(T) \in D /\ it[T \ {NextOf(T)}] \in Y
        <3> HIDE DEF D, F, Y
        <3> QED BY <1>2
    <2> HIDE DEF F, C, D, Y
    <2> QED BY <1>2, <1>4, <1>5, <2>1 DEF Unfolding
<1>7. P(it)
    <2> HIDE DEF D, Y
    <2> QED BY <1>6 DEF NextOf, Factor
<1> DEFINE sum == CHOOSE h : P(h)
<1>8. P(sum)
    <2>1. \E h : P(h)
        BY <1>7
    <2> HIDE DEF P
    <2> QED BY <2>1, Zenon
<1>9. Steps(add) = 2 * sum[D]
    BY DEF Steps, FoldSet, MapThenFoldSet
<1> HIDE DEF sum
<1>10. \A T \in SUBSET D : sum[T] = IF T = {} THEN 1
                                    ELSE sum[T \ {NextOf(T)}] * Factor(add, NextOf(T))
    <2> HIDE DEF D
    <2> QED BY <1>8 DEF NextOf, Factor
<1> DEFINE G == {T \in SUBSET D : sum[T] \in Y}
<1>11. {} \in G
    <2>1. {} \in SUBSET D /\ 1 \in Y
        OBVIOUS
    <2>2. sum[{}] = 1
        <3> HIDE DEF D, P
        <3> QED BY <1>10, <2>1
    <2> QED BY <2>1, <2>2
<1>12. ASSUME NEW T \in SUBSET D, T # {}
       PROVE  \E e \in T : T \ {e} \in G => T \in G
    <2> HIDE DEF D, Y
    <2>1. NextOf(T) \in T
        BY <1>12 DEF NextOf
    <2>2. ASSUME T \ {NextOf(T)} \in G
          PROVE  T \in G
        <3>1. sum[T] = sum[T \ {NextOf(T)}] * Factor(add, NextOf(T))
            BY <1>10, <1>12
        <3>2. NextOf(T) \in D /\ sum[T \ {NextOf(T)}] \in Y
            BY <2>1, <2>2
        <3> QED BY <1>0, <1>12, <3>1, <3>2
    <2> HIDE DEF G
    <2> QED BY <2>1, <2>2
<1>13. D \in G
    <2>1. \A T \in SUBSET D : T \in G
        <3> HIDE DEF G, D, Y
        <3> QED BY <1>1, <1>11, <1>12, SetInduction
    <2> QED BY <2>1
<1>14. sum[D] \in Nat \ {0}
    BY <1>13
<1> HIDE DEF D
<1> QED BY <1>9, <1>14

LEMMA ScaledType ==
    ASSUME NEW add \in [Symbols -> Int], NEW money \in Int
    PROVE  ScaledToCash(add, money) \in [Symbols -> Int]
<1> DEFINE steps == Steps(add)
<1> DEFINE T == {n \in 0..steps : Total(Share(add, n, steps)) <= Positive(money)}
<1> DEFINE best == Max(T)
<1>1. steps \in Nat /\ steps > 0
    BY StepsPositive
<1>2. Positive(money) >= 0
    BY DEF Positive
<1> HIDE DEF steps
<1>3. ASSUME NEW n \in 0..steps
      PROVE  Share(add, n, steps) \in [Symbols -> Int]
    <2>1. ASSUME NEW s \in Symbols
          PROVE  (Magnitude(add[s]) * n) \div steps \in Int
        <3>1. Magnitude(add[s]) \in Nat
            BY MagnitudeNat
        <3>2. Magnitude(add[s]) * n \in Int
            BY <3>1
        <3> QED BY <1>1, <3>2
    <2> QED BY <2>1 DEF Share
<1>4. \A s \in Symbols : Share(add, 0, steps)[s] = 0
    <2>1. ASSUME NEW s \in Symbols
          PROVE  (Magnitude(add[s]) * 0) \div steps = 0
        <3>1. Magnitude(add[s]) * 0 = 0
            BY MagnitudeNat
        <3> QED BY <1>1, <3>1
    <2> QED BY <2>1 DEF Share
<1>5. Total(Share(add, 0, steps)) = 0
    BY <1>1, <1>3, <1>4, BookAssumption, TotalZero
<1>6. 0 \in T /\ T \in SUBSET (0..steps)
    BY <1>1, <1>2, <1>5
<1>7. best \in 0..steps
    <2> HIDE DEF T
    <2> QED BY <1>1, <1>6, MaxOfNaturals
<1>8. ScaledToCash(add, money)
         = [s \in Symbols |-> Signed(Share(add, best, steps)[s], add[s])]
    BY DEF ScaledToCash, steps
<1> HIDE DEF best
<1>9. Share(add, best, steps) \in [Symbols -> Int]
    BY <1>3, <1>7
<1> QED BY <1>8, <1>9 DEF Signed

(***************************************************************************)
(* What is left of a target.                                               *)
(***************************************************************************)
\* left is a residual that aims only at symbols of S, or none.
LeftIn(left, S) ==
    left # NoRebalance => /\ left \in Residuals
                          /\ Targeted(left) # {} /\ Targeted(left) \subseteq S

LEMMA ReduceByNat ==
    ASSUME NEW p \in Int, NEW t \in Int
    PROVE  ReduceBy(p, t) \in Nat /\ AddBy(p, t) \in Int
<1>1. Magnitude(p) \in Nat /\ Magnitude(t) \in Nat
    BY MagnitudeNat
<1>2. ReduceBy(p, t) \in Nat
    BY <1>1 DEF ReduceBy, Positive
<1>3. AddBy(p, t) \in Int
    BY <1>1 DEF AddBy, Signed, Positive
<1> QED BY <1>2, <1>3

LEMMA RemainingLeft ==
    ASSUME NEW r \in Residuals, NEW S, Targeted(r) \subseteq S
    PROVE  LeftIn(Remaining(r), S)
BY DEF Remaining, LeftIn

LEMMA WithoutLeft ==
    ASSUME NEW r \in Residuals, NEW gone
    PROVE  LeftIn(Without(r, gone), Targeted(r) \ gone)
<1> DEFINE q == [red |-> [s \in Symbols |-> IF s \in gone THEN 0 ELSE r.red[s]],
                 add |-> [s \in Symbols |-> IF s \in gone THEN 0 ELSE r.add[s]],
                 legs |-> [s \in Symbols |-> IF s \in gone THEN 0 ELSE r.legs[s]]]
<1>1. Without(r, gone) = Remaining(q)
    BY DEF Without
<1>2. q \in Residuals
    BY DEF Residuals
<1>3. Targeted(q) \subseteq Targeted(r) \ gone
    BY DEF Targeted
<1> HIDE DEF q
<1> QED BY <1>1, <1>2, <1>3, RemainingLeft

LEMMA PlanType ==
    ASSUME NEW p \in [Symbols -> Positions], NEW bars0, NEW target \in [Symbols -> Int]
    PROVE  Plan(p, bars0, target) \in Residuals
<1>1. \A s \in Symbols : /\ ReduceBy(p[s].qty, target[s]) \in Nat
                         /\ AddBy(p[s].qty, target[s]) \in Int
    BY SizesType, ReduceByNat
<1> DEFINE sized(s) == s \in DOMAIN bars0 \/ target[s] = 0
<1>2. /\ [s \in Symbols |-> IF sized(s) THEN ReduceBy(p[s].qty, target[s]) ELSE 0]
             \in [Symbols -> Nat]
      /\ [s \in Symbols |-> IF sized(s) THEN AddBy(p[s].qty, target[s]) ELSE 0]
             \in [Symbols -> Int]
      /\ [s \in Symbols |-> IF sized(s) THEN 0 ELSE target[s]] \in [Symbols -> Int]
    BY <1>1
<1> QED BY <1>2 DEF Plan, Residuals

LEMMA ResolvedType ==
    ASSUME NEW p \in [Symbols -> Positions], NEW bars0, NEW r \in Residuals
    PROVE  /\ Resolved(r, p, bars0) \in Residuals
           /\ Targeted(Resolved(r, p, bars0)) \subseteq Targeted(r)
<1> DEFINE due0(s) == r.legs[s] # 0 /\ s \in DOMAIN bars0
<1> DEFINE red0(s) == IF due0(s) THEN ReduceBy(p[s].qty, r.legs[s]) ELSE r.red[s]
<1> DEFINE q == Resolved(r, p, bars0)
<1>1. q = [red |-> [s \in Symbols |-> Lesser(red0(s), Magnitude(p[s].qty))],
           add |-> [s \in Symbols |-> IF due0(s) THEN AddBy(p[s].qty, r.legs[s]) ELSE r.add[s]],
           legs |-> [s \in Symbols |-> IF due0(s) THEN 0 ELSE r.legs[s]]]
    BY DEF Resolved
<1> HIDE DEF q
<1>2. /\ r.red \in [Symbols -> Nat] /\ r.add \in [Symbols -> Int]
      /\ r.legs \in [Symbols -> Int]
    BY DEF Residuals
<1>3. ASSUME NEW s \in Symbols
      PROVE  /\ ReduceBy(p[s].qty, r.legs[s]) \in Nat /\ AddBy(p[s].qty, r.legs[s]) \in Int
             /\ red0(s) \in Nat /\ Magnitude(p[s].qty) \in Nat
    <2>1. p[s].qty \in Int /\ r.legs[s] \in Int
        BY <1>2, SizesType
    <2> QED BY <1>2, <2>1, ReduceByNat, MagnitudeNat
<1>4. q.red \in [Symbols -> Nat]
    BY <1>1, <1>3 DEF Lesser
<1>5. q.add \in [Symbols -> Int] /\ q.legs \in [Symbols -> Int]
    BY <1>1, <1>2, <1>3
<1>6. q \in Residuals
    BY <1>1, <1>4, <1>5 DEF Residuals
<1>7. ASSUME NEW s \in Targeted(q)
      PROVE  s \in Targeted(r)
    <2>1. s \in Symbols /\ (q.red[s] # 0 \/ q.add[s] # 0 \/ q.legs[s] # 0)
        BY DEF Targeted
    <2>2. CASE due0(s)
        BY <2>1, <2>2 DEF Targeted
    <2>3. CASE ~due0(s)
        <3>1. q.add[s] = r.add[s] /\ q.legs[s] = r.legs[s]
              /\ q.red[s] = Lesser(r.red[s], Magnitude(p[s].qty))
            BY <1>1, <2>1, <2>3
        <3>2. r.red[s] = 0 => q.red[s] = 0
            BY <1>3, <2>1, <3>1 DEF Lesser
        <3> QED BY <2>1, <3>1, <3>2 DEF Targeted
    <2> QED BY <2>2, <2>3
<1> QED BY <1>6, <1>7 DEF q

LEMMA FilledNat ==
    ASSUME NEW O \in SUBSET Fills, NEW x \in Books(O), NEW y \in Books(O),
           NEW s, NEW kinds
    PROVE  FilledOf(x, y, s, kinds) \in Nat
<1>1. x.fills \in Seq(O) /\ y.fills \in Seq(O) /\ \A f \in O : f.qty \in Nat
    BY DEF Books, Fills
<1>2. NewFills(x, y) \in Seq(O)
    BY <1>1, NewFillsSeq
<1> QED BY <1>1, <1>2, FilledFold

(***************************************************************************)
(* A target executes.                                                      *)
(***************************************************************************)
Result(O, x, bars0, S, r) == r.x \in After(O, x, bars0) /\ LeftIn(r.left, S)

LEMMA PlanFits ==
    ASSUME NEW O \in SUBSET Fills, Neutral(O), NEW x \in Books(O),
           NEW bars0 \in Cohorts, NEW r \in Residuals
    PROVE  Result(O, x, bars0, {}, ExecutePlan(x, bars0, r))
<1> DEFINE y == ExecuteEach(x, bars0, MaxPosition, Reductions(r, Symbols))
<1> DEFINE z == ExecuteEach(y, bars0, MaxPosition,
                            Additions(ScaledToCash(r.add, y.cash), Symbols))
<1> DEFINE q == ExecutePlan(x, bars0, r)
<1>1. r.red \in [Symbols -> Nat] /\ r.add \in [Symbols -> Int]
    BY DEF Residuals
<1>2. Allowed(PlainOrders, bars0, O)
    BY OrderType
<1>3. Reductions(r, Symbols) \in Seq(PlainOrders)
    BY <1>1, ReductionsSeq
<1>4. y \in After(O, x, bars0)
    BY <1>2, <1>3, EachAfter
<1> HIDE DEF y
<1>5. y \in Books(O) /\ y.cash \in Int
    BY <1>4 DEF After, Books
<1>6. Additions(ScaledToCash(r.add, y.cash), Symbols) \in Seq(PlainOrders)
    <2>1. ScaledToCash(r.add, y.cash) \in [Symbols -> Int]
        BY <1>1, <1>5, ScaledType
    <2> QED BY <2>1, AdditionsSeq
<1>7. z \in After(O, y, bars0)
    BY <1>2, <1>5, <1>6, EachAfter
<1>8. z \in After(O, x, bars0)
    <2> HIDE DEF z
    <2> QED BY <1>4, <1>7, AfterOnward
<1>9. x \in After(O, x, bars0)
    BY AfterItself
<1>10. q.x \in {x, z} /\ q.left = NoRebalance
    BY DEF ExecutePlan, AddWhole, Outcome, y
<1> HIDE DEF q, z
<1>11. Result(O, x, bars0, {}, q)
    BY <1>8, <1>9, <1>10 DEF Result, LeftIn
<1> QED BY <1>11 DEF q

LEMMA AddSliceFits ==
    ASSUME NEW O \in SUBSET Fills, Neutral(O), NEW y \in Books(O),
           NEW bars0 \in Cohorts, NEW r \in Residuals, NEW ripe \in SUBSET Symbols,
           \A s \in ripe : r.add[s] # 0,
           NEW wanted \in [Symbols -> Int], NEW scaled \in [Symbols -> Int]
    PROVE  Result(O, y, bars0, Targeted(r), AddSlice(y, bars0, r, ripe, wanted, scaled))
<1> DEFINE funding == \/ \E s \in Symbols : r.red[s] # 0
                      \/ \E s \in Held(y.pos) : r.legs[s] # 0
<1> DEFINE want == [s \in Symbols |-> IF s \notin ripe THEN r.add[s]
                                      ELSE IF funding THEN wanted[s]
                                      ELSE scaled[s]]
<1> DEFINE z == ExecuteEach(y, bars0, MaxPosition, Additions(scaled, ripe))
<1> DEFINE left == [r EXCEPT !.add = [s \in Symbols |->
                       Signed(Positive(Magnitude(want[s]) - FilledOf(y, z, s, {"open", "add"})),
                              want[s])]]
<1> DEFINE q == AddSlice(y, bars0, r, ripe, wanted, scaled)
<1>0. /\ r.red \in [Symbols -> Nat] /\ r.add \in [Symbols -> Int]
      /\ r.legs \in [Symbols -> Int]
    BY DEF Residuals
<1>1. z \in After(O, y, bars0)
    BY OrderType, AdditionsSeq, EachAfter
<1>2. q = Outcome("ok", z, Remaining(left))
    BY DEF AddSlice, AfterAdditions
<1>3. want \in [Symbols -> Int] /\ \A s \in Symbols : s \notin ripe => want[s] = r.add[s]
    <2> HIDE DEF funding
    <2> QED BY <1>0
<1> HIDE DEF z, q, want
<1>4. ASSUME NEW s \in Symbols
      PROVE  /\ FilledOf(y, z, s, {"open", "add"}) \in Nat
             /\ Magnitude(want[s]) \in Nat /\ (want[s] = 0 <=> Magnitude(want[s]) = 0)
    <2>1. z \in Books(O)
        BY <1>1 DEF After
    <2> QED BY <1>3, <2>1, FilledNat, MagnitudeNat
<1> DEFINE add0 == [s \in Symbols |->
                       Signed(Positive(Magnitude(want[s]) - FilledOf(y, z, s, {"open", "add"})),
                              want[s])]
<1>5. /\ add0 \in [Symbols -> Int]
      /\ \A s \in Symbols : add0[s] # 0 => want[s] # 0
    <2>1. ASSUME NEW n \in Nat, NEW w \in Int, NEW m \in Nat, w = 0 => m = 0
          PROVE  /\ Signed(Positive(m - n), w) \in Int
                 /\ w = 0 => Signed(Positive(m - n), w) = 0
        <3>1. Positive(m - n) \in Nat /\ (m = 0 => Positive(m - n) = 0)
            BY DEF Positive
        <3> DEFINE k == Positive(m - n)
        <3> HIDE DEF k
        <3>2. k \in Nat /\ (m = 0 => k = 0)
            BY <3>1 DEF k
        <3>3. Signed(k, w) \in Int /\ (w = 0 => Signed(k, w) = 0)
            BY <2>1, <3>2 DEF Signed
        <3> QED BY <3>3 DEF k
    <2>2. ASSUME NEW s \in Symbols
          PROVE  add0[s] \in Int /\ (add0[s] # 0 => want[s] # 0)
        BY <1>3, <1>4, <2>1
    <2>3. add0 = [s \in Symbols |-> add0[s]]
        OBVIOUS
    <2> HIDE DEF add0
    <2> QED BY <2>2, <2>3
<1>6. left = [r EXCEPT !.add = add0]
    OBVIOUS
<1> HIDE DEF left, add0
<1>7. /\ left \in Residuals /\ left.red = r.red /\ left.legs = r.legs
      /\ left.add = add0
    BY <1>0, <1>5, <1>6 DEF Residuals
<1>8. Targeted(left) \subseteq Targeted(r)
    BY <1>3, <1>5, <1>7 DEF Targeted
<1>9. LeftIn(Remaining(left), Targeted(r))
    BY <1>7, <1>8, RemainingLeft
<1>10. Result(O, y, bars0, Targeted(r), q)
    BY <1>1, <1>2, <1>9 DEF Result, Outcome
<1> QED BY <1>10 DEF q

LEMMA AfterReductionsFits ==
    ASSUME NEW O \in SUBSET Fills, Neutral(O), NEW y \in Books(O),
           NEW bars0 \in Cohorts, NEW r \in Residuals, NEW open \in SUBSET Symbols,
           NEW rule
    PROVE  Result(O, y, bars0, Targeted(r), AfterReductions(y, bars0, r, open, rule))
<1> DEFINE ripe == {s \in open : r.add[s] # 0 /\ r.red[s] = 0}
<1> DEFINE headroom(s) == Headroom(y, s, MaxPosition)
<1> DEFINE limited == \E s \in ripe : Magnitude(r.add[s]) > headroom(s)
<1> DEFINE wanted == [s \in Symbols |-> IF s \notin ripe THEN 0
                         ELSE Signed(Lesser(headroom(s), Magnitude(r.add[s])), r.add[s])]
<1> DEFINE q == AfterReductions(y, bars0, r, open, rule)
<1>1. q = IF rule = "fail" /\ limited THEN Outcome("raise", y, NoRebalance)
          ELSE AddSlice(y, bars0, r, ripe, wanted, ScaledToCash(wanted, y.cash))
    BY DEF AfterReductions
<1>2. wanted \in [Symbols -> Int]
    <2>1. ASSUME NEW s \in Symbols
          PROVE  Signed(Lesser(headroom(s), Magnitude(r.add[s])), r.add[s]) \in Int
        <3>1. r.add[s] \in Int /\ y.pos[s].qty \in Int
            BY SizesType DEF Residuals, Books
        <3>2. Magnitude(r.add[s]) \in Nat /\ Magnitude(y.pos[s].qty) \in Nat
            BY <3>1, MagnitudeNat
        <3>3. headroom(s) \in Nat
            BY <3>2, BookAssumption DEF Headroom, Positive
        <3> HIDE DEF headroom
        <3>4. Lesser(headroom(s), Magnitude(r.add[s])) \in Nat
            BY <3>2, <3>3 DEF Lesser
        <3> QED BY <3>4 DEF Signed
    <2> HIDE DEF ripe, headroom
    <2> QED BY <2>1
<1>3. y.cash \in Int
    BY DEF Books
<1>4. ScaledToCash(wanted, y.cash) \in [Symbols -> Int]
    <2> HIDE DEF wanted
    <2> QED BY <1>2, <1>3, ScaledType
<1>5. ripe \in SUBSET Symbols /\ \A s \in ripe : r.add[s] # 0
    OBVIOUS
<1> HIDE DEF q, ripe, wanted, limited
<1>6. Result(O, y, bars0, Targeted(r),
             AddSlice(y, bars0, r, ripe, wanted, ScaledToCash(wanted, y.cash)))
    BY <1>2, <1>4, <1>5, AddSliceFits
<1>7. Result(O, y, bars0, Targeted(r), Outcome("raise", y, NoRebalance))
    BY AfterItself DEF Result, LeftIn, Outcome
<1>8. Result(O, y, bars0, Targeted(r), q)
    BY <1>1, <1>6, <1>7
<1> QED BY <1>8 DEF q

LEMMA ResultOnward ==
    ASSUME NEW O, NEW x \in Books(O), NEW bars0, NEW y \in After(O, x, bars0),
           NEW S, NEW T, S \subseteq T, NEW r, Result(O, y, bars0, S, r)
    PROVE  Result(O, x, bars0, T, r)
<1>1. r.x \in After(O, x, bars0)
    BY AfterOnward DEF Result
<1>2. LeftIn(r.left, T)
    BY DEF Result, LeftIn
<1> QED BY <1>1, <1>2 DEF Result

LEMMA ReduceSliceFits ==
    ASSUME NEW O \in SUBSET Fills, Neutral(O), NEW x \in Books(O),
           NEW bars0 \in Cohorts, NEW y \in After(O, x, bars0), NEW r \in Residuals,
           NEW open \in SUBSET Symbols, NEW rule
    PROVE  Result(O, x, bars0, Targeted(r), ReduceSlice(x, y, bars0, r, open, rule))
<1> DEFINE red0 == [s \in Symbols |->
                       Positive(r.red[s] - FilledOf(x, y, s, {"reduce", "close"}))]
<1> DEFINE left == [r EXCEPT !.red = red0]
<1>1. y \in Books(O)
    BY DEF After
<1>2. r.red \in [Symbols -> Nat]
    BY DEF Residuals
<1>3. ASSUME NEW s \in Symbols
      PROVE  red0[s] \in Nat /\ (r.red[s] = 0 => red0[s] = 0)
    <2>1. FilledOf(x, y, s, {"reduce", "close"}) \in Nat /\ r.red[s] \in Nat
        BY <1>1, <1>2, FilledNat
    <2> DEFINE n == FilledOf(x, y, s, {"reduce", "close"})
    <2>2. red0[s] = Positive(r.red[s] - n)
        OBVIOUS
    <2> HIDE DEF n, red0
    <2>3. n \in Nat
        BY <2>1 DEF n
    <2> QED BY <2>1, <2>2, <2>3 DEF Positive
<1>4. red0 = [s \in Symbols |-> red0[s]]
    OBVIOUS
<1>5. ReduceSlice(x, y, bars0, r, open, rule) = AfterReductions(y, bars0, left, open, rule)
    BY DEF ReduceSlice
<1> HIDE DEF red0
<1>6. red0 \in [Symbols -> Nat]
    BY <1>3, <1>4
<1>7. /\ left \in Residuals /\ left.red = red0 /\ left.add = r.add /\ left.legs = r.legs
    BY <1>6 DEF Residuals
<1> HIDE DEF left
<1>8. Targeted(left) \subseteq Targeted(r)
    BY <1>3, <1>7 DEF Targeted
<1>9. Result(O, y, bars0, Targeted(left), AfterReductions(y, bars0, left, open, rule))
    BY <1>1, <1>7, AfterReductionsFits
<1> QED BY <1>5, <1>8, <1>9, ResultOnward

\* What a bar leaves of a residual aims at nothing the residual did not, and at
\* no symbol that owed an exit before.
LEMMA SliceFits ==
    ASSUME NEW O \in SUBSET Fills, Neutral(O), NEW x \in Books(O),
           NEW bars0 \in Cohorts, NEW state \in Residuals, NEW rule
    PROVE  Result(O, x, bars0, {s \in Targeted(state) : ~x.pos[s].exit},
                  ExecuteSlice(x, bars0, state, rule))
<1> DEFINE exits == {s \in Symbols : x.pos[s].exit}
<1> DEFINE S == {s \in Targeted(state) : ~x.pos[s].exit}
<1> DEFINE rest == Without(state, exits)
<1> DEFINE q == ExecuteSlice(x, bars0, state, rule)
<1>1. LeftIn(rest, S)
    <2>1. LeftIn(rest, Targeted(state) \ exits)
        BY WithoutLeft
    <2>2. Targeted(state) \ exits \subseteq S
        BY DEF Targeted
    <2> HIDE DEF rest, S, exits
    <2> QED BY <2>1, <2>2 DEF LeftIn
<1>2. q = IF rule = "fail" /\ Targeted(state) \cap exits # {}
          THEN Outcome("raise", x, NoRebalance)
          ELSE IF rest = NoRebalance THEN Outcome("ok", x, NoRebalance)
          ELSE ResolvedSlice(x, bars0, Resolved(rest, x.pos, bars0), rule)
    BY DEF ExecuteSlice
<1> HIDE DEF q, rest, S, exits
<1>3. \A out : Result(O, x, bars0, S, Outcome(out, x, NoRebalance))
    BY AfterItself DEF Result, LeftIn, Outcome
<1>4. ASSUME rest # NoRebalance
      PROVE  Result(O, x, bars0, S, q)
    <2> DEFINE r == Resolved(rest, x.pos, bars0)
    <2> DEFINE blocked == Blocked(r, x, bars0)
    <2> DEFINE open == Symbols \ blocked
    <2> DEFINE y == ExecuteEach(x, bars0, MaxPosition, Reductions(r, open))
    <2> DEFINE z == ReduceSlice(x, y, bars0, r, open, rule)
    <2>1. r \in Residuals /\ Targeted(r) \subseteq S
        <3>1. rest \in Residuals /\ Targeted(rest) \subseteq S
            BY <1>1, <1>4 DEF LeftIn
        <3>2. x.pos \in [Symbols -> Positions]
            BY DEF Books
        <3> QED BY <3>1, <3>2, ResolvedType
    <2>2. ResolvedSlice(x, bars0, r, rule)
             = IF rule = "defer_all" /\ blocked # {} THEN Outcome("ok", x, Remaining(r))
               ELSE Accepted(x, z, rule)
        BY DEF ResolvedSlice, SliceOf
    <2>3. open \in SUBSET Symbols
        OBVIOUS
    <2> HIDE DEF r, blocked, open
    <2>4. y \in After(O, x, bars0)
        <3>1. r.red \in [Symbols -> Nat]
            BY <2>1 DEF Residuals
        <3> QED BY <2>3, <3>1, OrderType, ReductionsSeq, EachAfter
    <2> HIDE DEF y
    <2>5. Result(O, x, bars0, Targeted(r), z)
        BY <2>1, <2>3, <2>4, ReduceSliceFits
    <2> HIDE DEF z
    <2>6. Result(O, x, bars0, S, z)
        BY <2>1, <2>5, AfterItself, ResultOnward
    <2>7. Accepted(x, z, rule) \in {z, Outcome("raise", x, NoRebalance)}
        BY DEF Accepted
    <2>8. Result(O, x, bars0, S, Outcome("ok", x, Remaining(r)))
        BY <2>1, AfterItself, RemainingLeft DEF Result, Outcome
    <2>9. q = ResolvedSlice(x, bars0, r, rule) \/ q = Outcome("raise", x, NoRebalance)
        BY <1>2, <1>4 DEF r
    <2> QED BY <1>3, <2>2, <2>6, <2>7, <2>8, <2>9
<1>5. ASSUME rest = NoRebalance
      PROVE  Result(O, x, bars0, S, q)
    BY <1>2, <1>3, <1>5
<1>6. Result(O, x, bars0, S, q)
    BY <1>4, <1>5
<1> QED BY <1>6 DEF q, S

(***************************************************************************)
(* A bar.                                                                  *)
(***************************************************************************)
\* No step passes the gross limit, or makes a passed one worse.
Bounded(x, y) == Gross(y.pos) <= MaxGross \/ Gross(y.pos) <= Gross(x.pos)
\* What is left of a target owns none of the symbols that owe an exit.
Free(left, p) == \A s \in Targeted(left) : ~p[s].exit
BarResult(O, x, bars0, r) ==
    r.out = "ok" =>
        /\ r.x \in Books(O) /\ Fits(x, r.x, bars0) /\ Bounded(x, r.x)
        /\ r.left # NoRebalance => /\ r.left \in Residuals
                                   /\ Targeted(r.left) # {} /\ Free(r.left, r.x.pos)

LEMMA ShrunkGross ==
    ASSUME NEW O, NEW x \in Books(O), NEW y \in Books(O), Shrinks(x, y)
    PROVE  Gross(y.pos) <= Gross(x.pos) /\ Gross(y.pos) \in Int /\ Gross(x.pos) \in Int
<1>1. x.pos \in [Symbols -> Positions] /\ y.pos \in [Symbols -> Positions]
    BY DEF Books
<1> QED BY <1>1, GrossShrinks, GrossInt DEF Shrinks

LEMMA BarFits ==
    ASSUME NEW O \in SUBSET Fills, Neutral(O), NEW x \in Books(O),
           NEW bars0 \in Cohorts, NEW S, \A s \in S : ~x.pos[s].exit,
           NEW q, Result(O, x, bars0, S, q), NEW eligible, NEW added
    PROVE  BarResult(O, x, bars0, AfterStops(WithinLimits(x, q), bars0, eligible, added))
<1> DEFINE E == eligible \union added
<1> DEFINE y == CheckStops(q.x, bars0, E)
<1> DEFINE D == Protected(q.x.pos, bars0, E)
<1> DEFINE left == IF q.left = NoRebalance THEN NoRebalance ELSE Without(q.left, D)
<1> DEFINE w == WithinLimits(x, q)
<1> DEFINE r == AfterStops(w, bars0, eligible, added)
<1>1. /\ q.x \in Books(O) /\ Fits(x, q.x, bars0) /\ NoNewExit(x, q.x)
      /\ LeftIn(q.left, S)
    BY DEF Result, After
<1>2. w = IF q.out = "ok" /\ Overexposed(x.pos, q.x.pos)
          THEN Outcome("raise", x, NoRebalance) ELSE q
    BY DEF WithinLimits
<1>3. r = IF w.out # "ok" THEN w
          ELSE Outcome("ok", CheckStops(w.x, bars0, E),
                       IF w.left = NoRebalance THEN NoRebalance
                       ELSE Without(w.left, Protected(w.x.pos, bars0, E)))
    BY DEF AfterStops
<1> HIDE DEF w, E
<1>4. CASE q.out = "ok" /\ ~Overexposed(x.pos, q.x.pos)
    <2>1. r = Outcome("ok", y, left)
        BY <1>2, <1>3, <1>4
    <2> HIDE DEF r
    <2>2. y \in Books(O) /\ Fits(q.x, y, bars0) /\ Shrinks(q.x, y) /\ ExitsIn(D, q.x, y)
        BY <1>1, StopsFit
    <2> HIDE DEF y, D
    <2>3. Fits(x, y, bars0)
        BY <1>1, <2>2, FitsOnward
    <2>4. Bounded(x, y)
        <3>1. /\ Gross(y.pos) <= Gross(q.x.pos) /\ Gross(y.pos) \in Int
              /\ Gross(q.x.pos) \in Int
            BY <1>1, <2>2, ShrunkGross
        <3>2. Gross(x.pos) \in Int
            BY GrossInt DEF Books
        <3>3. Gross(q.x.pos) <= MaxGross \/ Gross(q.x.pos) <= Gross(x.pos)
            BY <1>4, <3>1, <3>2, BookAssumption DEF Overexposed
        <3> QED BY <3>1, <3>2, <3>3, BookAssumption DEF Bounded
    <2>5. ASSUME left # NoRebalance
          PROVE  left \in Residuals /\ Targeted(left) # {} /\ Free(left, y.pos)
        <3>1. /\ q.left # NoRebalance /\ q.left \in Residuals
              /\ Targeted(q.left) \subseteq S
              /\ left = Without(q.left, D)
            BY <1>1, <2>5 DEF LeftIn
        <3> HIDE DEF left
        <3>2. LeftIn(left, Targeted(q.left) \ D)
            BY <3>1, WithoutLeft
        <3>3. left \in Residuals /\ Targeted(left) # {}
              /\ Targeted(left) \subseteq Targeted(q.left) \ D
            BY <2>5, <3>2 DEF LeftIn
        <3>4. ASSUME NEW s \in Targeted(left)
              PROVE  ~y.pos[s].exit
            <4>1. s \in Symbols /\ s \in S /\ s \notin D
                BY <3>1, <3>3 DEF Targeted
            <4> QED BY <1>1, <2>2, <4>1 DEF ExitsIn, NoNewExit
        <3> QED BY <3>3, <3>4 DEF Free
    <2>6. BarResult(O, x, bars0, r)
        <3>1. r.x = y /\ r.left = left
            BY <2>1 DEF Outcome
        <3> HIDE DEF left
        <3> QED BY <2>2, <2>3, <2>4, <2>5, <3>1 DEF BarResult
    <2> QED BY <2>6 DEF r, w, E
<1>5. CASE ~(q.out = "ok" /\ ~Overexposed(x.pos, q.x.pos))
    <2>1. w.out # "ok"
        BY <1>2, <1>5 DEF Outcome
    <2>2. r.out # "ok"
        BY <1>3, <2>1
    <2> HIDE DEF r
    <2>3. BarResult(O, x, bars0, r)
        BY <2>2 DEF BarResult
    <2> QED BY <2>3 DEF r, w, E
<1> QED BY <1>4, <1>5

LEMMA BarOfIntents ==
    ASSUME NEW O \in SUBSET Fills, Neutral(O), NEW x \in Books(O),
           NEW bars0 \in Cohorts, NEW U, NEW intents \in Seq(U), Allowed(U, bars0, O),
           NEW eligible
    PROVE  BarResult(O, x, bars0, ExecuteBarOfIntents(x, bars0, intents, eligible))
<1> DEFINE q == ExecuteIntents(x, bars0, intents)
<1>1. Result(O, x, bars0, {}, q)
    BY ExecuteIntentsAfter DEF Result, LeftIn
<1>2. ExecuteBarOfIntents(x, bars0, intents, eligible)
         = AfterStops(WithinLimits(x, q), bars0, Held(x.pos) \cap eligible,
                      FilledAtOpen(intents, x.pos, bars0))
    BY DEF ExecuteBarOfIntents
<1> HIDE DEF q
<1> QED BY <1>1, <1>2, BarFits

LEMMA BarOfTarget ==
    ASSUME NEW O \in SUBSET Fills, Neutral(O), NEW x \in Books(O),
           NEW bars0 \in Cohorts, NEW target \in [Symbols -> Int], NEW rule, NEW eligible
    PROVE  BarResult(O, x, bars0, ExecuteBarOfTarget(x, bars0, target, rule, eligible))
<1> DEFINE state == Plan(x.pos, bars0, target)
<1> DEFINE q == IF rule = "discard" THEN ExecuteWhole(x, bars0, target)
                ELSE ExecuteSlice(x, bars0, state, rule)
<1> DEFINE S == {s \in Targeted(state) : ~x.pos[s].exit}
<1>1. state \in Residuals
    BY PlanType DEF Books
<1>2. ExecuteWhole(x, bars0, target) = ExecutePlan(x, bars0, state)
    BY DEF ExecuteWhole
<1> HIDE DEF state
<1>3. Result(O, x, bars0, {}, ExecutePlan(x, bars0, state))
    BY <1>1, PlanFits
<1>4. Result(O, x, bars0, S, ExecutePlan(x, bars0, state))
    BY <1>3, AfterItself, ResultOnward
<1>5. Result(O, x, bars0, S, ExecuteSlice(x, bars0, state, rule))
    BY <1>1, SliceFits
<1>6. Result(O, x, bars0, S, q)
    BY <1>2, <1>4, <1>5
<1>7. ExecuteBarOfTarget(x, bars0, target, rule, eligible)
         = AfterStops(WithinLimits(x, q), bars0, Held(x.pos) \cap eligible,
                      {s \in Symbols : target[s] # 0})
    BY DEF ExecuteBarOfTarget, state
<1> HIDE DEF q
<1> QED BY <1>6, <1>7, BarFits

LEMMA BarOfResidual ==
    ASSUME NEW O \in SUBSET Fills, Neutral(O), NEW x \in Books(O),
           NEW bars0 \in Cohorts, NEW state \in Residuals, NEW rule, NEW eligible
    PROVE  BarResult(O, x, bars0, ExecuteBarOfResidual(x, bars0, state, rule, eligible))
<1> DEFINE q == ExecuteSlice(x, bars0, state, rule)
<1> DEFINE S == {s \in Targeted(state) : ~x.pos[s].exit}
<1>1. Result(O, x, bars0, S, q)
    BY SliceFits
<1>2. ExecuteBarOfResidual(x, bars0, state, rule, eligible)
         = AfterStops(WithinLimits(x, q), bars0, Held(x.pos) \cap eligible,
                      {s \in Symbols : state.add[s] # 0})
    BY DEF ExecuteBarOfResidual
<1> HIDE DEF q
<1> QED BY <1>1, <1>2, BarFits

\* The end of the run only closes.
LEMMA LiquidateFits ==
    ASSUME NEW O \in SUBSET Fills,
           \A f \in Fills : (~f.limit /\ f.tif = "force_close") => f \in O,
           NEW x \in Books(O), NEW bars0 \in Cohorts
    PROVE  LiquidateAll(x, bars0) \in After(O, x, bars0)
           /\ Shrinks(x, LiquidateAll(x, bars0))
<1> DEFINE Closing(s) == [Order(s, "close", 0) EXCEPT !.tif = "force_close"]
<1> DEFINE D == Held(x.pos) \cap DOMAIN bars0
<1> DEFINE order == [s \in D |-> Closing(s)]
<1> DEFINE U == {Closing(s) : s \in Symbols}
<1>1. ASSUME NEW s \in Symbols
      PROVE  /\ IsOrder(Closing(s)) /\ Closing(s).act = "close"
             /\ MayFill(Closing(s), bars0, O)
    <2> DEFINE i == Closing(s)
    <2>1. /\ i.sym = s /\ i.act = "close" /\ i.qty = 0 /\ i.limit = FALSE
          /\ i.tif = "force_close" /\ i.group = NoGroup /\ i.protect = {}
          /\ i.at = -1 /\ i.since = -1
        BY DEF Order
    <2> HIDE DEF Closing
    <2>2. i.tif \in AnyTif /\ i.tif \notin Resting
        BY <2>1 DEF AnyTif, Resting
    <2>3. i.group \in GroupIds /\ i.at \in Stamps /\ i.since \in Stamps
        BY <2>1 DEF GroupIds, Stamps
    <2>4. i.limit \in BOOLEAN /\ i.act \in Actions
        BY <2>1 DEF Actions
    <2>5. IsOrder(i)
        BY <2>1, <2>2, <2>3, <2>4 DEF IsOrder
    <2>6. \A kind \in Kinds, n \in Nat : /\ Fill(i, kind, n) \in Fills
                                         /\ ~Fill(i, kind, n).limit
                                         /\ Fill(i, kind, n).tif = "force_close"
        BY <2>1, <2>5, FillType DEF Fill
    <2>7. MayFill(i, bars0, O)
        BY <2>6 DEF MayFill
    <2> QED BY <2>1, <2>5, <2>7
<1>2. Allowed(U, bars0, O) /\ \A i \in U : i.act = "close"
    <2> HIDE DEF Closing
    <2> QED BY <1>1 DEF Allowed
<1>3. Orders(order) \in Seq(U)
    <2>1. DOMAIN order = D /\ D \in SUBSET Symbols
        BY DEF Held
    <2>2. IsFiniteSet(D)
        BY <2>1, SymbolSets
    <2>3. \A d \in DOMAIN order : order[d] \in U
        <3> HIDE DEF Closing
        <3> QED BY <2>1
    <2> HIDE DEF order, U, D
    <2> QED BY <2>1, <2>2, <2>3, OrdersSeq
<1>4. LiquidateAll(x, bars0) = ExecuteEach(x, bars0, MaxPosition, Orders(order))
    BY DEF LiquidateAll
<1> HIDE DEF order, U, Closing
<1> QED BY <1>2, <1>3, <1>4, EachAfter, ClosesShrink
=============================================================================
