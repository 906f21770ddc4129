-------------------------- MODULE ShadowRunProofs --------------------------
(***************************************************************************)
(* Proofs about the history a simulated run decides on: for every set of   *)
(* symbols, every warm-up, ladder of requests and tolerance, and every feed*)
(* the window of a decision has no missing bar.                            *)
(***************************************************************************)
EXTENDS SimulatedRuns, SimulatedBookProofs

(***************************************************************************)
(* Sets of bars.                                                           *)
(***************************************************************************)
\* No bar is missing between two of S.
Solid(S) == \A a, c \in S : \A b \in a..c : b \in S
\* The bars of S up to m, the last one decided.
Upto(S, m) == {b \in S : b <= m}
\* From any bar of S on everything up to r is there.
TailTo(S, r) == \A b \in S : b <= r /\ b..r \subseteq S

LEMMA PowerOfTwo ==
    ASSUME NEW k \in Nat
    PROVE  2^k \in Nat /\ 2^k >= 1
<1>1. IsFiniteSet(1..k) /\ Cardinality(1..k) = k
    BY FS_Interval
<1>2. IsFiniteSet(SUBSET (1..k)) /\ Cardinality(SUBSET (1..k)) = 2^Cardinality(1..k)
    BY <1>1, FS_SUBSET
<1>3. Cardinality(SUBSET (1..k)) \in Nat /\ Cardinality(SUBSET (1..k)) # 0
    <2>1. {} \in SUBSET (1..k)
        OBVIOUS
    <2> HIDE <1>1
    <2> QED BY <1>2, <2>1, FS_CardinalityType, FS_EmptySet
<1> QED BY <1>1, <1>2, <1>3

LEMMA AtLeastOnce ==
    ASSUME NEW w \in Nat, NEW p \in Nat, p >= 1
    PROVE  w * p \in Nat /\ w * p >= w
OBVIOUS

\* The warm-up asks for more than the window at every rung.
LEMMA RungSize ==
    ASSUME NEW k \in 1..Attempts
    PROVE  (Warmup + 1) * 2^(k - 1) \in Nat /\ (Warmup + 1) * 2^(k - 1) >= Warmup + 1
<1>1. Warmup + 1 \in Nat /\ k - 1 \in Nat
    BY FeedAssumption
<1>2. 2^(k - 1) \in Nat /\ 2^(k - 1) >= 1
    BY <1>1, PowerOfTwo
<1> QED BY <1>1, <1>2, AtLeastOnce

LEMMA LargestSize == Largest \in Nat /\ Largest >= Warmup + 1
<1>1. Attempts \in 1..Attempts
    BY FeedAssumption
<1> QED BY <1>1, RungSize DEF Largest

(***************************************************************************)
(* The newest n of a set of bars.                                          *)
(***************************************************************************)
\* What is newer than one of the newest is one of them.
LEMMA NewestUpward ==
    ASSUME NEW S \in SUBSET Nat, IsFiniteSet(S), NEW n \in Int,
           NEW b \in Newest(n, S), NEW c \in S, c >= b
    PROVE  c \in Newest(n, S)
<1> DEFINE From(d) == {e \in S : e >= d}
<1>1. b \in S /\ Cardinality(From(b)) <= n
    BY DEF Newest
<1>2. From(c) \subseteq From(b) /\ From(b) \subseteq S
    <2>1. b \in Nat /\ c \in Nat /\ \A e \in S : e \in Nat
        BY <1>1
    <2>2. \A e \in S : e >= c => e >= b
        BY <2>1
    <2> QED BY <2>2
<1>3. /\ IsFiniteSet(From(b)) /\ Cardinality(From(b)) \in Nat
      /\ IsFiniteSet(From(c)) /\ Cardinality(From(c)) \in Nat
      /\ Cardinality(From(c)) <= Cardinality(From(b))
    <2> HIDE DEF From
    <2>1. IsFiniteSet(From(b))
        BY <1>2, FS_Subset
    <2> QED BY <1>2, <2>1, FS_Subset, FS_CardinalityType
<1>4. Cardinality(From(c)) <= n
    <2> HIDE DEF From
    <2> QED BY <1>1, <1>3
<1> QED BY <1>4 DEF Newest

LEMMA NewestSubset ==
    ASSUME NEW S, NEW n
    PROVE  Newest(n, S) \subseteq S
BY DEF Newest

LEMMA NewestSolid ==
    ASSUME NEW S \in SUBSET Nat, IsFiniteSet(S), NEW n \in Int, Solid(S)
    PROVE  Solid(Newest(n, S))
<1> SUFFICES ASSUME NEW a \in Newest(n, S), NEW c \in Newest(n, S), NEW b \in a..c
             PROVE  b \in Newest(n, S)
    BY DEF Solid
<1>1. a \in S /\ c \in S
    BY NewestSubset
<1>2. b \in S /\ b >= a
    BY <1>1 DEF Solid
<1> QED BY <1>2, NewestUpward

\* Between b and r lie r - b + 1 bars.
LEMMA CountFrom ==
    ASSUME NEW S \in SUBSET Nat, NEW r \in Nat, NEW b \in Nat, b <= r,
           \A c \in S : c <= r
    PROVE  /\ IsFiniteSet({c \in S : c >= b})
           /\ Cardinality({c \in S : c >= b}) \in Nat
           /\ Cardinality({c \in S : c >= b}) <= r - b + 1
<1> DEFINE T == {c \in S : c >= b}
<1>1. T \in SUBSET (b..r)
    <2>1. \A c \in S : c >= b => c \in b..r
        OBVIOUS
    <2> QED BY <2>1
<1>2. IsFiniteSet(b..r) /\ Cardinality(b..r) = r - b + 1
    BY FS_Interval
<1> HIDE DEF T
<1>3. IsFiniteSet(T) /\ Cardinality(T) <= r - b + 1
    BY <1>1, <1>2, FS_Subset
<1>4. Cardinality(T) \in Nat
    BY <1>3, FS_CardinalityType
<1> QED BY <1>3, <1>4 DEF T

\* A set that holds the n bars up to its greatest has these as its newest.
LEMMA NewestOfTop ==
    ASSUME NEW S \in SUBSET Nat, NEW r \in Nat, \A c \in S : c <= r,
           NEW n \in Nat, (r - n + 1)..r \subseteq S
    PROVE  Newest(n, S) = (r - n + 1)..r
<1>1. ASSUME NEW b \in (r - n + 1)..r
      PROVE  b \in Newest(n, S)
    <2>1. b \in S /\ b \in Nat /\ b <= r /\ r - b + 1 <= n
        BY <1>1
    <2>2. /\ Cardinality({c \in S : c >= b}) \in Nat
          /\ Cardinality({c \in S : c >= b}) <= r - b + 1
        BY <2>1, CountFrom
    <2> QED BY <2>1, <2>2 DEF Newest
<1>2. ASSUME NEW b \in Newest(n, S), b \notin (r - n + 1)..r
      PROVE  FALSE
    <2> DEFINE T == {c \in S : c >= b}
               U == (r - n + 1)..r
    <2>1. b \in S /\ b \in Nat /\ b <= r /\ b < r - n + 1 /\ Cardinality(T) <= n
        BY <1>2 DEF Newest
    <2>2. IsFiniteSet(T) /\ Cardinality(T) \in Nat
        BY <2>1, CountFrom
    <2>3. IsFiniteSet(U) /\ Cardinality(U) = n
        BY FS_Interval
    <2>4. U \cup {b} \in SUBSET T /\ b \notin U
        BY <2>1
    <2> HIDE DEF T, U
    <2>5. Cardinality(U \cup {b}) = n + 1
        BY <2>3, <2>4, FS_AddElement
    <2>6. Cardinality(U \cup {b}) <= Cardinality(T)
        BY <2>2, <2>4, FS_Subset
    <2> QED BY <2>1, <2>2, <2>5, <2>6
<1>3. Newest(n, S) \subseteq (r - n + 1)..r
    BY <1>2
<1> QED BY <1>1, <1>3

\* What lies between 0 and r is finite.
LEMMA FiniteBelow ==
    ASSUME NEW r \in Nat, NEW S \in SUBSET (0..r)
    PROVE  IsFiniteSet(S) /\ Cardinality(S) \in Nat /\ S \in SUBSET Nat
<1>1. IsFiniteSet(0..r)
    BY FS_Interval
<1>2. IsFiniteSet(S)
    BY <1>1, FS_Subset
<1> QED BY <1>2, FS_CardinalityType

\* A set without holes that has n bars has the n bars up to its greatest.
LEMMA SolidTop ==
    ASSUME NEW S \in SUBSET Nat, IsFiniteSet(S), Solid(S),
           NEW h \in S, \A b \in S : b <= h,
           NEW n \in Nat, n >= 1, Cardinality(S) >= n
    PROVE  (h - n + 1)..h \subseteq S
<1>1. ASSUME h - n + 1 \notin S
      PROVE  FALSE
    <2>1. ASSUME NEW b \in S
          PROVE  b \in (h - n + 2)..h
        <3>1. b \in Nat /\ h \in Nat /\ b <= h
            OBVIOUS
        <3>2. CASE b <= h - n + 1
            <4>1. h - n + 1 \in b..h
                BY <3>1, <3>2
            <4> QED BY <1>1, <4>1 DEF Solid
        <3> QED BY <3>1, <3>2
    <2>2. S \in SUBSET ((h - n + 2)..h)
        BY <2>1
    <2>3. h - n + 2 \in Int /\ h \in Int
        OBVIOUS
    <2>4. IsFiniteSet((h - n + 2)..h) /\ Cardinality((h - n + 2)..h) = n - 1
        <3> DEFINE a == h - n + 2
        <3>1. a \in Int /\ h \in Int /\ (IF a > h THEN 0 ELSE h - a + 1) = n - 1
            OBVIOUS
        <3> HIDE DEF a
        <3>2. /\ IsFiniteSet(a..h)
              /\ Cardinality(a..h) = IF a > h THEN 0 ELSE h - a + 1
            BY <3>1, FS_Interval
        <3> QED BY <3>1, <3>2 DEF a
    <2>5. Cardinality(S) <= n - 1 /\ Cardinality(S) \in Nat
        BY <2>2, <2>4, FS_Subset, FS_CardinalityType
    <2> QED BY <2>5
<1> QED BY <1>1 DEF Solid

LEMMA NewestOfSolid ==
    ASSUME NEW r \in Nat, NEW S \in SUBSET (0..r), Solid(S),
           NEW n \in Nat, n >= 1, Cardinality(S) >= n
    PROVE  Cardinality(Newest(n, S)) >= n
<1>1. IsFiniteSet(0..r) /\ S \in SUBSET Nat
    BY FS_Interval
<1>2. IsFiniteSet(S) /\ S # {} /\ Cardinality(S) \in Nat
    <2>1. IsFiniteSet(S)
        BY <1>1, FS_Subset
    <2>2. Cardinality(S) \in Nat /\ Cardinality(S) # 0
        BY <2>1, FS_CardinalityType
    <2> QED BY <2>1, <2>2, FS_EmptySet
<1> DEFINE h == Max(S)
<1>3. h \in S /\ \A b \in S : b <= h
    BY <1>2, MaxOfNaturals
<1> HIDE DEF h
<1>4. (h - n + 1)..h \subseteq S
    BY <1>1, <1>2, <1>3, SolidTop
<1>5. h \in Nat
    BY <1>1, <1>3
<1>6. Newest(n, S) = (h - n + 1)..h
    BY <1>1, <1>3, <1>4, <1>5, NewestOfTop
<1>7. Cardinality((h - n + 1)..h) = n
    BY <1>5, FS_Interval
<1> QED BY <1>6, <1>7

(***************************************************************************)
(* Merges: a solid set with a tail that reaches it stays solid.            *)
(***************************************************************************)
LEMMA Bridge ==
    ASSUME NEW S \in SUBSET Nat, NEW T \in SUBSET Nat, NEW r \in Nat,
           Solid(S), TailTo(T, r), \A b \in S : b <= r,
           NEW h \in S, NEW l \in T, l <= h
    PROVE  Solid(S \union T)
<1> SUFFICES ASSUME NEW a \in S \union T, NEW c \in S \union T, NEW b \in a..c
             PROVE  b \in S \union T
    BY DEF Solid
<1>1. /\ a \in Nat /\ c \in Nat /\ b \in Nat /\ l \in Nat /\ h \in Nat
      /\ a <= b /\ b <= c /\ c <= r
    BY DEF TailTo
<1>2. \A x \in T : x <= b => b \in T
    BY <1>1 DEF TailTo
<1>3. CASE l <= b
    BY <1>2, <1>3
<1>4. CASE a \in T
    BY <1>1, <1>2, <1>4
<1>5. CASE a \in S /\ b < l
    <2>1. b \in a..h
        BY <1>1, <1>5
    <2> QED BY <2>1, <1>5 DEF Solid
<1> QED BY <1>1, <1>3, <1>4, <1>5

LEMMA TailSolid ==
    ASSUME NEW T \in SUBSET Nat, NEW r \in Nat, TailTo(T, r)
    PROVE  Solid(T)
<1> SUFFICES ASSUME NEW a \in T, NEW c \in T, NEW b \in a..c
             PROVE  b \in T
    BY DEF Solid
<1>1. b \in a..r
    BY DEF TailTo
<1> QED BY <1>1 DEF TailTo

\* A tail of at least n bars holds the n bars up to r.
LEMMA TailTop ==
    ASSUME NEW r \in Nat, NEW T \in SUBSET (0..r), TailTo(T, r),
           NEW n \in Nat, n >= 1, Cardinality(T) >= n
    PROVE  (r - n + 1)..r \subseteq T
<1>1. T \in SUBSET Nat /\ IsFiniteSet(T) /\ T # {}
    <2>1. IsFiniteSet(0..r) /\ T \in SUBSET Nat
        BY FS_Interval
    <2>2. IsFiniteSet(T)
        BY <2>1, FS_Subset
    <2>3. Cardinality(T) \in Nat /\ Cardinality(T) # 0
        BY <2>2, FS_CardinalityType
    <2> QED BY <2>1, <2>2, <2>3, FS_EmptySet
<1>2. PICK b \in T : TRUE
    BY <1>1
<1>3. r \in T /\ \A c \in T : c <= r
    BY <1>1, <1>2 DEF TailTo
<1> QED BY <1>1, <1>3, TailSolid, SolidTop

\* Joined with a tail of n bars, whatever else there is, the newest n have no
\* hole.
LEMMA JoinedTop ==
    ASSUME NEW S \in SUBSET Nat, NEW T, NEW r \in Nat, NEW n \in Nat,
           \A b \in S : b <= r, T \in SUBSET S, (r - n + 1)..r \subseteq T
    PROVE  Solid(Newest(n, S))
<1>1. Newest(n, S) = (r - n + 1)..r
    BY NewestOfTop
<1> QED BY <1>1 DEF Solid

(***************************************************************************)
(* What a source answers is a tail of what it serves, and all of it or at  *)
(* least as many bars as asked, less the forming one.                      *)
(***************************************************************************)
SourceTypes == start \in [Symbols -> Nat] /\ released \in [Symbols -> Nat]

LEMMA ServedTypes ==
    ASSUME SourceTypes, NEW s \in Symbols
    PROVE  /\ start[s] \in Nat /\ released[s] \in Nat
           /\ Served(s) \in SUBSET (0..released[s])
           /\ Served(s) \in SUBSET Nat
           /\ IsFiniteSet(Served(s)) /\ Cardinality(Served(s)) \in Nat
           /\ TailTo(Served(s), released[s])
<1>1. start[s] \in Nat /\ released[s] \in Nat
    BY DEF SourceTypes
<1>2. IsFiniteSet(Served(s))
    BY <1>1, FS_Interval DEF Served
<1> QED BY <1>1, <1>2, FS_CardinalityType DEF Served, TailTo

LEMMA AnswerTail ==
    ASSUME SourceTypes, NEW s \in Symbols, NEW n \in Int
    PROVE  Answer(s, n) \subseteq Served(s) /\ TailTo(Answer(s, n), released[s])
<1>1. n - Forming \in Int
    BY FeedAssumption
<1>2. Answer(s, n) \subseteq Served(s)
    BY NewestSubset DEF Answer
<1>3. ASSUME NEW b \in Answer(s, n), NEW c \in b..released[s]
      PROVE  b <= released[s] /\ c \in Answer(s, n)
    <2>1. b \in Served(s) /\ Served(s) \in SUBSET Nat /\ IsFiniteSet(Served(s))
        BY <1>2, ServedTypes
    <2>2. c \in Served(s) /\ c >= b
        BY <2>1, ServedTypes DEF TailTo
    <2>3. b <= released[s]
        BY <2>1, ServedTypes DEF TailTo
    <2> QED BY <1>1, <2>1, <2>2, <2>3, NewestUpward DEF Answer
<1>4. \A b \in Answer(s, n) : b <= released[s]
    BY <1>2, ServedTypes DEF TailTo
<1> QED BY <1>2, <1>3, <1>4 DEF TailTo

LEMMA AnswerWhole ==
    ASSUME SourceTypes, NEW s \in Symbols, NEW n \in Int,
           Answer(s, n) # Served(s), n >= Forming
    PROVE  /\ n - Forming \in Nat
           /\ (released[s] - (n - Forming) + 1)..released[s] \subseteq Answer(s, n)
           /\ Cardinality(Answer(s, n)) = n - Forming
<1> DEFINE k == n - Forming
           r == released[s]
<1>1. k \in Nat /\ r \in Nat /\ start[s] \in Nat /\ Served(s) \in SUBSET Nat
    BY FeedAssumption, ServedTypes
<1>2. PICK b \in Served(s) : b \notin Answer(s, n)
    BY AnswerTail
<1>3. b \in Nat /\ start[s] <= b /\ b <= r
    BY <1>1, <1>2 DEF Served
<1>4. /\ Cardinality({c \in Served(s) : c >= b}) \in Nat
      /\ Cardinality({c \in Served(s) : c >= b}) <= r - b + 1
    <2>1. \A c \in Served(s) : c <= r
        BY ServedTypes
    <2> QED BY <1>1, <1>3, <2>1, CountFrom
<1>5. k < r - b + 1
    <2>1. ~(Cardinality({c \in Served(s) : c >= b}) <= k)
        BY <1>2 DEF Answer, Newest
    <2> HIDE DEF k, r
    <2> QED BY <1>1, <1>3, <1>4, <2>1
<1>6. (r - k + 1)..r \subseteq Served(s)
    <2> HIDE DEF k, r
    <2>1. r - k + 1 >= start[s]
        BY <1>1, <1>3, <1>5
    <2> QED BY <1>1, <2>1 DEF Served, r
<1>7. Answer(s, n) = (r - k + 1)..r
    <2>1. \A c \in Served(s) : c <= r
        BY ServedTypes
    <2> HIDE DEF r
    <2>2. Newest(k, Served(s)) = (r - k + 1)..r
        <3> HIDE DEF k
        <3> QED BY <1>1, <1>6, <2>1, NewestOfTop
    <2> QED BY <2>2 DEF Answer
<1>8. Cardinality((r - k + 1)..r) = k
    <2> HIDE DEF k, r
    <2> DEFINE a == r - k + 1
    <2>1. a \in Int /\ (IF a > r THEN 0 ELSE r - a + 1) = k
        BY <1>1
    <2> HIDE DEF a
    <2>2. Cardinality(a..r) = IF a > r THEN 0 ELSE r - a + 1
        BY <1>1, <2>1, FS_Interval
    <2> QED BY <2>1, <2>2 DEF a
<1> QED BY <1>1, <1>7, <1>8

\* An answer to a warm-up request fills the window or is all there is.
LEMMA AnswerFills ==
    ASSUME SourceTypes, NEW s \in Symbols, NEW n \in Int, n >= Warmup + 1
    PROVE  \/ Answer(s, n) = Served(s)
           \/ Cardinality(Answer(s, n)) >= Warmup
<1>1. n >= Forming /\ n - Forming >= Warmup /\ Warmup \in Nat
    BY FeedAssumption
<1> QED BY <1>1, AnswerWhole

(***************************************************************************)
(* What a fetch may leave.                                                 *)
(***************************************************************************)
\* A request that widens stops at an answer for one of its reasons.
LEMMA BackToStops ==
    ASSUME NEW s, NEW head, NEW w \in BOOLEAN
    PROVE  \E n \in 1..Largest :
              /\ BackTo(s, head, w) = Answer(s, n)
              /\ \/ Reaches(Answer(s, n), head)
                 \/ w /\ Cardinality(Answer(s, n)) < n - 1
                 \/ n = Largest
<1> DEFINE stops(n) == \/ Reaches(Answer(s, n), head)
                       \/ w /\ Cardinality(Answer(s, n)) < n - 1
                       \/ n = Largest
           Stops == {n \in Limits : stops(n)}
<1>1. Largest \in 1..Largest
    BY LargestSize, FeedAssumption
<1>2. Largest \in Stops /\ Stops \in SUBSET Nat
    BY <1>1 DEF Limits
<1>3. Min(Stops) \in Stops
    <2> HIDE DEF Stops
    <2> QED BY <1>2, MinOfNaturals
<1>4. BackTo(s, head, w) = Answer(s, Min(Stops))
    BY DEF BackTo
<1>5. Min(Stops) \in 1..Largest /\ stops(Min(Stops))
    <2> HIDE DEF stops
    <2> QED BY <1>3 DEF Limits
<1> HIDE DEF Stops
<1> QED BY <1>4, <1>5

\* The ladder merges one rung's answer, or nothing when its first rung fails.
LEMMA LadderBars ==
    ASSUME NEW s, NEW f
    PROVE  \/ Ladder(s, f).bars = cache[s] /\ Ladder(s, f).backoff = NoBackoff
           \/ \E k \in 1..Attempts :
                 Ladder(s, f).bars = Merged(s, Answer(s, (Warmup + 1) * 2^(k - 1)))
<1> DEFINE first  == IF asked[s] = Attempts THEN Attempts ELSE 1
           upto(k) == IF k < first THEN cache[s]
                      ELSE Merged(s, Answer(s, (Warmup + 1) * 2^(k - 1)))
           enough == {k \in first..Attempts : ~Gap(s, upto(k))}
           last   == IF enough = {} THEN Attempts ELSE Min(enough)
<1>1. first \in 1..Attempts /\ Attempts \in Nat
    BY FeedAssumption
<1>2. last \in first..Attempts
    <2>1. enough \in SUBSET (first..Attempts) /\ enough \in SUBSET Nat
        <3> HIDE DEF upto
        <3> QED BY <1>1
    <2> HIDE DEF enough, first
    <2>2. enough # {} => Min(enough) \in enough
        BY <2>1, MinOfNaturals
    <2>3. CASE enough = {}
        <3>1. last = Attempts
            BY <2>3
        <3> HIDE DEF last
        <3> QED BY <1>1, <3>1
    <2>4. CASE enough # {}
        <3>1. last = Min(enough)
            BY <2>4
        <3> HIDE DEF last
        <3> QED BY <2>1, <2>2, <2>4, <3>1
    <2> QED BY <2>3, <2>4
<1>3. ASSUME NEW k \in first..Attempts
      PROVE  /\ k \in 1..Attempts
             /\ upto(k) = Merged(s, Answer(s, (Warmup + 1) * 2^(k - 1)))
    BY <1>1
<1>4. Ladder(s, f).bars \in {cache[s], upto(first), upto(last)}
      /\ \/ /\ Ladder(s, f).bars = cache[s]
            /\ Ladder(s, f).backoff = NoBackoff
         \/ Ladder(s, f).bars \in {upto(first), upto(last)}
    <2> HIDE DEF upto, enough, first
    <2>1. CASE f = "first"
        BY <2>1 DEF Ladder, FailsAt
    <2>2. CASE f = "later" /\ last > first
        BY <2>2 DEF Ladder, FailsAt, upto, enough, first
    <2>3. CASE ~(f = "first") /\ ~(f = "later" /\ last > first)
        BY <2>3 DEF Ladder, FailsAt, upto, enough, first
    <2> QED BY <2>1, <2>2, <2>3
<1>5. first \in first..Attempts
    BY <1>1
<1> HIDE DEF upto, first, last
<1> QED BY <1>2, <1>3, <1>4, <1>5

\* A steady poll merges an answer that reaches the head, is all there is or is
\* the largest.
LEMMA SteadyBars ==
    ASSUME NEW s, NEW f
    PROVE  /\ Steady(s, f).backoff = NoBackoff
           /\ \/ Steady(s, f).bars = cache[s]
              \/ \E n \in 1..Largest :
                    /\ Steady(s, f).bars = cache[s] \union Answer(s, n)
                    /\ \/ Reaches(Answer(s, n), Latest(cache[s]))
                       \/ Cardinality(Answer(s, n)) < n - 1
                       \/ n = Largest
<1>1. PICK n \in 1..Largest :
              /\ BackTo(s, Latest(cache[s]), TRUE) = Answer(s, n)
              /\ \/ Reaches(Answer(s, n), Latest(cache[s]))
                 \/ Cardinality(Answer(s, n)) < n - 1
                 \/ n = Largest
    BY BackToStops
<1> QED BY <1>1 DEF Steady, FailsAt, Merged

\* Between re-probes an answer is merged when it reaches the head or fills the
\* window, and the largest one only when that leaves a gap.
LEMMA ReprobeBars ==
    ASSUME NEW s, NEW f
    PROVE  \E n \in 1..Largest : \E bridged \in {cache[s], cache[s] \union Answer(s, n)} :
              /\ \/ bridged = cache[s]
                 \/ Reaches(Answer(s, n), Latest(cache[s]))
                 \/ Cardinality(Answer(s, n)) >= Warmup
              /\ \/ Reprobe(s, f).bars \in {cache[s], bridged}
                 \/ /\ Gap(s, bridged)
                    /\ Reprobe(s, f).bars = bridged \union Answer(s, Largest)
<1> DEFINE head     == Latest(cache[s])
           recent   == BackTo(s, head, FALSE)
           bridged  == IF Reaches(recent, head) \/ Cardinality(recent) >= Warmup
                       THEN Merged(s, recent) ELSE cache[s]
<1>1. PICK n \in 1..Largest : recent = Answer(s, n)
    BY BackToStops
<1>2. bridged \in {cache[s], cache[s] \union Answer(s, n)}
    BY <1>1 DEF Merged
<1>3. \/ bridged = cache[s]
      \/ Reaches(Answer(s, n), head)
      \/ Cardinality(Answer(s, n)) >= Warmup
    BY <1>1
<1>4. \/ Reprobe(s, f).bars \in {cache[s], bridged}
      \/ /\ Gap(s, bridged)
         /\ Reprobe(s, f).bars = bridged \union Answer(s, Largest)
    <2>1. CASE f = "first"
        BY <2>1 DEF Reprobe, FailsAt
    <2>2. CASE f # "first" /\ ~Gap(s, bridged)
        BY <2>2 DEF Reprobe
    <2>3. CASE f # "first" /\ Gap(s, bridged) /\ backoff[s][1] > 1
        BY <2>3 DEF Reprobe
    <2>4. CASE f = "later" /\ Gap(s, bridged) /\ backoff[s][1] = 1
        BY <2>4 DEF Reprobe
    <2>5. CASE /\ f # "first" /\ Gap(s, bridged) /\ ~(backoff[s][1] > 1)
               /\ ~(f = "later" /\ backoff[s][1] = 1)
        BY <2>5 DEF Reprobe
    <2> QED BY <2>1, <2>2, <2>3, <2>4, <2>5
<1> HIDE DEF bridged
<1> QED BY <1>2, <1>3, <1>4

(***************************************************************************)
(* The cache of a symbol marked at m: no hole up to m, and none at all     *)
(* once there is enough history before the next bar to decide.             *)
(***************************************************************************)
Good(S, m) ==
    /\ Solid(Upto(S, m))
    /\ Upto(S, m) # {} => m \in S
    /\ Cardinality(Upto(S, m)) >= Warmup - 1 => Solid(S)
    /\ S = {} \/ Cardinality(S) >= Warmup

LEMMA SolidPart ==
    ASSUME NEW S \in SUBSET Nat, Solid(S), NEW m \in Int
    PROVE  Solid(Upto(S, m))
<1> SUFFICES ASSUME NEW a \in S, NEW c \in S, c <= m, NEW b \in a..c
             PROVE  b \in S /\ b <= m
    BY DEF Solid, Upto
<1> QED BY DEF Solid

LEMMA SolidGood ==
    ASSUME NEW S \in SUBSET Nat, Solid(S), NEW m \in S, Cardinality(S) >= Warmup
    PROVE  Good(S, m)
BY SolidPart DEF Good

LEMMA EmptyGood ==
    ASSUME Warmup > 1, NEW m
    PROVE  Good({}, m)
<1>1. Upto({}, m) = {} /\ Cardinality({}) = 0
    BY FS_EmptySet DEF Upto
<1>2. ~(0 >= Warmup - 1)
    BY FeedAssumption
<1> QED BY <1>1, <1>2 DEF Good, Solid

\* Trimmed to the window, a cache without holes stays good.
LEMMA TrimGood ==
    ASSUME NEW r \in Nat, NEW S \in SUBSET (0..r), Solid(S), NEW m \in Int,
           Upto(S, m) # {} => m \in S, Cardinality(S) >= Warmup
    PROVE  /\ Solid(Newest(Warmup, S))
           /\ Cardinality(Newest(Warmup, S)) >= Warmup
           /\ Good(Newest(Warmup, S), m)
<1>1. S \in SUBSET Nat /\ IsFiniteSet(S) /\ Warmup \in Nat /\ Warmup >= 1
    <2>1. S \in SUBSET Nat /\ IsFiniteSet(S)
        BY FiniteBelow
    <2>2. Warmup \in Nat /\ Warmup >= 1
        BY FeedAssumption
    <2> QED BY <2>1, <2>2
<1>2. Solid(Newest(Warmup, S)) /\ Newest(Warmup, S) \in SUBSET S
    BY <1>1, NewestSolid, NewestSubset
<1>3. Cardinality(Newest(Warmup, S)) >= Warmup
    BY <1>1, NewestOfSolid
<1>4. ASSUME NEW b \in Newest(Warmup, S), b <= m
      PROVE  m \in Newest(Warmup, S)
    <2>1. m \in S /\ m >= b
        BY <1>2, <1>4 DEF Upto
    <2> QED BY <1>1, <2>1, NewestUpward
<1>5. Upto(Newest(Warmup, S), m) # {} => m \in Newest(Warmup, S)
    BY <1>4 DEF Upto
<1> QED BY <1>1, <1>2, <1>3, <1>5, SolidPart DEF Good

\* A tail merged with a cache that has too little history leaves a good one.
LEMMA Widen ==
    ASSUME Warmup > 1, NEW r \in Nat, NEW C \in SUBSET (0..r), NEW T \in SUBSET (0..r),
           TailTo(T, r), NEW m \in Int, m <= r, Good(C, m),
           C = {} \/ Cardinality(Upto(C, m)) < Warmup - 1,
           C # {} \/ Cardinality(T) >= Warmup
    PROVE  Good(C \union T, m)
<1> DEFINE U == C \union T
<1>1. /\ U \in SUBSET (0..r) /\ IsFiniteSet(U) /\ Warmup \in Nat
      /\ C \in SUBSET Nat /\ T \in SUBSET Nat /\ U \in SUBSET Nat
    <2>1. U \in SUBSET (0..r)
        OBVIOUS
    <2> HIDE DEF U
    <2> QED BY <2>1, FiniteBelow, FeedAssumption
<1>2. Cardinality(U) >= Warmup
    <2>1. /\ Cardinality(U) \in Nat
          /\ Cardinality(C) \in Nat /\ Cardinality(C) <= Cardinality(U)
          /\ Cardinality(T) \in Nat /\ Cardinality(T) <= Cardinality(U)
        <3>1. C \in SUBSET U /\ T \in SUBSET U
            OBVIOUS
        <3> HIDE DEF U
        <3>2. IsFiniteSet(C) /\ IsFiniteSet(T)
            BY <1>1, <3>1, FS_Subset
        <3> QED BY <1>1, <3>1, <3>2, FS_Subset, FS_CardinalityType
    <2> HIDE DEF U
    <2>2. CASE C = {}
        BY <1>1, <2>1, <2>2
    <2>3. CASE C # {}
        <3>1. Cardinality(C) >= Warmup
            BY <2>3 DEF Good
        <3> QED BY <1>1, <2>1, <3>1
    <2> QED BY <2>2, <2>3
<1>3. CASE \E l \in T : l <= m
    <2>1. PICK l \in T : l <= m
        BY <1>3
    <2>2. \A b \in l..r : b \in T
        BY DEF TailTo
    <2>3. m \in T
        BY <1>1, <2>1, <2>2
    <2>4. Solid(U)
        <3> SUFFICES ASSUME NEW a \in U, NEW c \in U, NEW b \in a..c
                     PROVE  b \in U
            BY DEF Solid
        <3>1. /\ a \in Nat /\ b \in Nat /\ c \in Nat /\ l \in Nat
              /\ a <= b /\ b <= c /\ c <= r
            BY <1>1
        <3>2. CASE l <= b
            BY <2>2, <3>1, <3>2
        <3>3. CASE a \in T
            BY <3>1, <3>3 DEF TailTo
        <3>4. CASE a \in C /\ b < l
            <4>1. a <= m /\ b \in a..m
                BY <2>1, <3>1, <3>4
            <4>2. a \in Upto(C, m)
                BY <3>4, <4>1 DEF Upto
            <4>3. m \in Upto(C, m)
                BY <4>2 DEF Good, Upto
            <4>4. b \in Upto(C, m)
                BY <4>1, <4>2, <4>3 DEF Good, Solid
            <4> QED BY <4>4 DEF Upto
        <3> QED BY <3>1, <3>2, <3>3, <3>4
    <2> QED BY <1>1, <1>2, <2>3, <2>4, SolidGood
<1>4. CASE ~\E l \in T : l <= m
    <2>1. Upto(U, m) = Upto(C, m)
        BY <1>4 DEF Upto
    <2>2. ~(Cardinality(Upto(C, m)) >= Warmup - 1)
        <3>1. Upto({}, m) = {} /\ Cardinality({}) = 0
            BY FS_EmptySet DEF Upto
        <3>2. Upto(C, m) \in SUBSET (0..r)
            BY DEF Upto
        <3>3. Cardinality(Upto(C, m)) \in Nat
            BY <3>2, FiniteBelow
        <3>4. CASE C = {}
            BY <1>1, <3>1, <3>4
        <3>5. CASE Cardinality(Upto(C, m)) < Warmup - 1
            BY <1>1, <3>3, <3>5
        <3> QED BY <3>4, <3>5
    <2>3. Upto(C, m) # {} => m \in U
        BY DEF Good
    <2>4. Solid(Upto(C, m))
        BY DEF Good
    <2> HIDE DEF U
    <2>5. Good(U, m)
        BY <1>2, <2>1, <2>2, <2>3, <2>4 DEF Good
    <2> QED BY <2>5 DEF U
<1> QED BY <1>3, <1>4

(***************************************************************************)
(* One symbol's fetch.                                                     *)
(***************************************************************************)
\* What every poll may count on of a symbol's cache.
CacheGood(s) ==
    /\ cache[s] \subseteq Served(s)
    /\ mark[s] \in Int /\ mark[s] <= released[s]
    /\ mark[s] = None => Solid(cache[s])
    /\ mark[s] # None => /\ Good(cache[s], mark[s])
                         /\ Cardinality(Served(s)) >= Warmup
    /\ (mark[s] # None /\ backoff[s] # NoBackoff /\ s \notin backlog) =>
           cache[s] # {}

\* What a fetch of a symbol brings.
Fetched(s, R) ==
    /\ R \subseteq Served(s)
    /\ mark[s] = None => Solid(Newest(Warmup, R))
    /\ mark[s] # None => Good(R, mark[s]) \/ Overflows(s, R)

LEMMA CacheTypes ==
    ASSUME SourceTypes, NEW s \in Symbols, CacheGood(s)
    PROVE  /\ cache[s] \in SUBSET (0..released[s]) /\ cache[s] \in SUBSET Nat
           /\ IsFiniteSet(cache[s]) /\ Cardinality(cache[s]) \in Nat
           /\ \A b \in cache[s] : b <= released[s]
<1>1. cache[s] \in SUBSET Served(s)
    BY DEF CacheGood
<1>2. IsFiniteSet(cache[s])
    BY <1>1, ServedTypes, FS_Subset
<1> QED BY <1>1, <1>2, ServedTypes, FS_CardinalityType

LEMMA AnswerTypes ==
    ASSUME SourceTypes, NEW s \in Symbols, NEW n \in Int
    PROVE  /\ Answer(s, n) \in SUBSET (0..released[s]) /\ Answer(s, n) \in SUBSET Nat
           /\ IsFiniteSet(Answer(s, n)) /\ Cardinality(Answer(s, n)) \in Nat
           /\ Answer(s, n) \subseteq Served(s) /\ TailTo(Answer(s, n), released[s])
<1>1. Answer(s, n) \in SUBSET Served(s)
    BY AnswerTail
<1>2. IsFiniteSet(Answer(s, n))
    BY <1>1, ServedTypes, FS_Subset
<1> QED BY <1>1, <1>2, ServedTypes, AnswerTail, FS_CardinalityType

\* What a bar after the mark waits for.
LEMMA WaitingSplit ==
    ASSUME NEW s, NEW R \in SUBSET Nat, mark[s] # None, mark[s] \in Int
    PROVE  /\ R \ Waiting(s, R) = Upto(R, mark[s])
           /\ Waiting(s, R) = {} => R = Upto(R, mark[s])
<1>1. Waiting(s, R) = {b \in R : b > mark[s]}
    BY DEF Waiting
<1>2. \A b \in R : b > mark[s] <=> ~(b <= mark[s])
    OBVIOUS
<1> QED BY <1>1, <1>2 DEF Upto

\* Without a gap, the cache of a marked symbol has the mark and no hole.
LEMMA SoundCache ==
    ASSUME Warmup > 1, NEW s, NEW R \in SUBSET Nat, IsFiniteSet(R), mark[s] # None,
           mark[s] \in Int, Good(R, mark[s]), ~Gap(s, R)
    PROVE  /\ Cardinality(R) >= Warmup /\ R # {}
           /\ mark[s] \in R /\ Solid(R)
<1>1. Warmup \in Nat /\ Cardinality(R) \in Nat
    BY FeedAssumption, FS_CardinalityType
<1>2. Cardinality(R) >= Warmup /\ R # {}
    BY <1>1, FS_EmptySet DEF Gap
<1>3. CASE Waiting(s, R) = {}
    <2>1. R = Upto(R, mark[s])
        BY <1>3, WaitingSplit
    <2> QED BY <1>2, <2>1 DEF Good
<1>4. CASE Waiting(s, R) # {}
    <2> DEFINE P == Upto(R, mark[s])
    <2>1. ~(Cardinality(P) < Warmup - 1)
        BY <1>4, WaitingSplit DEF Gap
    <2>2. P \in SUBSET R
        BY DEF Upto
    <2> HIDE DEF P
    <2>3. IsFiniteSet(P) /\ Cardinality(P) \in Nat
        BY <2>2, FS_Subset, FS_CardinalityType
    <2>4. Cardinality(P) >= Warmup - 1 /\ P # {}
        BY <1>1, <2>1, <2>3, FS_EmptySet
    <2> QED BY <1>2, <2>4 DEF Good, P
<1> QED BY <1>3, <1>4

LEMMA GapCache ==
    ASSUME NEW s, NEW R \in SUBSET Nat, IsFiniteSet(R), mark[s] # None,
           mark[s] \in Int, Good(R, mark[s]), Gap(s, R)
    PROVE  R = {} \/ Cardinality(Upto(R, mark[s])) < Warmup - 1
<1>1. Warmup \in Nat /\ Cardinality(R) \in Nat
    BY FeedAssumption, FS_CardinalityType
<1> QED BY <1>1, WaitingSplit DEF Gap, Good

\* A cache as it is, refetched with no news.
LEMMA CacheFetched ==
    ASSUME SourceTypes, NEW s \in Symbols, CacheGood(s)
    PROVE  Fetched(s, cache[s])
<1>1. Warmup \in Int
    BY FeedAssumption
<1> QED BY <1>1, CacheTypes, NewestSolid DEF CacheGood, Fetched

\* A symbol without a mark: any merge with a full answer, and a merge with one
\* that reaches the head.
LEMMA FirstFill ==
    ASSUME SourceTypes, NEW s \in Symbols, NEW R \in SUBSET Served(s),
           NEW n \in Int, n >= Warmup + 1 \/ Cardinality(Answer(s, n)) >= Warmup,
           mark[s] = None
    PROVE  Fetched(s, R \union Answer(s, n))
<1> DEFINE r == released[s]
           T == Answer(s, n)
           U == R \union T
<1>1. Warmup \in Nat /\ Warmup >= 1
    BY FeedAssumption
<1>2. /\ r \in Nat /\ T \in SUBSET (0..r) /\ TailTo(T, r) /\ T \subseteq Served(s)
      /\ Served(s) \in SUBSET (0..r)
    BY AnswerTypes, ServedTypes
<1>3. U \in SUBSET Served(s) /\ U \in SUBSET Nat /\ \A b \in U : b <= r
    BY <1>2
<1>4. CASE T = Served(s)
    <2>1. U = Served(s)
        BY <1>3, <1>4
    <2>2. Solid(Served(s))
        BY <1>2, ServedTypes, TailSolid
    <2>3. Solid(Newest(Warmup, Served(s)))
        BY <1>1, <2>2, ServedTypes, NewestSolid
    <2> QED BY <1>3, <2>1, <2>3 DEF Fetched
<1>5. CASE Cardinality(T) >= Warmup
    <2>1. (r - Warmup + 1)..r \subseteq T
        <3> HIDE DEF r, T
        <3> QED BY <1>1, <1>2, <1>5, TailTop
    <2>2. Solid(Newest(Warmup, U))
        <3>1. T \in SUBSET U
            OBVIOUS
        <3> HIDE DEF r, T, U
        <3> QED BY <1>1, <1>2, <1>3, <2>1, <3>1, JoinedTop
    <2> QED BY <1>3, <2>2 DEF Fetched
<1> QED BY <1>4, <1>5, AnswerFills

LEMMA FirstBridge ==
    ASSUME SourceTypes, NEW s \in Symbols, CacheGood(s), NEW n \in Int,
           Reaches(Answer(s, n), Latest(cache[s])), mark[s] = None
    PROVE  /\ Solid(cache[s] \union Answer(s, n))
           /\ Fetched(s, cache[s] \union Answer(s, n))
<1> DEFINE r == released[s]
           C == cache[s]
           T == Answer(s, n)
           U == C \union T
<1>1. /\ r \in Nat /\ T \in SUBSET (0..r) /\ TailTo(T, r) /\ T \subseteq Served(s)
      /\ C \in SUBSET (0..r) /\ T \in SUBSET Nat /\ C \in SUBSET Nat
      /\ C \subseteq Served(s) /\ \A b \in C : b <= r
    BY AnswerTypes, ServedTypes, CacheTypes DEF CacheGood
<1>2. Solid(C)
    BY DEF CacheGood
<1>3. Solid(U)
    <2>1. CASE C = {}
        <3>1. U = T
            BY <2>1
        <3> QED BY <1>1, <3>1, TailSolid
    <2>2. CASE T = {}
        <3>1. U = C
            BY <2>2
        <3> QED BY <1>2, <3>1
    <2>3. CASE C # {} /\ T # {}
        <3>1. Max(C) \in C /\ Min(T) \in T
            <4> HIDE DEF C, T, r
            <4> QED BY <1>1, <2>3, MaxOfNaturals, MinOfNaturals
        <3>2. Min(T) <= Max(C)
            <4>1. Latest(C) = Max(C) /\ Max(C) # None
                BY <1>1, <2>3, <3>1 DEF Latest, None
            <4> QED BY <2>3, <4>1 DEF Reaches
        <3> HIDE DEF C, T, r
        <3> QED BY <1>1, <1>2, <3>1, <3>2, Bridge
    <2> QED BY <2>1, <2>2, <2>3
<1>4. U \in SUBSET (0..r) /\ U \subseteq Served(s)
    BY <1>1
<1>5. Solid(Newest(Warmup, U))
    <2> HIDE DEF U, r
    <2>1. Warmup \in Int
        BY FeedAssumption
    <2> QED BY <1>1, <1>3, <1>4, <2>1, FiniteBelow, NewestSolid
<1> QED BY <1>3, <1>4, <1>5 DEF Fetched

LEMMA FirstFetch ==
    ASSUME SourceTypes, NEW s \in Symbols, CacheGood(s), mark[s] = None, NEW f
    PROVE  Fetched(s, Fetch(s, f).bars)
<1>0. Largest \in Nat /\ Largest >= Warmup + 1
    BY LargestSize
<1>1. CASE Fetch(s, f).bars = cache[s]
    BY <1>1, CacheFetched
<1>2. CASE s \notin backlog /\ ~Gap(s, cache[s])
    <2>1. Fetch(s, f) = Steady(s, f)
        BY <1>2 DEF Fetch
    <2>2. CASE Steady(s, f).bars # cache[s]
        <3>1. PICK n \in 1..Largest :
                    /\ Steady(s, f).bars = cache[s] \union Answer(s, n)
                    /\ \/ Reaches(Answer(s, n), Latest(cache[s]))
                       \/ Cardinality(Answer(s, n)) < n - 1
                       \/ n = Largest
            BY <2>2, SteadyBars
        <3>2. CASE Reaches(Answer(s, n), Latest(cache[s]))
            BY <2>1, <3>1, <3>2, FirstBridge
        <3>3. CASE Cardinality(Answer(s, n)) < n - 1
            <4>1. n >= Forming /\ n \in Int /\ n - Forming >= n - 1
                BY <1>0, FeedAssumption
            <4>2. Answer(s, n) = Served(s)
                BY <3>3, <4>1, AnswerWhole, AnswerTypes
            <4>3. cache[s] \union Answer(s, n) = Served(s)
                BY <4>2 DEF CacheGood
            <4>4. Solid(Newest(Warmup, Served(s)))
                <5>1. Solid(Served(s)) /\ Warmup \in Int
                    BY ServedTypes, TailSolid, FeedAssumption
                <5> QED BY <5>1, ServedTypes, NewestSolid
            <4>5. Fetch(s, f).bars = Served(s)
                BY <2>1, <3>1, <4>3
            <4> QED BY <4>4, <4>5 DEF Fetched
        <3>4. CASE n = Largest
            <4>1. cache[s] \in SUBSET Served(s) /\ Largest \in Int
                BY <1>0 DEF CacheGood
            <4>2. Fetched(s, cache[s] \union Answer(s, Largest))
                BY <1>0, <4>1, FirstFill
            <4> QED BY <2>1, <3>1, <3>4, <4>2
        <3> QED BY <3>1, <3>2, <3>3, <3>4
    <2> QED BY <1>1, <2>1, <2>2
<1>3. CASE s \notin backlog /\ Gap(s, cache[s]) /\ backoff[s] # NoBackoff
    <2>1. Fetch(s, f) = Reprobe(s, f)
        BY <1>3 DEF Fetch
    <2>2. PICK n \in 1..Largest :
             \E bridged \in {cache[s], cache[s] \union Answer(s, n)} :
              /\ \/ bridged = cache[s]
                 \/ Reaches(Answer(s, n), Latest(cache[s]))
                 \/ Cardinality(Answer(s, n)) >= Warmup
              /\ \/ Reprobe(s, f).bars \in {cache[s], bridged}
                 \/ /\ Gap(s, bridged)
                    /\ Reprobe(s, f).bars = bridged \union Answer(s, Largest)
        BY ReprobeBars
    <2>3. PICK bridged \in {cache[s], cache[s] \union Answer(s, n)} :
              /\ \/ bridged = cache[s]
                 \/ Reaches(Answer(s, n), Latest(cache[s]))
                 \/ Cardinality(Answer(s, n)) >= Warmup
              /\ \/ Reprobe(s, f).bars \in {cache[s], bridged}
                 \/ /\ Gap(s, bridged)
                    /\ Reprobe(s, f).bars = bridged \union Answer(s, Largest)
        BY <2>2
    <2>4. n \in Int /\ cache[s] \in SUBSET Served(s)
        BY <1>0 DEF CacheGood
    <2>5. Fetched(s, bridged)
        <3>1. CASE bridged = cache[s]
            BY <3>1, CacheFetched
        <3>2. CASE /\ bridged = cache[s] \union Answer(s, n)
                   /\ Reaches(Answer(s, n), Latest(cache[s]))
            BY <2>4, <3>2, FirstBridge
        <3>3. CASE /\ bridged = cache[s] \union Answer(s, n)
                   /\ Cardinality(Answer(s, n)) >= Warmup
            BY <2>4, <3>3, FirstFill
        <3> QED BY <2>3, <3>1, <3>2, <3>3
    <2>6. Fetched(s, bridged \union Answer(s, Largest))
        <3>1. bridged \in SUBSET Served(s) /\ Largest \in Int
            BY <1>0, <2>5 DEF Fetched
        <3> QED BY <1>0, <3>1, FirstFill
    <2> QED BY <2>1, <2>3, <2>5, <2>6, CacheFetched
<1>4. CASE s \notin backlog /\ Gap(s, cache[s]) /\ backoff[s] = NoBackoff
    <2>1. Fetch(s, f) = Ladder(s, f)
        BY <1>4 DEF Fetch
    <2>2. CASE Ladder(s, f).bars # cache[s]
        <3>1. PICK k \in 1..Attempts :
                Ladder(s, f).bars = Merged(s, Answer(s, (Warmup + 1) * 2^(k - 1)))
            BY <2>2, LadderBars
        <3> DEFINE n == (Warmup + 1) * 2^(k - 1)
        <3>2. n \in Int /\ n >= Warmup + 1
            BY RungSize
        <3>3. cache[s] \in SUBSET Served(s)
            BY DEF CacheGood
        <3> HIDE DEF n
        <3>4. Fetched(s, cache[s] \union Answer(s, n))
            BY <3>2, <3>3, FirstFill
        <3> QED BY <2>1, <3>1, <3>4 DEF Merged, n
    <2> QED BY <1>1, <2>1, <2>2
<1>5. CASE s \in backlog
    <2>1. Fetch(s, f).bars = cache[s]
        BY <1>5 DEF Fetch, FailsAt
    <2> QED BY <1>1, <2>1
<1> QED BY <1>2, <1>3, <1>4, <1>5

\* A symbol with a mark: what a steady poll merges has no hole, or is more
\* than the cache may hold.
LEMMA MarkedSteady ==
    ASSUME Warmup > 1, SourceTypes, NEW s \in Symbols, CacheGood(s), mark[s] # None,
           ~Gap(s, cache[s]), NEW f
    PROVE  Fetched(s, Steady(s, f).bars)
<1> DEFINE C == cache[s]
           m == mark[s]
<1>1. /\ C \in SUBSET Nat /\ IsFiniteSet(C) /\ Cardinality(C) \in Nat
      /\ C \in SUBSET (0..released[s]) /\ C \subseteq Served(s)
      /\ \A b \in C : b <= released[s]
      /\ m \in Int /\ Good(C, m) /\ Warmup \in Nat
    BY CacheTypes, FeedAssumption DEF CacheGood
<1>2. Cardinality(C) >= Warmup /\ C # {} /\ m \in C /\ Solid(C)
    BY <1>1, SoundCache
<1>3. CASE Steady(s, f).bars = C
    BY <1>3, CacheFetched
<1>4. CASE Steady(s, f).bars # C
    <2>1. PICK n \in 1..Largest :
                /\ Steady(s, f).bars = cache[s] \union Answer(s, n)
                /\ \/ Reaches(Answer(s, n), Latest(cache[s]))
                   \/ Cardinality(Answer(s, n)) < n - 1
                   \/ n = Largest
        BY <1>4, SteadyBars
    <2> DEFINE T == Answer(s, n)
               U == C \union T
    <2>2. n \in Int /\ n >= Forming /\ n - Forming >= n - 1
        BY LargestSize, FeedAssumption
    <2>3. /\ T \in SUBSET Nat /\ IsFiniteSet(T) /\ Cardinality(T) \in Nat
          /\ T \subseteq Served(s) /\ T \in SUBSET (0..released[s])
          /\ TailTo(T, released[s])
        BY <2>2, AnswerTypes
    <2>4. /\ U \subseteq Served(s) /\ U \in SUBSET Nat /\ IsFiniteSet(U)
          /\ Cardinality(U) \in Nat /\ Cardinality(U) >= Warmup /\ m \in U
        <3>1. U \in SUBSET (0..released[s]) /\ C \in SUBSET U /\ m \in U
            BY <1>1, <1>2, <2>3
        <3>2. released[s] \in Nat
            BY ServedTypes
        <3>3. U \subseteq Served(s)
            BY <1>1, <2>3
        <3> HIDE DEF U, C
        <3>4. IsFiniteSet(U) /\ Cardinality(U) \in Nat /\ U \in SUBSET Nat
            BY <3>1, <3>2, FiniteBelow
        <3>5. Cardinality(C) <= Cardinality(U)
            BY <3>1, <3>4, FS_Subset
        <3> QED BY <1>1, <1>2, <3>1, <3>3, <3>4, <3>5
    <2>5. ASSUME Solid(U)
          PROVE  Fetched(s, U)
        <3>1. Good(U, m)
            <4> HIDE DEF U, m
            <4> QED BY <2>4, <2>5, SolidGood
        <3> QED BY <2>4, <3>1 DEF Fetched
    <2>6. CASE T = Served(s)
        <3>1. U = Served(s)
            BY <1>1, <2>6
        <3>2. Solid(Served(s))
            BY ServedTypes, TailSolid
        <3> QED BY <2>1, <2>5, <3>1, <3>2
    <2>7. CASE T = {}
        <3>1. U = C
            BY <2>7
        <3> QED BY <1>2, <2>1, <2>5, <3>1
    <2>8. CASE T # {} /\ T # Served(s)
        <3>1. Max(C) \in C /\ (\A b \in C : b <= Max(C)) /\ Min(T) \in T
              /\ \A b \in T : Min(T) <= b
            <4>1. released[s] \in Nat
                BY ServedTypes
            <4> HIDE DEF C, T
            <4> QED BY <1>1, <1>2, <2>3, <2>8, <4>1, MaxOfNaturals, MinOfNaturals
        <3>2. CASE Min(T) <= Max(C)
            <4>1. Solid(U)
                <5>1. released[s] \in Nat
                    BY ServedTypes
                <5> HIDE DEF C, T
                <5> QED BY <1>1, <1>2, <2>3, <3>1, <3>2, <5>1, Bridge
            <4> QED BY <2>1, <2>5, <4>1
        <3>3. CASE ~(Min(T) <= Max(C))
            <4>1. ~Reaches(T, Latest(C))
                <5>1. Latest(C) = Max(C) /\ Max(C) # None
                    BY <1>1, <1>2, <3>1 DEF Latest, None
                <5> QED BY <2>8, <3>3, <5>1 DEF Reaches
            <4>2. Cardinality(T) = n - Forming
                BY <2>2, <2>8, AnswerWhole
            <4>3. n = Largest
                <5> HIDE DEF T
                <5> QED BY <2>1, <2>2, <2>3, <4>1, <4>2, FeedAssumption DEF T
            <4>4. C \cap T = {}
                <5>1. \A b \in C : b \notin T
                    BY <1>1, <2>3, <3>1, <3>3
                <5> QED BY <5>1
            <4>5. Cardinality(U) = Cardinality(C) + Cardinality(T)
                <5>1. Cardinality(U) = Cardinality(C) + Cardinality(T)
                                          - Cardinality(C \cap T)
                    <6> HIDE DEF C, T
                    <6> QED BY <1>1, <2>3, FS_Union
                <5>2. Cardinality(C \cap T) = 0
                    <6> HIDE DEF C, T
                    <6> QED BY <4>4, FS_EmptySet
                <5> HIDE DEF C, T, U
                <5> QED BY <1>1, <2>3, <5>1, <5>2
            <4>6. Cardinality(U) > Largest
                <5> HIDE DEF C, T, U
                <5> QED BY <1>1, <1>2, <2>3, <4>2, <4>3, <4>5, LargestSize, FeedAssumption
            <4>7. Waiting(s, U) # {}
                <5>1. Min(T) > m /\ Min(T) \in U
                    BY <1>1, <1>2, <2>3, <3>1, <3>3
                <5> QED BY <5>1 DEF Waiting
            <4>8. Overflows(s, U)
                BY <4>6, <4>7 DEF Overflows
            <4> QED BY <2>1, <2>4, <4>8 DEF Fetched
        <3> QED BY <3>2, <3>3
    <2> QED BY <2>6, <2>7, <2>8
<1> QED BY <1>3, <1>4

\* With a gap, every answer merged leaves a good cache.
LEMMA MarkedWiden ==
    ASSUME Warmup > 1, SourceTypes, NEW s \in Symbols, mark[s] # None,
           mark[s] \in Int, mark[s] <= released[s],
           NEW R \in SUBSET Served(s), Good(R, mark[s]), Gap(s, R), NEW n \in Int,
           R # {} \/ (n >= Warmup + 1 /\ Cardinality(Served(s)) >= Warmup)
    PROVE  /\ R \union Answer(s, n) \in SUBSET Served(s)
           /\ Good(R \union Answer(s, n), mark[s])
           /\ R \union Answer(s, n) # {}
<1> DEFINE T == Answer(s, n)
           r == released[s]
<1>1. /\ r \in Nat /\ T \in SUBSET (0..r) /\ TailTo(T, r) /\ T \subseteq Served(s)
      /\ R \in SUBSET (0..r) /\ Cardinality(T) \in Nat /\ Warmup \in Nat
    BY AnswerTypes, ServedTypes, FeedAssumption
<1>2. R # {} \/ Cardinality(T) >= Warmup
    BY AnswerFills
<1>3. R = {} \/ Cardinality(Upto(R, mark[s])) < Warmup - 1
    BY <1>1, FiniteBelow, GapCache
<1>4. Good(R \union T, mark[s])
    <2> HIDE DEF T, r
    <2> QED BY <1>1, <1>2, <1>3, Widen DEF r
<1>5. R \union T # {}
    <2> HIDE DEF T, r
    <2> QED BY <1>1, <1>2, FS_EmptySet
<1> QED BY <1>1, <1>4, <1>5

LEMMA MarkedFetch ==
    ASSUME Warmup > 1, SourceTypes, NEW s \in Symbols, CacheGood(s), mark[s] # None,
           NEW f
    PROVE  /\ Fetched(s, Fetch(s, f).bars)
           /\ (Fetch(s, f).backoff # NoBackoff /\ s \notin backlog) =>
                  Fetch(s, f).bars # {}
<1>0. /\ Largest \in Int /\ Largest >= Warmup + 1 /\ Cardinality(Served(s)) >= Warmup
      /\ mark[s] \in Int /\ mark[s] <= released[s] /\ Good(cache[s], mark[s])
      /\ cache[s] \in SUBSET Served(s) /\ Warmup \in Nat
      /\ (backoff[s] # NoBackoff /\ s \notin backlog) => cache[s] # {}
    BY LargestSize, FeedAssumption DEF CacheGood
<1>1. CASE s \in backlog
    <2>1. Fetch(s, f).bars = cache[s]
        BY <1>1 DEF Fetch, FailsAt
    <2> QED BY <1>1, <2>1, CacheFetched
<1>2. CASE s \notin backlog /\ ~Gap(s, cache[s])
    <2>1. Fetch(s, f) = Steady(s, f)
        BY <1>2 DEF Fetch
    <2> QED BY <1>2, <2>1, MarkedSteady, SteadyBars
<1>3. CASE s \notin backlog /\ Gap(s, cache[s]) /\ backoff[s] # NoBackoff
    <2>1. Fetch(s, f) = Reprobe(s, f)
        BY <1>3 DEF Fetch
    <2>2. PICK n \in 1..Largest :
             \E bridged \in {cache[s], cache[s] \union Answer(s, n)} :
              /\ \/ bridged = cache[s]
                 \/ Reaches(Answer(s, n), Latest(cache[s]))
                 \/ Cardinality(Answer(s, n)) >= Warmup
              /\ \/ Reprobe(s, f).bars \in {cache[s], bridged}
                 \/ /\ Gap(s, bridged)
                    /\ Reprobe(s, f).bars = bridged \union Answer(s, Largest)
        BY ReprobeBars
    <2>3. PICK bridged \in {cache[s], cache[s] \union Answer(s, n)} :
              \/ Reprobe(s, f).bars \in {cache[s], bridged}
              \/ /\ Gap(s, bridged)
                 /\ Reprobe(s, f).bars = bridged \union Answer(s, Largest)
        BY <2>2
    <2>4. cache[s] # {} /\ n \in Int
        BY <1>0, <1>3
    <2>5. /\ bridged \in SUBSET Served(s) /\ Good(bridged, mark[s])
          /\ bridged # {}
        BY <1>0, <1>3, <2>3, <2>4, MarkedWiden
    <2>6. CASE Reprobe(s, f).bars \in {cache[s], bridged}
        BY <1>0, <2>1, <2>4, <2>5, <2>6 DEF Fetched
    <2>7. CASE /\ Gap(s, bridged)
               /\ Reprobe(s, f).bars = bridged \union Answer(s, Largest)
        BY <1>0, <2>1, <2>5, <2>7, MarkedWiden DEF Fetched
    <2> QED BY <2>3, <2>6, <2>7
<1>4. CASE s \notin backlog /\ Gap(s, cache[s]) /\ backoff[s] = NoBackoff
    <2>1. Fetch(s, f) = Ladder(s, f)
        BY <1>4 DEF Fetch
    <2>2. CASE Ladder(s, f).bars = cache[s] /\ Ladder(s, f).backoff = NoBackoff
        BY <2>1, <2>2, CacheFetched
    <2>3. CASE \E k \in 1..Attempts :
                  Ladder(s, f).bars = Merged(s, Answer(s, (Warmup + 1) * 2^(k - 1)))
        <3>1. PICK k \in 1..Attempts :
                Ladder(s, f).bars = Merged(s, Answer(s, (Warmup + 1) * 2^(k - 1)))
            BY <2>3
        <3> DEFINE n == (Warmup + 1) * 2^(k - 1)
        <3>2. n \in Int /\ n >= Warmup + 1
            BY RungSize
        <3>3. Ladder(s, f).bars = cache[s] \union Answer(s, n)
            BY <3>1 DEF Merged
        <3> HIDE DEF n
        <3> QED BY <1>0, <1>4, <2>1, <3>2, <3>3, MarkedWiden DEF Fetched
    <2> QED BY <2>2, <2>3, LadderBars
<1> QED BY <1>1, <1>2, <1>3, <1>4

(***************************************************************************)
(* What the cache keeps of it.                                             *)
(***************************************************************************)
LEMMA StoredFirst ==
    ASSUME NEW s, NEW R, mark[s] = None
    PROVE  Stored(s, R) = Newest(Warmup, R)
BY DEF Stored, Overflows, Waiting

LEMMA StoredMarked ==
    ASSUME Warmup > 1, SourceTypes, NEW s \in Symbols, CacheGood(s), mark[s] # None,
           NEW R, Fetched(s, R)
    PROVE  /\ Stored(s, R) \in SUBSET Served(s)
           /\ Good(Stored(s, R), mark[s])
           /\ (R # {} /\ ~Overflows(s, R)) => Stored(s, R) # {}
<1>1. /\ R \in SUBSET Served(s) /\ mark[s] \in Int /\ released[s] \in Nat
      /\ R \in SUBSET (0..released[s]) /\ R \in SUBSET Nat /\ IsFiniteSet(R)
      /\ cache[s] \in SUBSET Served(s) /\ Good(cache[s], mark[s])
      /\ Warmup \in Nat /\ Warmup >= 1
    <2>1. R \in SUBSET Served(s)
        BY DEF Fetched
    <2>2. R \in SUBSET (0..released[s]) /\ released[s] \in Nat
        BY <2>1, ServedTypes
    <2>3. Warmup \in Nat /\ Warmup >= 1
        BY FeedAssumption
    <2> QED BY <2>1, <2>2, <2>3, FiniteBelow DEF CacheGood
<1>2. CASE Overflows(s, R)
    BY <1>1, <1>2 DEF Stored
<1>3. CASE ~Overflows(s, R) /\ Waiting(s, R) # {}
    BY <1>1, <1>3 DEF Stored, Fetched
<1>4. CASE ~Overflows(s, R) /\ Waiting(s, R) = {}
    <2>1. Stored(s, R) = Newest(Warmup, R) /\ Good(R, mark[s])
        BY <1>4 DEF Stored, Fetched
    <2>2. R = Upto(R, mark[s])
        BY <1>1, <1>4, WaitingSplit
    <2>3. Solid(R) /\ (Upto(R, mark[s]) # {} => mark[s] \in R)
        BY <2>1, <2>2 DEF Good
    <2>4. CASE R = {}
        <3>1. Newest(Warmup, R) = {}
            BY <2>4, NewestSubset
        <3> QED BY <2>1, <2>4, <3>1
    <2>5. CASE R # {}
        <3>1. Cardinality(R) >= Warmup
            BY <2>1, <2>5 DEF Good
        <3>2. /\ Cardinality(Newest(Warmup, R)) >= Warmup
              /\ Good(Newest(Warmup, R), mark[s])
            BY <1>1, <2>3, <3>1, TrimGood
        <3>3. Newest(Warmup, R) \in SUBSET Served(s)
            BY <1>1, NewestSubset
        <3>4. Newest(Warmup, R) # {}
            BY <1>1, <3>2, FS_EmptySet
        <3> QED BY <2>1, <3>2, <3>3, <3>4
    <2> QED BY <2>4, <2>5
<1> QED BY <1>2, <1>3, <1>4

LEMMA FetchServed ==
    ASSUME SourceTypes, NEW s \in Symbols, cache[s] \subseteq Served(s), NEW f
    PROVE  Fetch(s, f).bars \subseteq Served(s)
<1>1. \A n \in Int : Answer(s, n) \subseteq Served(s)
    BY AnswerTypes
<1>2. \A n \in 1..Largest : n \in Int
    OBVIOUS
<1>3. Steady(s, f).bars \subseteq Served(s)
    BY <1>1, <1>2, SteadyBars
<1>4. Reprobe(s, f).bars \subseteq Served(s)
    <2>1. PICK n \in 1..Largest :
             \E bridged \in {cache[s], cache[s] \union Answer(s, n)} :
                 Reprobe(s, f).bars \in {cache[s], bridged,
                                         bridged \union Answer(s, Largest)}
        BY ReprobeBars
    <2>2. /\ Answer(s, n) \subseteq Served(s)
          /\ Answer(s, Largest) \subseteq Served(s)
        BY <1>1, <1>2, LargestSize
    <2> QED BY <2>1, <2>2
<1>5. Ladder(s, f).bars \subseteq Served(s)
    <2>1. \A k \in 1..Attempts : (Warmup + 1) * 2^(k - 1) \in Int
        BY RungSize
    <2>2. \A k \in 1..Attempts :
             Merged(s, Answer(s, (Warmup + 1) * 2^(k - 1))) \subseteq Served(s)
        BY <1>1, <2>1 DEF Merged
    <2> QED BY <2>2, LadderBars
<1>6. FailsAt(s, asked[s], backoff[s]).bars = cache[s]
    BY DEF FailsAt
<1> QED BY <1>3, <1>4, <1>5, <1>6 DEF Fetch

LEMMA StoredServed ==
    ASSUME NEW s, cache[s] \subseteq Served(s), NEW R, R \subseteq Served(s)
    PROVE  Stored(s, R) \subseteq Served(s)
BY NewestSubset DEF Stored

(***************************************************************************)
(* The inductive invariant of a simulated run's history.                   *)
(***************************************************************************)
\* Which bars the caches, marks and checkpointed marks may name.
HistoryTypes ==
    /\ SourceTypes
    /\ mark \in [Symbols -> Int] /\ saved.mark \in [Symbols -> Int]
    /\ \A s \in Symbols :
          /\ cache[s] \subseteq Served(s)
          /\ mark[s] <= released[s] /\ saved.mark[s] <= released[s]
          /\ (mark[s] # None \/ saved.mark[s] # None) =>
                 Cardinality(Served(s)) >= Warmup
    /\ phase \in {"execute", "decide", "mark"} => due # {}
    /\ phase = "decide" => DOMAIN bars = Present

\* While a cycle is due every symbol has its whole window, without a hole.
CachesGood ==
    Warmup > 1 =>
        \A s \in Symbols :
            /\ CacheGood(s)
            /\ due # {} => /\ Solid(cache[s])
                           /\ Cardinality(cache[s]) >= Warmup

HistoryInv == mode = "shadow" => HistoryTypes /\ CachesGood

LEMMA HistoryInit ==
    ASSUME Init
    PROVE  HistoryInv
<1> SUFFICES ASSUME mode = "shadow"
             PROVE  HistoryTypes /\ CachesGood
    BY DEF HistoryInv
<1>1. /\ phase = "idle" /\ start \in [Symbols -> FirstBars]
      /\ released = [s \in Symbols |-> Warmup - 1]
      /\ cache = [s \in Symbols |-> {}] /\ backoff = [s \in Symbols |-> NoBackoff]
      /\ mark = [s \in Symbols |-> None] /\ due = {} /\ saved.mark = mark
    BY DEF Init, InitShadow, InitFeed, Snapshot
<1>2. FirstBars \subseteq Nat /\ Warmup - 1 \in Nat /\ None \in Int /\ None = -1
    BY FeedAssumption DEF None
<1>3. SourceTypes
    BY <1>1, <1>2 DEF SourceTypes
<1>4. HistoryTypes
    BY <1>1, <1>2, <1>3 DEF HistoryTypes
<1>5. CachesGood
    BY <1>1, <1>2 DEF CachesGood, CacheGood, Solid
<1> QED BY <1>4, <1>5

\* A step that leaves the feed alone keeps the invariant.
Quiet ==
    /\ UNCHANGED <<mode, start, released, cache, backoff, backlog, mark>>
    /\ due' \in {due, {}}
    /\ saved' = saved \/ saved'.mark = mark
    /\ phase' \in {"execute", "decide", "mark"} => due' = due /\ due # {}
    /\ phase' = "decide" => DOMAIN bars' = Present

LEMMA QuietStep ==
    ASSUME HistoryTypes, CachesGood, Quiet
    PROVE  HistoryTypes' /\ CachesGood'
<1>1. \A s : Served(s)' = Served(s)
    BY DEF Quiet, Served
<1>2. SourceTypes'
    BY DEF Quiet, SourceTypes, HistoryTypes
<1>3. saved'.mark \in {saved.mark, mark}
    BY DEF Quiet
<1>4. phase' = "decide" => Present' = Present
    BY DEF Quiet, Present, Event
<1>5. HistoryTypes'
    BY <1>1, <1>2, <1>3, <1>4 DEF Quiet, HistoryTypes
<1>6. ASSUME NEW s \in Symbols
      PROVE  CacheGood(s)' <=> CacheGood(s)
    BY <1>1 DEF Quiet, CacheGood, Good, Upto, Solid, NoBackoff, None
<1>7. CachesGood'
    BY <1>6 DEF Quiet, CachesGood, Solid
<1> QED BY <1>5, <1>7

\* The steps of a cycle between its poll and its mark are quiet.
LEMMA CheckpointQuiet ==
    ASSUME NEW next, Checkpoint(next, due), mark' = mark
    PROVE  /\ due' \in {due, {}}
           /\ saved' = saved \/ saved'.mark = mark
           /\ (phase' = next /\ due' = due) \/ phase' = "idle"
BY DEF Checkpoint, GivesUp, Snapshot

LEMMA CohortQuiet ==
    ASSUME bars' = Cohort
    PROVE  DOMAIN bars' = Present
BY DEF Cohort

LEMMA CycleQuiet ==
    ASSUME HistoryTypes, mode' = mode,
           \/ RejectEvent \/ SkipExecution \/ ExecuteHalted \/ ExecutePending
           \/ FeaturesFail \/ ShadowBreach \/ ShadowStaysHalted
           \/ \E i, t : ShadowDecide(i, t)
    PROVE  Quiet
<1>0. /\ phase \in {"execute", "decide", "mark"} => due # {}
      /\ phase = "decide" => DOMAIN bars = Present
    BY DEF HistoryTypes
<1>1. CASE RejectEvent
    BY <1>0, <1>1 DEF RejectEvent, GivesUp, Elsewhere, Quiet
<1>2. CASE SkipExecution
    BY <1>0, <1>2, CohortQuiet DEF SkipExecution, Elsewhere, Quiet
<1>3. CASE ExecuteHalted
    <2>1. /\ Checkpoint("decide", due) /\ mark' = mark /\ phase = "execute"
          /\ UNCHANGED <<start, released, cache, backoff, backlog>>
          /\ bars' = Cohort
        BY <1>3 DEF ExecuteHalted, Executable, Executed, Elsewhere
    <2> QED BY <1>0, <2>1, CheckpointQuiet, CohortQuiet DEF Quiet
<1>4. CASE ExecutePending
    <2>1. /\ mark' = mark /\ phase = "execute"
          /\ UNCHANGED <<start, released, cache, backoff, backlog>>
          /\ \/ Checkpoint("decide", due) /\ bars' = Cohort
             \/ GivesUp /\ saved' = saved
        BY <1>4 DEF ExecutePending, MayTrade, Executable, Executed, Elsewhere
    <2>2. CASE Checkpoint("decide", due) /\ bars' = Cohort
        BY <1>0, <2>1, <2>2, CheckpointQuiet, CohortQuiet DEF Quiet
    <2>3. CASE GivesUp /\ saved' = saved
        BY <2>1, <2>3 DEF GivesUp, Quiet
    <2> QED BY <2>1, <2>2, <2>3
<1>5. CASE FeaturesFail
    BY <1>0, <1>5 DEF FeaturesFail, GivesUp, Elsewhere, Quiet
<1>6. CASE ShadowBreach \/ ShadowStaysHalted
    <2>1. /\ Checkpoint("mark", due) /\ mark' = mark /\ phase = "decide"
          /\ UNCHANGED <<start, released, cache, backoff, backlog>>
        BY <1>6 DEF ShadowBreach, ShadowStaysHalted, Elsewhere
    <2> QED BY <1>0, <2>1, CheckpointQuiet DEF Quiet
<1>7. CASE \E i, t : ShadowDecide(i, t)
    <2>1. PICK i, t : ShadowDecide(i, t)
        BY <1>7
    <2>2. /\ mark' = mark /\ phase = "decide"
          /\ UNCHANGED <<start, released, cache, backoff, backlog>>
          /\ Checkpoint("mark", due) \/ (GivesUp /\ saved' = saved)
        BY <2>1 DEF ShadowDecide, Elsewhere
    <2>3. CASE Checkpoint("mark", due)
        BY <1>0, <2>2, <2>3, CheckpointQuiet DEF Quiet
    <2>4. CASE GivesUp /\ saved' = saved
        BY <2>2, <2>4 DEF GivesUp, Quiet
    <2> QED BY <2>2, <2>3, <2>4
<1> QED BY <1>1, <1>2, <1>3, <1>4, <1>5, <1>6, <1>7

\* What the source serves only grows.
LEMMA TickStep ==
    ASSUME HistoryTypes, CachesGood, Tick
    PROVE  HistoryTypes' /\ CachesGood'
<1>0. UNCHANGED <<phase, bars, cache, backoff, backlog, mark, due, saved>>
    BY DEF Tick, runVars, Releases, Backfill
<1>1. SourceTypes' /\ \A s \in Symbols : /\ start'[s] <= start[s]
                                         /\ released[s] <= released'[s]
    <2>1. CASE Releases
        <3>1. PICK upto \in [Symbols -> 0..FeedBars] :
                  /\ \A s \in Symbols : upto[s] \in released[s]..Closed(now + 1)
                  /\ released' = upto
            BY <2>1 DEF Releases
        <3>2. start' = start
            BY <2>1 DEF Releases
        <3>3. \A s \in Symbols : /\ upto[s] \in Nat /\ released[s] \in Nat
                                 /\ start[s] \in Nat /\ released[s] <= upto[s]
            BY <3>1 DEF HistoryTypes, SourceTypes
        <3> QED BY <3>1, <3>2, <3>3 DEF HistoryTypes, SourceTypes
    <2>2. CASE \E t \in Symbols : Backfill(t)
        <3>1. PICK t \in Symbols : start[t] > 0 /\ start' = [start EXCEPT ![t] = @ - 1]
            BY <2>2 DEF Backfill
        <3>2. released' = released
            BY <2>2 DEF Backfill
        <3> QED BY <3>1, <3>2 DEF HistoryTypes, SourceTypes
    <2> QED BY <2>1, <2>2 DEF Tick
<1>2. ASSUME NEW s \in Symbols
      PROVE  /\ Served(s) \in SUBSET (Served(s)') /\ Cardinality(Served(s)') \in Int
             /\ Cardinality(Served(s)) <= Cardinality(Served(s)')
             /\ released[s] <= released'[s] /\ Cardinality(Served(s)) \in Int
             /\ released[s] \in Int /\ released'[s] \in Int
    <2>1. /\ start[s] \in Nat /\ released[s] \in Nat
          /\ start'[s] \in Nat /\ released'[s] \in Nat
          /\ start'[s] <= start[s] /\ released[s] <= released'[s]
        BY <1>1 DEF HistoryTypes, SourceTypes
    <2>2. start[s]..released[s] \in SUBSET (start'[s]..released'[s])
        BY <2>1
    <2>3. /\ IsFiniteSet(start'[s]..released'[s])
          /\ IsFiniteSet(start[s]..released[s])
        <3>1. \A a, b \in Int : IsFiniteSet(a..b)
            BY FS_Interval
        <3> QED BY <2>1, <3>1
    <2>4. /\ Cardinality(start'[s]..released'[s]) \in Nat
          /\ Cardinality(start[s]..released[s]) \in Nat
          /\ Cardinality(start[s]..released[s]) <= Cardinality(start'[s]..released'[s])
        BY <2>2, <2>3, FS_Subset, FS_CardinalityType
    <2> QED BY <2>1, <2>2, <2>4 DEF Served
<1>3. phase' = "decide" => Present' = Present
    BY <1>0 DEF Present, Event
<1>4. Warmup \in Int
    BY FeedAssumption
<1>5. ASSUME NEW s \in Symbols
      PROVE  /\ cache'[s] \subseteq Served(s)'
             /\ mark'[s] <= released'[s] /\ saved'.mark[s] <= released'[s]
             /\ (mark'[s] # None \/ saved'.mark[s] # None) =>
                    Cardinality(Served(s)') >= Warmup
    BY <1>0, <1>2, <1>4 DEF HistoryTypes
<1>6. HistoryTypes'
    BY <1>0, <1>1, <1>3, <1>5 DEF HistoryTypes, None
<1>7. ASSUME NEW s \in Symbols, CacheGood(s)
      PROVE  CacheGood(s)'
    <2>1. mark'[s] # None => Cardinality(Served(s)') >= Warmup
        BY <1>5
    <2>2. cache'[s] \subseteq Served(s)' /\ mark'[s] <= released'[s]
        BY <1>5
    <2> QED BY <1>0, <1>7, <2>1, <2>2 DEF CacheGood, Good, Upto, Solid, None, NoBackoff
<1>8. CachesGood'
    BY <1>0, <1>7 DEF CachesGood, Solid
<1> QED BY <1>6, <1>8

\* A poll fetches, stores and, when nothing is due, trims.
LEMMA PollStep ==
    ASSUME HistoryTypes, CachesGood, NEW fails, Poll(fails)
    PROVE  HistoryTypes' /\ CachesGood'
<1> DEFINE got(s) == Fetch(s, fails[s])
           b(s) == Stored(s, got(s).bars)
           all == [s \in Symbols |-> Fetch(s, fails[s])]
           bs == [s \in Symbols |-> b(s)]
           over == {s \in Symbols : Overflows(s, got(s).bars)}
           usable == /\ backlog \union over = {}
                     /\ \A s \in Symbols : /\ all[s].ok
                                           /\ ~Gap(s, bs[s])
                                           /\ ~Stale(s, bs[s])
<1>1. /\ UNCHANGED <<start, released, mark, saved, bars>>
      /\ backoff' = [s \in Symbols |-> got(s).backoff]
      /\ backlog' = backlog \union over
      /\ phase' = IF due' = {} THEN "idle" ELSE "execute"
      /\ cache' = bs \/ (cache' = Trimmed(bs) /\ due' = {} /\ usable)
      /\ due' # {} => cache' = bs /\ usable
      /\ usable => \A s \in Symbols : ~Gap(s, bs[s])
    <2>1. PICK g \in {[s \in Symbols |-> Fetch(s, fails[s])]} :
             \E c \in {[s \in Symbols |-> Stored(s, g[s].bars)]} :
              LET o == {s \in Symbols : Overflows(s, g[s].bars)}
                  u == /\ backlog \union o = {}
                       /\ \A s \in Symbols : /\ g[s].ok
                                             /\ ~Gap(s, c[s])
                                             /\ ~Stale(s, c[s])
              IN /\ backoff' = [s \in Symbols |-> g[s].backoff]
                 /\ backlog' = backlog \union o
                 /\ due' = IF u THEN Released(c) ELSE {}
                 /\ cache' = IF u /\ due' = {} THEN Trimmed(c) ELSE c
                 /\ phase' = IF due' = {} THEN "idle" ELSE "execute"
        BY DEF Poll
    <2>2. g = all /\ \A s \in Symbols : g[s] = got(s)
        OBVIOUS
    <2>3. {s \in Symbols : Overflows(s, g[s].bars)} = over
        BY <2>2
    <2>4. [s \in Symbols |-> Stored(s, g[s].bars)] = bs
        BY <2>2
    <2>5. [s \in Symbols |-> g[s].backoff] = [s \in Symbols |-> got(s).backoff]
        BY <2>2
    <2>6. /\ \A s \in Symbols : g[s].ok <=> all[s].ok
          /\ UNCHANGED <<start, released, mark, saved, bars>>
        BY <2>2 DEF Poll
    <2> HIDE DEF over, bs, got, all
    <2> QED BY <2>1, <2>2, <2>3, <2>4, <2>5, <2>6 DEF usable
<1>2. \A s \in Symbols : bs[s] = b(s)
    OBVIOUS
<1>3. /\ \A s : Served(s)' = Served(s)
      /\ SourceTypes /\ SourceTypes'
    BY <1>1 DEF Served, SourceTypes, HistoryTypes
<1>4. ASSUME NEW s \in Symbols
      PROVE  /\ b(s) \subseteq Served(s) /\ cache'[s] \in {b(s), Newest(Warmup, b(s))}
             /\ cache'[s] \subseteq Served(s)
    <2>1. b(s) \subseteq Served(s)
        <3> HIDE DEF b, got
        <3>1. got(s).bars \subseteq Served(s)
            BY <1>3, FetchServed DEF HistoryTypes, got
        <3> QED BY <3>1, StoredServed DEF HistoryTypes, b
    <2>2. cache'[s] \in {b(s), Newest(Warmup, b(s))}
        <3> HIDE DEF bs, b
        <3> QED BY <1>1, <1>2 DEF Trimmed
    <2> HIDE DEF b
    <2> QED BY <2>1, <2>2, NewestSubset
<1>5. HistoryTypes'
    <2> HIDE DEF bs, b, over
    <2> QED BY <1>1, <1>3, <1>4 DEF HistoryTypes, None
<1>6. ASSUME Warmup > 1, NEW s \in Symbols
      PROVE  /\ CacheGood(s)'
             /\ due' # {} => Solid(cache'[s]) /\ Cardinality(cache'[s]) >= Warmup
    <2> DEFINE r == released[s]
               m == mark[s]
    <2>1. CacheGood(s) /\ Warmup \in Nat /\ Warmup >= 1
        <3>1. CacheGood(s)
            BY <1>6 DEF CachesGood
        <3>2. Warmup \in Nat /\ Warmup >= 1
            BY FeedAssumption
        <3> QED BY <3>1, <3>2
    <2>2. /\ r \in Nat /\ m \in Int /\ b(s) \in SUBSET (0..r)
          /\ b(s) \in SUBSET Nat /\ IsFiniteSet(b(s)) /\ Cardinality(b(s)) \in Nat
        <3> HIDE DEF b
        <3>1. r \in Nat /\ m \in Int /\ b(s) \in SUBSET (0..r)
            BY <1>3, <1>4, ServedTypes DEF HistoryTypes
        <3> QED BY <3>1, FiniteBelow
    <2>3. CASE m = None
        <3>1. Fetched(s, got(s).bars)
            BY <1>3, <2>1, <2>3, FirstFetch
        <3>2. Solid(b(s))
            BY <2>3, <3>1, StoredFirst DEF Fetched
        <3> HIDE DEF b, got, bs, over
        <3>3. Solid(cache'[s])
            BY <1>4, <2>1, <2>2, <3>2, NewestSolid
        <3>4. CacheGood(s)'
            BY <1>1, <1>3, <1>4, <2>1, <2>3, <3>3 DEF CacheGood, Solid, None
        <3>5. due' # {} => cache'[s] = b(s) /\ Cardinality(b(s)) >= Warmup
            <4> SUFFICES ASSUME due' # {}
                         PROVE  cache'[s] = b(s) /\ Cardinality(b(s)) >= Warmup
                OBVIOUS
            <4>1. cache' = bs /\ ~Gap(s, bs[s])
                BY <1>1
            <4>2. cache'[s] = b(s) /\ ~Gap(s, b(s))
                BY <1>2, <4>1
            <4>3. ~(Cardinality(b(s)) < Warmup)
                BY <4>2 DEF Gap
            <4> QED BY <2>1, <2>2, <4>2, <4>3
        <3> QED BY <3>3, <3>4, <3>5
    <2>4. CASE m # None
        <3>1. /\ Fetched(s, got(s).bars)
              /\ (got(s).backoff # NoBackoff /\ s \notin backlog) => got(s).bars # {}
            BY <1>3, <1>6, <2>1, <2>4, MarkedFetch
        <3>2. /\ Good(b(s), m)
              /\ (got(s).bars # {} /\ ~Overflows(s, got(s).bars)) => b(s) # {}
            <4> HIDE DEF got
            <4> QED BY <1>3, <1>6, <2>1, <2>4, <3>1, StoredMarked
        <3>3. s \in over <=> Overflows(s, got(s).bars)
            OBVIOUS
        <3>4. (backoff'[s] # NoBackoff /\ s \notin backlog') => b(s) # {}
            <4> HIDE DEF got, b, over
            <4> QED BY <1>1, <3>1, <3>2, <3>3
        <3>5. usable =>
                  /\ Cardinality(b(s)) >= Warmup /\ Solid(b(s)) /\ m \in b(s)
            <4>1. SUFFICES ASSUME ~Gap(s, b(s))
                           PROVE  /\ Cardinality(b(s)) >= Warmup /\ Solid(b(s))
                                  /\ m \in b(s)
                <5> HIDE DEF bs, b, got, over, usable
                <5> QED BY <1>1, <1>2
            <4> HIDE DEF bs, b, got, over
            <4> QED BY <1>6, <2>2, <2>4, <3>2, <4>1, SoundCache
        <3> HIDE DEF bs, b, got, over, usable
        <3>6. CASE cache' = bs
            <4>1. cache'[s] = b(s)
                BY <1>2, <3>6
            <4>2. CacheGood(s)'
                BY <1>1, <1>3, <1>4, <2>1, <2>4, <3>2, <3>4, <4>1
                   DEF CacheGood, Good, Upto, Solid, None, NoBackoff
            <4> QED BY <1>1, <3>5, <4>1, <4>2
        <3>7. CASE cache' = Trimmed(bs) /\ due' = {} /\ usable
            <4>1. cache'[s] = Newest(Warmup, b(s))
                BY <1>2, <3>7 DEF Trimmed
            <4>2. /\ Good(cache'[s], m) /\ Cardinality(cache'[s]) >= Warmup
                BY <2>2, <3>5, <3>7, <4>1, TrimGood
            <4>3. cache'[s] # {}
                BY <2>1, <4>2, FS_EmptySet
            <4>4. CacheGood(s)'
                BY <1>1, <1>3, <1>4, <2>1, <2>4, <4>2, <4>3
                   DEF CacheGood, Good, Upto, Solid, None, NoBackoff
            <4> QED BY <3>7, <4>4
        <3> QED BY <1>1, <3>6, <3>7
    <2> QED BY <2>3, <2>4
<1>7. CachesGood'
    BY <1>6 DEF CachesGood, Solid
<1> QED BY <1>5, <1>7

\* A mark moves to a bar the cache holds, which has no hole.
LEMMA MarkStep ==
    ASSUME HistoryTypes, CachesGood, Mark
    PROVE  HistoryTypes' /\ CachesGood'
<1> DEFINE rest == {c \in due : c[1] # Event}
<1>1. /\ UNCHANGED <<start, released, backoff, backlog>> /\ phase = "mark"
      /\ mark' = [s \in Symbols |-> IF s \in Advanced THEN Event ELSE mark[s]]
      /\ cache' = cache \/ (cache' = Trimmed(cache) /\ rest = {})
      /\ saved' = saved \/ saved'.mark = mark'
      /\ due' \in {rest, {}}
      /\ phase' = "idle" \/ (rest # {} /\ due' = rest /\ phase' = "execute")
    BY DEF Mark, Elsewhere, Checkpoint, GivesUp, Snapshot
<1>2. /\ \A s : Served(s)' = Served(s)
      /\ SourceTypes /\ SourceTypes' /\ due # {}
    BY <1>1 DEF Served, SourceTypes, HistoryTypes
<1>3. ASSUME NEW s \in Symbols
      PROVE  /\ cache[s] \in SUBSET (0..released[s]) /\ released[s] \in Nat
             /\ cache'[s] \in {cache[s], Newest(Warmup, cache[s])}
             /\ cache'[s] \subseteq Served(s)
             /\ Warmup \in Nat /\ Warmup >= 1 /\ cache[s] \subseteq Served(s)
             /\ mark[s] \in Int /\ Cardinality(Served(s)) \in Nat
    <2>1. cache[s] \in SUBSET Served(s)
        BY DEF HistoryTypes
    <2>2. cache'[s] \in {cache[s], Newest(Warmup, cache[s])}
        BY <1>1 DEF Trimmed
    <2>3. Warmup \in Nat /\ Warmup >= 1
        BY FeedAssumption
    <2>4. /\ cache[s] \in SUBSET (0..released[s]) /\ released[s] \in Nat
          /\ mark[s] \in Int /\ Cardinality(Served(s)) \in Nat
        BY <1>2, <2>1, ServedTypes DEF HistoryTypes
    <2> QED BY <2>1, <2>2, <2>3, <2>4, NewestSubset
<1>4. ASSUME NEW s \in Advanced
      PROVE  /\ s \in Symbols /\ Event \in cache[s] /\ Event \in Nat
             /\ Event <= released[s] /\ mark'[s] = Event
             /\ Cardinality(Served(s)) >= Warmup
    <2>1. s \in Symbols /\ Event \in cache[s]
        BY DEF Advanced, Present
    <2>2. Event \in Nat /\ Event <= released[s]
        BY <1>3, <2>1
    <2>3. mark'[s] = Event
        BY <1>1, <2>1
    <2>4. IsFiniteSet(Served(s)) /\ cache[s] \in SUBSET Served(s)
        BY <1>2, <1>3, <2>1, ServedTypes
    <2>5. Cardinality(Served(s)) >= Warmup
        <3>1. CASE Warmup > 1
            <4>1. Cardinality(cache[s]) >= Warmup
                BY <1>2, <2>1, <3>1 DEF CachesGood
            <4>2. /\ Cardinality(cache[s]) <= Cardinality(Served(s))
                  /\ Cardinality(cache[s]) \in Nat
                BY <2>4, FS_Subset, FS_CardinalityType
            <4> QED BY <1>3, <2>1, <4>1, <4>2
        <3>2. CASE ~(Warmup > 1)
            <4>1. Served(s) # {}
                BY <2>1, <2>4
            <4>2. Cardinality(Served(s)) # 0
                BY <2>4, <4>1, FS_EmptySet
            <4> QED BY <1>3, <2>1, <3>2, <4>2
        <3> QED BY <3>1, <3>2
    <2> QED BY <2>1, <2>2, <2>3, <2>5
<1>5. ASSUME NEW s \in Symbols, s \notin Advanced
      PROVE  mark'[s] = mark[s]
    BY <1>1, <1>5
<1>6. ASSUME NEW s \in Symbols
      PROVE  /\ mark'[s] \in Int /\ mark'[s] <= released[s]
             /\ mark'[s] # None => Cardinality(Served(s)) >= Warmup
             /\ mark'[s] = None => mark[s] = None
    <2>1. CASE s \in Advanced
        BY <1>4, <2>1 DEF None
    <2>2. CASE s \notin Advanced
        BY <1>3, <1>5, <2>2 DEF HistoryTypes
    <2> QED BY <2>1, <2>2
<1>7. mark' \in [Symbols -> Int]
    BY <1>1, <1>6
<1>8. /\ saved'.mark \in [Symbols -> Int]
      /\ \A s \in Symbols :
            /\ saved'.mark[s] <= released[s]
            /\ saved'.mark[s] # None => Cardinality(Served(s)) >= Warmup
    BY <1>1, <1>6, <1>7 DEF HistoryTypes
<1>9. HistoryTypes'
    <2>1. phase' \in {"execute", "decide", "mark"} => due' # {}
        BY <1>1
    <2>2. ~(phase' = "decide")
        BY <1>1
    <2> HIDE DEF rest
    <2> QED BY <1>1, <1>2, <1>3, <1>6, <1>7, <1>8, <2>1, <2>2 DEF HistoryTypes, None
<1>10. ASSUME Warmup > 1, NEW s \in Symbols
       PROVE  /\ CacheGood(s)'
              /\ due' # {} => Solid(cache'[s]) /\ Cardinality(cache'[s]) >= Warmup
    <2>1. CacheGood(s) /\ Solid(cache[s]) /\ Cardinality(cache[s]) >= Warmup
        BY <1>2, <1>10 DEF CachesGood
    <2>2. due' # {} => cache'[s] = cache[s]
        BY <1>1
    <2>3. \/ /\ Good(cache[s], mark'[s])
             /\ Upto(cache[s], mark'[s]) # {} => mark'[s] \in cache[s]
          \/ mark'[s] = None
        <3>1. CASE s \in Advanced
            <4>1. cache[s] \in SUBSET Nat
                BY <1>3, FiniteBelow
            <4> QED BY <1>4, <2>1, <3>1, <4>1, SolidGood
        <3>2. CASE s \notin Advanced
            BY <1>5, <2>1, <3>2 DEF CacheGood, Good
        <3> QED BY <3>1, <3>2
    <2>4. /\ Solid(cache'[s]) /\ Cardinality(cache'[s]) >= Warmup
          /\ mark'[s] # None => Good(cache'[s], mark'[s])
        <3>1. CASE cache'[s] = cache[s]
            BY <2>1, <2>3, <3>1
        <3>2. CASE cache'[s] = Newest(Warmup, cache[s])
            <4>1. /\ Solid(Newest(Warmup, cache[s]))
                  /\ Cardinality(Newest(Warmup, cache[s])) >= Warmup
                <5> DEFINE C == cache[s]
                           r == released[s]
                <5>0. r \in Nat /\ C \in SUBSET (0..r)
                    BY <1>3
                <5>1. C \in SUBSET Nat /\ IsFiniteSet(C)
                    <6> HIDE DEF C, r
                    <6> QED BY <5>0, FiniteBelow
                <5>2. Solid(Newest(Warmup, cache[s]))
                    BY <1>3, <2>1, <5>1, NewestSolid
                <5>3. Cardinality(Newest(Warmup, cache[s])) >= Warmup
                    BY <1>3, <2>1, NewestOfSolid
                <5> QED BY <5>2, <5>3
            <4>2. mark'[s] # None => Good(Newest(Warmup, cache[s]), mark'[s])
                BY <1>3, <1>6, <2>1, <2>3, TrimGood
            <4> QED BY <3>2, <4>1, <4>2
        <3> QED BY <1>3, <3>1, <3>2
    <2>5. cache'[s] # {}
        BY <1>3, <2>4, FS_EmptySet
    <2>6. CacheGood(s)'
        BY <1>1, <1>2, <1>3, <1>6, <2>4, <2>5
           DEF CacheGood, Good, Upto, Solid, None, NoBackoff
    <2> QED BY <2>4, <2>6
<1>11. CachesGood'
    BY <1>10 DEF CachesGood, Solid
<1> QED BY <1>9, <1>11

\* A new process has the checkpoint's marks and empty caches.
LEMMA CrashStep ==
    ASSUME HistoryTypes, CachesGood, Crash
    PROVE  HistoryTypes' /\ CachesGood'
<1>1. /\ UNCHANGED <<start, released, saved>> /\ mark' = saved.mark
      /\ cache' = [s \in Symbols |-> {}] /\ backoff' = [s \in Symbols |-> NoBackoff]
      /\ due' = {} /\ phase' = "idle"
    BY DEF Crash, GivesUp
<1>2. /\ \A s : Served(s)' = Served(s)
      /\ SourceTypes'
    BY <1>1 DEF Served, SourceTypes, HistoryTypes
<1>3. HistoryTypes'
    BY <1>1, <1>2 DEF HistoryTypes, None
<1>4. ASSUME Warmup > 1, NEW s \in Symbols
      PROVE  CacheGood(s)'
    <2>1. Good({}, mark'[s]) /\ Solid({})
        BY <1>4, EmptyGood DEF Solid
    <2> QED BY <1>1, <1>2, <2>1
            DEF CacheGood, HistoryTypes, Good, Upto, Solid, None, NoBackoff
<1>5. CachesGood'
    BY <1>1, <1>4 DEF CachesGood
<1> QED BY <1>3, <1>5

LEMMA HistoryNext ==
    ASSUME HistoryInv, [Next]_vars
    PROVE  HistoryInv'
<1> SUFFICES ASSUME mode' = "shadow"
             PROVE  HistoryTypes' /\ CachesGood'
    BY DEF HistoryInv
<1>1. mode = mode'
    BY DEF Next, vars
<1>2. HistoryTypes /\ CachesGood
    BY <1>1 DEF HistoryInv
<1>3. NextShadow \/ UNCHANGED vars
    BY <1>1 DEF Next
<1>4. CASE Tick
    BY <1>2, <1>4, TickStep
<1>5. CASE AnyPoll
    BY <1>2, <1>5, PollStep DEF AnyPoll
<1>6. CASE \/ RejectEvent \/ SkipExecution \/ ExecuteHalted \/ ExecutePending
           \/ FeaturesFail \/ ShadowBreach \/ ShadowStaysHalted
           \/ \E i, t : ShadowDecide(i, t)
    BY <1>1, <1>2, <1>6, CycleQuiet, QuietStep
<1>7. CASE Mark
    BY <1>2, <1>7, MarkStep
<1>8. CASE Crash
    BY <1>2, <1>8, CrashStep
<1>9. CASE UNCHANGED vars
    <2>1. Quiet
        BY <1>2, <1>9 DEF vars, runVars, shadowVars, feedVars, Quiet, HistoryTypes
    <2> QED BY <1>2, <2>1, QuietStep
<1> QED BY <1>3, <1>4, <1>5, <1>6, <1>7, <1>8, <1>9 DEF NextShadow

\* In a simulated run the cache of a symbol has no hole between the bars that
\* surround its mark, and while a cycle is due every symbol has its whole
\* window (_fetch_with_cache, _store_runtime_cache, _warmup_gap).
THEOREM HistoryInvariance == Spec => []HistoryInv
<1>1. Init => HistoryInv
    BY HistoryInit
<1>2. HistoryInv /\ [Next]_vars => HistoryInv'
    BY HistoryNext
<1> QED BY <1>1, <1>2, PTL DEF Spec

(***************************************************************************)
(* The window of a decision.                                               *)
(***************************************************************************)
LEMMA PairSize ==
    ASSUME NEW a, NEW b, a # b
    PROVE  Cardinality({a, b}) = 2
<1>1. IsFiniteSet({a}) /\ Cardinality({a}) = 1
    BY FS_Singleton
<1>2. Cardinality({a} \cup {b}) = 2
    <2>1. b \notin {a}
        OBVIOUS
    <2>2. Cardinality({a} \cup {b}) = Cardinality({a}) + 1
        BY <1>1, <2>1, FS_AddElement
    <2> QED BY <1>1, <2>2
<1>3. {a, b} = {a} \cup {b}
    OBVIOUS
<1> QED BY <1>2, <1>3

\* It ends at the bar decided on.
LEMMA WindowEnds ==
    ASSUME HistoryTypes, NEW s \in Present
    PROVE  /\ {b \in cache[s] : b <= Event} \in SUBSET Nat
           /\ IsFiniteSet({b \in cache[s] : b <= Event})
           /\ Event \in Nat /\ Event \in Window(s)
           /\ \A b \in Window(s) : b <= Event
<1> DEFINE S == {b \in cache[s] : b <= Event}
<1>1. s \in Symbols /\ Event \in cache[s]
    BY DEF Present
<1>2. released[s] \in Nat /\ cache[s] \in SUBSET (0..released[s])
    BY <1>1, ServedTypes DEF HistoryTypes
<1>3. Event \in Nat /\ Event \in S /\ S \in SUBSET (0..released[s])
    BY <1>1, <1>2
<1>4. S \in SUBSET Nat /\ IsFiniteSet(S)
    <2> HIDE DEF S
    <2> QED BY <1>2, <1>3, FiniteBelow
<1>5. {c \in S : c >= Event} = {Event}
    BY <1>3
<1>6. Cardinality({c \in S : c >= Event}) = 1
    BY <1>5, FS_Singleton
<1>7. Event \in Window(s)
    BY <1>3, <1>6, FeedAssumption DEF Window, Newest
<1>8. \A b \in Window(s) : b <= Event
    BY DEF Window, Newest
<1> QED BY <1>3, <1>4, <1>7, <1>8

LEMMA WindowSolid ==
    ASSUME HistoryTypes, CachesGood, phase = "decide", NEW s \in Present
    PROVE  Solid(Window(s))
<1> DEFINE S == {b \in cache[s] : b <= Event}
<1>1. s \in Symbols /\ due # {} /\ Warmup \in Nat /\ Warmup >= 1
    BY FeedAssumption DEF Present, HistoryTypes
<1>2. S \in SUBSET Nat /\ IsFiniteSet(S) /\ Event \in Nat
    BY WindowEnds
<1>3. CASE Warmup > 1
    <2>1. Solid(cache[s])
        BY <1>1, <1>3 DEF CachesGood
    <2>2. Solid(S)
        <3> SUFFICES ASSUME NEW a \in S, NEW c \in S, NEW b \in a..c
                     PROVE  b \in S
            BY DEF Solid
        <3>1. b \in cache[s]
            BY <2>1 DEF Solid
        <3>2. b <= Event
            BY <1>2
        <3> QED BY <3>1, <3>2
    <2> HIDE DEF S
    <2>3. Solid(Newest(Warmup, S))
        BY <1>1, <1>2, <2>2, NewestSolid
    <2> QED BY <2>3 DEF Window, S
<1>4. CASE Warmup = 1
    <2>1. ASSUME NEW a \in Window(s), a # Event
          PROVE  FALSE
        <3> DEFINE T == {c \in S : c >= a}
        <3>1. a \in S /\ Cardinality(T) <= 1
            BY <1>4 DEF Window, Newest
        <3>2. a \in Nat /\ a < Event /\ Event \in S
            BY <1>2, <2>1, <3>1, WindowEnds, NewestSubset DEF Window
        <3>3. {a, Event} \in SUBSET T /\ T \in SUBSET S
            BY <3>1, <3>2
        <3> HIDE DEF T, S
        <3>4. IsFiniteSet(T)
            BY <1>2, <3>3, FS_Subset
        <3>5. Cardinality({a, Event}) = 2
            BY <2>1, PairSize
        <3>6. /\ Cardinality({a, Event}) <= Cardinality(T)
              /\ Cardinality(T) \in Nat
            BY <3>3, <3>4, FS_Subset, FS_CardinalityType
        <3> QED BY <3>1, <3>5, <3>6
    <2>2. \A a \in Window(s) : a = Event
        BY <2>1
    <2> QED BY <1>2, <2>2 DEF Solid
<1> QED BY <1>1, <1>3, <1>4

LEMMA HistoryWhole ==
    ASSUME HistoryInv
    PROVE  WindowHasNoHole
<1> SUFFICES ASSUME mode = "shadow", phase = "decide", NEW s \in DOMAIN bars,
                    NEW b \in Min(Window(s))..Event
             PROVE  b \in Window(s)
    BY DEF WindowHasNoHole
<1>1. HistoryTypes /\ CachesGood
    BY DEF HistoryInv
<1>2. s \in Present
    BY <1>1 DEF HistoryTypes
<1>3. Event \in Window(s) /\ Window(s) \in SUBSET Nat
    <2> DEFINE S == {e \in cache[s] : e <= Event}
    <2>1. S \in SUBSET Nat /\ Event \in Window(s)
        BY <1>1, <1>2, WindowEnds
    <2> HIDE DEF S
    <2>2. Newest(Warmup, S) \in SUBSET Nat
        BY <2>1, NewestSubset
    <2> QED BY <2>1, <2>2 DEF Window, S
<1>4. Min(Window(s)) \in Window(s)
    BY <1>3, MinOfNaturals
<1>5. Solid(Window(s))
    BY <1>1, <1>2, WindowSolid
<1> QED BY <1>3, <1>4, <1>5 DEF Solid

\* Whatever polls failed, came late or were lost with the process, the window a
\* simulated run decides a symbol on has no missing bar, for every warm-up
\* length, every ladder of requests and every set of symbols
\* (_warmup_gap, _fetch_with_cache, _trim_runtime_caches).
THEOREM WindowWithoutHole == Spec => []WindowHasNoHole
<1>1. HistoryInv => WindowHasNoHole
    BY HistoryWhole
<1> QED BY <1>1, HistoryInvariance, PTL

(***************************************************************************)
(* The bars a cycle takes up.                                              *)
(***************************************************************************)
\* Of a symbol that was decided on before, a new cycle takes up the bar after
\* its mark and all that follow up to some bar; Warmup 1 is the exception.
TakesEveryBar ==
    (mode = "shadow" /\ Warmup > 1 /\ due = {} /\ due' # {}) =>
        \A s \in Symbols :
            mark[s] # None =>
                \E last \in mark[s]..released[s] :
                    {c \in due' : c[2] = s} = ((mark[s] + 1)..last) \X {s}

\* Only a poll finds something due.
LEMMA OnlyPollTakes ==
    ASSUME HistoryInv, [Next]_vars, mode = "shadow", due = {}, due' # {}
    PROVE  \E fails : Poll(fails)
<1>1. HistoryTypes
    BY DEF HistoryInv
<1>2. phase \notin {"execute", "decide", "mark"}
    BY <1>1 DEF HistoryTypes
<1>3. NextShadow
    BY DEF Next, vars, shadowVars
<1>4. ~Tick /\ ~Crash
    BY DEF Tick, Crash, GivesUp
<1>5. AnyPoll
    BY <1>2, <1>3, <1>4
       DEF NextShadow, RejectEvent, SkipExecution, ExecuteHalted, ExecutePending,
           MayTrade, Executable, FeaturesFail, ShadowBreach, ShadowStaysHalted,
           ShadowDecide, Mark
<1> QED BY <1>5 DEF AnyPoll

\* What a poll finds due are the candidates of the caches it leaves, up to the
\* first timestamp it holds back; then no symbol has a gap.
LEMMA PollTakes ==
    ASSUME NEW fails, Poll(fails), due' # {}
    PROVE  /\ due' = Released(cache')
           /\ \A s \in Symbols : ~Gap(s, cache'[s])
           /\ UNCHANGED <<start, released, mark>>
<1>1. UNCHANGED <<start, released, mark>>
    BY DEF Poll
<1>2. PICK g \in {[s \in Symbols |-> Fetch(s, fails[s])]} :
         \E bs \in {[s \in Symbols |-> Stored(s, g[s].bars)]} :
            LET over == {s \in Symbols : Overflows(s, g[s].bars)}
                usable == /\ backlog \union over = {}
                          /\ \A s \in Symbols : /\ g[s].ok
                                                /\ ~Gap(s, bs[s])
                                                /\ ~Stale(s, bs[s])
            IN /\ due' = IF usable THEN Released(bs) ELSE {}
               /\ cache' = IF usable /\ due' = {} THEN Trimmed(bs) ELSE bs
    BY DEF Poll
<1>3. PICK bs :
            LET over == {s \in Symbols : Overflows(s, g[s].bars)}
                usable == /\ backlog \union over = {}
                          /\ \A s \in Symbols : /\ g[s].ok
                                                /\ ~Gap(s, bs[s])
                                                /\ ~Stale(s, bs[s])
            IN /\ due' = IF usable THEN Released(bs) ELSE {}
               /\ cache' = IF usable /\ due' = {} THEN Trimmed(bs) ELSE bs
    BY <1>2
<1>4. cache' = bs /\ due' = Released(bs) /\ \A s \in Symbols : ~Gap(s, bs[s])
    BY <1>3
<1> QED BY <1>1, <1>4

\* D holds the bars after m up to last.
Follows(D, m, last) == D = (m + 1)..last

\* A set that holds, with a bar, all that lie between m and it is an interval.
LEMMA FollowsOn ==
    ASSUME NEW r \in Nat, NEW m \in 0..r, NEW D \in SUBSET (0..r),
           \A b \in D : b > m /\ (m + 1)..b \subseteq D
    PROVE  \E last \in m..r : Follows(D, m, last)
<1>1. CASE D = {}
    <2>1. Follows(D, m, m) /\ m \in m..r
        BY <1>1 DEF Follows
    <2> QED BY <2>1
<1>2. CASE D # {}
    <2> DEFINE last == Max(D)
    <2>1. last \in D /\ \A b \in D : b <= last
        BY <1>2, MaxOfNaturals
    <2> HIDE DEF last
    <2>2. last \in m..r /\ (m + 1)..last \subseteq D
        BY <2>1
    <2>3. \A b \in D : b \in (m + 1)..last
        BY <2>1
    <2>4. Follows(D, m, last)
        BY <2>2, <2>3 DEF Follows
    <2> QED BY <2>2, <2>4
<1> QED BY <1>1, <1>2

LEMMA TakesStep ==
    ASSUME HistoryInv, HistoryInv', [Next]_vars
    PROVE  TakesEveryBar
<1> SUFFICES ASSUME mode = "shadow", Warmup > 1, due = {}, due' # {},
                    NEW s \in Symbols, mark[s] # None
             PROVE  \E last \in mark[s]..released[s] :
                       {c \in due' : c[2] = s} = ((mark[s] + 1)..last) \X {s}
    BY DEF TakesEveryBar
<1> DEFINE R == cache'[s]
           H == HeldFrom(cache', Candidates(cache'))
           D == {b \in 0..FeedBars : b \in R /\ b > mark[s] /\ \A h \in H : b < h}
<1>1. PICK fails : Poll(fails)
    BY OnlyPollTakes
<1>2. /\ due' = Released(cache') /\ ~Gap(s, R)
      /\ start' = start /\ released' = released /\ mark' = mark
    BY <1>1, PollTakes
<1>3. HistoryTypes /\ HistoryTypes' /\ CachesGood'
    <2>1. mode' = mode
        BY DEF Next, vars
    <2> QED BY <2>1 DEF HistoryInv
<1>4. released[s] \in Nat /\ R \in SUBSET (0..released[s])
    <2>1. R \in SUBSET (Served(s)')
        BY <1>3 DEF HistoryTypes
    <2>2. Served(s)' = Served(s)
        BY <1>2 DEF Served
    <2> QED BY <1>3, <2>1, <2>2, ServedTypes DEF HistoryTypes
<1>5. Solid(R) /\ Good(R, mark[s]) /\ mark[s] \in Int
    BY <1>2, <1>3 DEF CachesGood, CacheGood, None, Solid
<1>6. mark[s] \in R
    <2>1. R \in SUBSET Nat /\ IsFiniteSet(R)
        <3> HIDE DEF R
        <3> QED BY <1>4, FiniteBelow
    <2> HIDE DEF R
    <2> QED BY <1>2, <1>5, <2>1, SoundCache
<1>7. H \in SUBSET Int
    BY FeedAssumption DEF HeldFrom, Candidates
<1>8. PICK last \in mark[s]..released[s] : D = (mark[s] + 1)..last
    <2> DEFINE m == mark[s]
               r == released[s]
    <2>1. ASSUME NEW b \in D, NEW a \in (m + 1)..b
          PROVE  a \in D
        <3>1. b \in Nat /\ m \in Nat /\ a \in m..b /\ b \in R /\ b \in 0..FeedBars
            BY <1>4, <1>6
        <3>2. a \in R
            BY <1>5, <1>6, <3>1 DEF Solid
        <3>3. \A h \in H : a < h
            <4> HIDE DEF H, R
            <4> SUFFICES ASSUME NEW h \in H
                         PROVE  a < h
                OBVIOUS
            <4>1. b < h /\ h \in Int
                BY <1>7
            <4> QED BY <3>1, <4>1
        <3> HIDE DEF H, R
        <3> QED BY <3>1, <3>2, <3>3, FeedAssumption
    <2>2. r \in Nat /\ m \in 0..r /\ D \in SUBSET (0..r) /\ \A b \in D : b > m
        BY <1>4, <1>6
    <2>3. \A b \in D : (m + 1)..b \subseteq D
        BY <2>1
    <2> HIDE DEF D, m, r
    <2>4. PICK last \in m..r : Follows(D, m, last)
        BY <2>2, <2>3, FollowsOn
    <2> QED BY <2>4 DEF m, r, Follows
<1>9. {c \in due' : c[2] = s} = D \X {s}
    <2>1. due' = {c \in Candidates(cache') : \A h \in H : c[1] < h}
        BY <1>2 DEF Released
    <2> HIDE DEF H
    <2>2. \A c \in (0..FeedBars) \X Symbols :
             (c \in Candidates(cache') /\ c[2] = s) <=>
                 (c[2] = s /\ c[1] \in R /\ c[1] > mark[s])
        BY DEF Candidates
    <2>3. \A c \in Candidates(cache') : c \in (0..FeedBars) \X Symbols
        BY DEF Candidates
    <2>4. ASSUME NEW c \in due', c[2] = s
          PROVE  c \in D \X {s}
        BY <2>1, <2>2, <2>3, <2>4
    <2>5. ASSUME NEW c \in D \X {s}
          PROVE  c \in due' /\ c[2] = s
        <3>1. c \in (0..FeedBars) \X Symbols /\ c[2] = s /\ c[1] \in D
            BY <2>5
        <3> QED BY <2>1, <2>2, <3>1
    <2> QED BY <2>4, <2>5
<1> QED BY <1>8, <1>9

\* After a failed poll, a restart or an outage a cycle leaves out no bar of a
\* symbol between its last decided one and the newest it takes: a simulated run
\* replays all of them (_poll_cycle), for every window of more than one bar.
THEOREM CycleTakesEveryBar == Spec => [][TakesEveryBar]_vars
<1>1. HistoryInv /\ HistoryInv' /\ [Next]_vars => [TakesEveryBar]_vars
    BY TakesStep
<1> QED BY <1>1, HistoryInvariance, PTL DEF Spec
=============================================================================
