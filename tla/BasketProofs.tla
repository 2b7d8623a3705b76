---------------------------- MODULE BasketProofs ----------------------------
(***************************************************************************)
(* The gate that bonds pass into a basket, and what the four answers owe   *)
(* the one who asks, for any market of any size and any wish; and, from    *)
(* the section on the coupons on, the figures of PortfolioMath: coupons,   *)
(* lots of a basket, backtest and ledger, each with its invariant, put     *)
(* together in FigureInv.  The facts on sums are those of AnalyticsProofs. *)
(***************************************************************************)
EXTENDS PortfolioGate, AnalyticsProofs, SequenceTheorems

\* What the portfolio pages add up is the sum over the whole domain.
LEMMA SumOfIsSum == ASSUME NEW v PROVE SumOf(v) = Sums(v)[DOMAIN v]
  BY DEF SumOf, SumFunction, SumFunctionOnSet, FoldFunctionOnSet, MapThenFoldSet, Sums, OneStep, Taken

\* The numbers up to n are n.
LEMMA Segment == ASSUME NEW n \in Nat PROVE IsFiniteSet(1 .. n) /\ Cardinality(1 .. n) = n
<1>1. n \in Int /\ 1 \in Int
  OBVIOUS
<1>2. IsFiniteSet(1 .. n) /\ Cardinality(1 .. n) = IF 1 > n THEN 0 ELSE n - 1 + 1
  BY <1>1, FS_Interval, Zenon
<1> QED
  BY <1>2

-----------------------------------------------------------------------------
(* Orders and ranks.                                                       *)

\* What holds of the empty set, and of a set with one element more, holds of
\* a finite set.
LEMMA SubsetInduction ==
  ASSUME NEW D, IsFiniteSet(D), NEW G, {} \in G,
         \A T \in SUBSET D : \A x \in T : T \ {x} \in G => T \in G
  PROVE  D \in G
<1> DEFINE Odd == {T \in SUBSET D : T \notin G}
<1> SUFFICES ASSUME Odd # {} PROVE FALSE
  OBVIOUS
<1>1. PICK T \in Odd : \A U \in Odd : ~(U \subseteq T /\ U # T)
  <2>1. Odd \in SUBSET (SUBSET D)
    OBVIOUS
  <2> HIDE DEF Odd
  <2> QED
    BY <2>1, SmallestSubset
<1>2. PICK x \in T : TRUE
  OBVIOUS
<1>3. T \ {x} \in G
  BY <1>1, <1>2
<1> QED
  BY <1>1, <1>2, <1>3

\* A part has fewer elements.
LEMMA PartIsFewer ==
  ASSUME NEW S, IsFiniteSet(S), NEW T \in SUBSET S
  PROVE  /\ IsFiniteSet(T) /\ Cardinality(T) \in Nat /\ Cardinality(S) \in Nat
         /\ Cardinality(T) =< Cardinality(S)
         /\ T # S => Cardinality(T) < Cardinality(S)
<1>1. IsFiniteSet(T) /\ Cardinality(T) =< Cardinality(S) /\ (Cardinality(S) = Cardinality(T) => S = T)
  BY FS_Subset
<1>2. Cardinality(T) \in Nat /\ Cardinality(S) \in Nat
  BY <1>1, FS_CardinalityType
<1> QED
  BY <1>1, <1>2

\* `ahead` has what comes before each element in a strict order.
IsOrder(ahead, S) ==
  /\ ahead \in [S -> SUBSET S]
  /\ \A x \in S : x \notin ahead[x]
  /\ \A x, y \in S : x # y => x \in ahead[y] \/ y \in ahead[x]
  /\ \A x, y \in S : y \in ahead[x] => ahead[y] \subseteq ahead[x]

\* The list s has each element once, behind those that come before it.
Orders(s, ahead, S) ==
  /\ s \in [1 .. Cardinality(S) -> S]
  /\ \A x \in S : \E k \in 1 .. Cardinality(S) : s[k] = x
  /\ \A k \in 1 .. Cardinality(S) : Cardinality(ahead[s[k]]) = k - 1
  /\ \A j, k \in 1 .. Cardinality(S) : j < k => s[j] \in ahead[s[k]] /\ s[k] \notin ahead[s[j]] /\ s[j] # s[k]

LEMMA InOrderOrders ==
  ASSUME NEW S, IsFiniteSet(S), NEW ahead, IsOrder(ahead, S)
  PROVE  Orders(InOrder(ahead), ahead, S)
<1> DEFINE n == Cardinality(S)
           place == [x \in S |-> Cardinality(ahead[x]) + 1]
<1>0. n \in Nat
  BY FS_CardinalityType
<1>1. \A x \in S : IsFiniteSet(ahead[x]) /\ Cardinality(ahead[x]) \in Nat /\ Cardinality(ahead[x]) < n
  BY PartIsFewer DEF IsOrder
<1>2. \A x, y \in S : y \in ahead[x] => Cardinality(ahead[y]) < Cardinality(ahead[x])
  <2> SUFFICES ASSUME NEW x \in S, NEW y \in S, y \in ahead[x] PROVE Cardinality(ahead[y]) < Cardinality(ahead[x])
    OBVIOUS
  <2>1. ahead[y] \in SUBSET ahead[x] /\ ahead[y] # ahead[x]
    BY DEF IsOrder
  <2> QED
    BY <2>1, <1>1, PartIsFewer
<1>3. place \in Injection(S, 1 .. n)
  <2>1. place \in [S -> 1 .. n]
    BY <1>0, <1>1
  <2>2. ASSUME NEW x \in S, NEW y \in S, place[x] = place[y] PROVE x = y
    <3>1. Cardinality(ahead[x]) = Cardinality(ahead[y])
      BY <2>2, <1>1
    <3> QED
      BY <3>1, <1>1, <1>2 DEF IsOrder
  <2> HIDE DEF place
  <2> QED
    BY <2>1, <2>2 DEF Injection, IsInjective
<1>4. IsFiniteSet(1 .. n) /\ Cardinality(1 .. n) = n
  BY <1>0, Segment
<1>5. place \in Surjection(S, 1 .. n)
  <2> HIDE DEF place
  <2> QED
    BY <1>3, <1>4, FS_Injection
<1>6. \A k \in 1 .. n : \E x \in S : Cardinality(ahead[x]) = k - 1
  <2> SUFFICES ASSUME NEW k \in 1 .. n PROVE \E x \in S : Cardinality(ahead[x]) = k - 1
    OBVIOUS
  <2>1. PICK x \in S : place[x] = k
    BY <1>5 DEF Surjection
  <2> QED
    BY <2>1, <1>1, <1>0
<1> DEFINE s == InOrder(ahead)
<1>7. DOMAIN ahead = S
  BY DEF IsOrder
<1>8. s = [k \in 1 .. n |-> CHOOSE x \in S : Cardinality(ahead[x]) = k - 1]
  BY <1>7 DEF InOrder
<1>9. \A k \in 1 .. n : s[k] \in S /\ Cardinality(ahead[s[k]]) = k - 1
  BY <1>6, <1>8
<1>10. s \in [1 .. n -> S]
  BY <1>8, <1>9
<1> HIDE DEF s
<1>11. \A x \in S : \E k \in 1 .. n : s[k] = x
  <2> SUFFICES ASSUME NEW x \in S PROVE \E k \in 1 .. n : s[k] = x
    OBVIOUS
  <2> DEFINE k == Cardinality(ahead[x]) + 1
  <2>1. k \in 1 .. n
    BY <1>0, <1>1
  <2>2. Cardinality(ahead[s[k]]) = Cardinality(ahead[x]) /\ s[k] \in S
    BY <2>1, <1>9, <1>1
  <2>3. s[k] = x
    BY <2>2, <1>1, <1>2 DEF IsOrder
  <2> QED
    BY <2>1, <2>3
<1>12. ASSUME NEW j \in 1 .. n, NEW k \in 1 .. n, j < k
       PROVE  s[j] \in ahead[s[k]] /\ s[k] \notin ahead[s[j]] /\ s[j] # s[k]
  <2>1. s[j] \in S /\ s[k] \in S /\ Cardinality(ahead[s[j]]) < Cardinality(ahead[s[k]])
    BY <1>9, <1>12, <1>0
  <2>2. s[k] \notin ahead[s[j]] /\ s[j] # s[k]
    BY <2>1, <1>1, <1>2
  <2> QED
    BY <2>1, <2>2 DEF IsOrder
<1> QED
  BY <1>9, <1>10, <1>11, <1>12 DEF Orders, s

\* Of finitely many values one is the greatest, and one the least.
LEMMA ExtremeValues ==
  ASSUME NEW D, IsFiniteSet(D), D # {}, NEW p, \A i \in D : p[i] \in Int
  PROVE  /\ \E x \in D : \A i \in D : p[i] =< p[x]
         /\ \E x \in D : \A i \in D : p[x] =< p[i]
<1> DEFINE G == {T \in SUBSET D : T # {} => /\ \E x \in T : \A i \in T : p[i] =< p[x]
                                            /\ \E x \in T : \A i \in T : p[x] =< p[i]}
<1>1. {} \in G
  OBVIOUS
<1>2. ASSUME NEW T \in SUBSET D, NEW x \in T, T \ {x} \in G PROVE T \in G
  <2>1. CASE T = {x}
    BY <2>1
  <2>2. CASE T \ {x} # {}
    <3>1. PICK u \in T \ {x} : \A i \in T \ {x} : p[i] =< p[u]
      BY <1>2, <2>2
    <3>2. PICK w \in T \ {x} : \A i \in T \ {x} : p[w] =< p[i]
      BY <1>2, <2>2
    <3>3. \E z \in T : \A i \in T : p[i] =< p[z]
      <4>1. CASE p[u] =< p[x]
        BY <4>1, <3>1
      <4>2. CASE p[x] < p[u]
        BY <4>2, <3>1
      <4> QED
        BY <4>1, <4>2, <3>1
    <3>4. \E z \in T : \A i \in T : p[z] =< p[i]
      <4>1. CASE p[w] =< p[x]
        BY <4>1, <3>2
      <4>2. CASE p[x] < p[w]
        BY <4>2, <3>2
      <4> QED
        BY <4>1, <4>2, <3>2
    <3> QED
      BY <3>3, <3>4
  <2> QED
    BY <2>1, <2>2
<1> HIDE DEF G
<1>3. D \in G
  BY <1>1, <1>2, SubsetInduction
<1> QED
  BY <1>3 DEF G

\* The indices of the values below v, and of those up to v.
Under(p, v) == {i \in DOMAIN p : p[i] < v}
UpTo(p, v) == {i \in DOMAIN p : p[i] =< v}

Values(D) == [D -> Int]

LEMMA RankSets ==
  ASSUME NEW D, IsFiniteSet(D), NEW p \in Values(D), NEW v \in Int
  PROVE  /\ Under(p, v) \in SUBSET D /\ UpTo(p, v) \in SUBSET D
         /\ Under(p, v) \subseteq UpTo(p, v)
         /\ Cardinality(Under(p, v)) \in Nat /\ Cardinality(UpTo(p, v)) \in Nat
         /\ Cardinality(UpTo(p, v)) =< Cardinality(D)
<1>1. Under(p, v) \in SUBSET D /\ UpTo(p, v) \in SUBSET D /\ Under(p, v) \subseteq UpTo(p, v)
  BY DEF Under, UpTo, Values
<1> QED
  BY <1>1, PartIsFewer

\* v stands at the k-th place.
StandsAt(p, v, k) ==
  /\ v \in Range(p)
  /\ Cardinality(Under(p, v)) < k
  /\ k =< Cardinality(UpTo(p, v))

LEMMA RankExists ==
  ASSUME NEW D, IsFiniteSet(D), NEW p \in Values(D), NEW k \in 1 .. Cardinality(D)
  PROVE  StandsAt(p, AtRank(p, k), k)
<1>0. DOMAIN p = D /\ \A i \in D : p[i] \in Int
  BY DEF Values
<1>1. Cardinality(D) \in Nat /\ D # {}
  BY FS_CardinalityType, FS_EmptySet
<1> DEFINE T == {x \in D : k =< Cardinality(UpTo(p, p[x]))}
<1>2. T # {}
  <2>1. PICK x \in D : \A i \in D : p[i] =< p[x]
    BY <1>0, <1>1, ExtremeValues
  <2>2. UpTo(p, p[x]) = D
    BY <2>1, <1>0 DEF UpTo
  <2> QED
    BY <2>2, <1>1
<1>3. IsFiniteSet(T) /\ T \in SUBSET D
  BY FS_Subset
<1>4. PICK x \in T : \A i \in T : p[x] =< p[i]
  <2> HIDE DEF T
  <2> QED
    BY <1>2, <1>3, <1>0, ExtremeValues
<1>5. Cardinality(Under(p, p[x])) < k
  <2> SUFFICES ASSUME k =< Cardinality(Under(p, p[x])) PROVE FALSE
    BY <1>0, <1>4, RankSets
  <2> DEFINE U == Under(p, p[x])
  <2>1. U \in SUBSET D /\ IsFiniteSet(U)
    BY <1>0, <1>4, RankSets, FS_Subset
  <2>2. U # {}
    BY FS_EmptySet
  <2>3. PICK z \in U : \A i \in U : p[i] =< p[z]
    <3> HIDE DEF U
    <3> QED
      BY <2>1, <2>2, <1>0, ExtremeValues
  <2>4. z \in D /\ p[z] < p[x]
    BY <2>3, <1>0 DEF Under
  <2>5. U \subseteq UpTo(p, p[z])
    BY <2>1, <2>3, <1>0 DEF UpTo
  <2>6. Cardinality(U) =< Cardinality(UpTo(p, p[z]))
    <3>1. UpTo(p, p[z]) \in SUBSET D
      BY <2>4, <1>0, RankSets
    <3> QED
      BY <3>1, <2>5, FS_Subset
  <2>7. z \in T
    <3>1. Cardinality(UpTo(p, p[z])) \in Nat /\ Cardinality(U) \in Nat
      BY <2>4, <1>0, <1>4, RankSets
    <3> QED
      BY <3>1, <2>6, <2>4
  <2> QED
    BY <2>7, <2>4, <1>4, <1>0
<1>6. p[x] \in Range(p) /\ StandsAt(p, p[x], k)
  BY <1>0, <1>4, <1>5 DEF StandsAt, Range
<1>7. \E v \in Range(p) : /\ Cardinality({i \in DOMAIN p : p[i] < v}) < k
                          /\ k =< Cardinality({i \in DOMAIN p : p[i] =< v})
  BY <1>6 DEF StandsAt, Under, UpTo
<1> QED
  BY <1>7 DEF AtRank, StandsAt, Under, UpTo

\* One value stands at a place.
LEMMA RankUnique ==
  ASSUME NEW D, IsFiniteSet(D), NEW p \in Values(D), NEW k \in Int,
         NEW v, NEW w, StandsAt(p, v, k), StandsAt(p, w, k)
  PROVE  v = w
<1>1. v \in Int /\ w \in Int
  BY DEF StandsAt, Range, Values
<1>2. ASSUME NEW s \in Int, NEW t \in Int, s < t, StandsAt(p, s, k), StandsAt(p, t, k) PROVE FALSE
  <2>1. UpTo(p, s) \subseteq Under(p, t)
    BY <1>2 DEF UpTo, Under, Values
  <2>2. Under(p, t) \in SUBSET D /\ Cardinality(Under(p, t)) \in Nat /\ Cardinality(UpTo(p, s)) \in Nat
    BY <1>2, RankSets
  <2>3. Cardinality(UpTo(p, s)) =< Cardinality(Under(p, t))
    BY <2>1, <2>2, FS_Subset
  <2> QED
    BY <2>2, <2>3, <1>2 DEF StandsAt
<1> QED
  BY <1>1, <1>2

LEMMA RankIs ==
  ASSUME NEW D, IsFiniteSet(D), NEW p \in Values(D), NEW k \in 1 .. Cardinality(D)
  PROVE  /\ AtRank(p, k) \in Int /\ AtRank(p, k) \in Range(p)
         /\ Cardinality(Under(p, AtRank(p, k))) < k /\ k =< Cardinality(UpTo(p, AtRank(p, k)))
         /\ \A v : StandsAt(p, v, k) => AtRank(p, k) = v
<1>1. StandsAt(p, AtRank(p, k), k)
  BY RankExists
<1>2. Range(p) \subseteq Int
  BY DEF Range, Values
<1>3. \A v : StandsAt(p, v, k) => AtRank(p, k) = v
  BY <1>1, RankUnique
<1> QED
  BY <1>1, <1>2, <1>3 DEF StandsAt

\* Later places have greater values.
LEMMA RanksRise ==
  ASSUME NEW D, IsFiniteSet(D), NEW p \in Values(D),
         NEW j \in 1 .. Cardinality(D), NEW k \in 1 .. Cardinality(D), j =< k
  PROVE  AtRank(p, j) =< AtRank(p, k)
<1> DEFINE v == AtRank(p, j)
           w == AtRank(p, k)
<1>1. v \in Int /\ w \in Int /\ Cardinality(Under(p, v)) < j /\ k =< Cardinality(UpTo(p, w))
  BY RankIs
<1> SUFFICES ASSUME w < v PROVE FALSE
  BY <1>1
<1> HIDE DEF v, w
<1>2. UpTo(p, w) \subseteq Under(p, v)
  BY <1>1 DEF UpTo, Under, Values
<1>3. Under(p, v) \in SUBSET D /\ Cardinality(Under(p, v)) \in Nat /\ Cardinality(UpTo(p, w)) \in Nat
  BY <1>1, RankSets
<1>4. IsFiniteSet(Under(p, v))
  BY <1>3, FS_Subset
<1>5. Cardinality(UpTo(p, w)) =< Cardinality(Under(p, v))
  BY <1>2, <1>4, FS_Subset
<1> QED
  BY <1>1, <1>3, <1>5

\* Where the values are greater, so are those at each place.
LEMMA RanksFollow ==
  ASSUME NEW D, IsFiniteSet(D), NEW p \in Values(D), NEW q \in Values(D), \A i \in D : p[i] =< q[i],
         NEW k \in 1 .. Cardinality(D)
  PROVE  AtRank(p, k) =< AtRank(q, k)
<1> DEFINE v == AtRank(p, k)
           w == AtRank(q, k)
<1>1. v \in Int /\ w \in Int /\ Cardinality(Under(p, v)) < k /\ k =< Cardinality(UpTo(q, w))
  BY RankIs
<1> SUFFICES ASSUME w < v PROVE FALSE
  BY <1>1
<1> HIDE DEF v, w
<1>2. UpTo(q, w) \subseteq Under(p, v)
  BY <1>1 DEF UpTo, Under, Values
<1>3. Under(p, v) \in SUBSET D /\ Cardinality(Under(p, v)) \in Nat /\ Cardinality(UpTo(q, w)) \in Nat
  BY <1>1, RankSets
<1>4. IsFiniteSet(Under(p, v))
  BY <1>3, FS_Subset
<1>5. Cardinality(UpTo(q, w)) =< Cardinality(Under(p, v))
  BY <1>2, <1>4, FS_Subset
<1> QED
  BY <1>1, <1>3, <1>5

\* A value that is raised leaves the places below it alone.
LEMMA RaiseKeepsRanks ==
  ASSUME NEW D, IsFiniteSet(D), NEW p \in Values(D), NEW b \in D, NEW y \in Int, p[b] =< y,
         NEW k \in 1 .. Cardinality(D), AtRank(p, k) < p[b]
  PROVE  AtRank([p EXCEPT ![b] = y], k) = AtRank(p, k)
<1> DEFINE q == [p EXCEPT ![b] = y]
           v == AtRank(p, k)
<1>1. q \in Values(D) /\ \A i \in D : q[i] = IF i = b THEN y ELSE p[i]
  BY DEF Values
<1>2. v \in Int /\ v \in Range(p) /\ Cardinality(Under(p, v)) < k /\ k =< Cardinality(UpTo(p, v)) /\ v < p[b]
  BY RankIs
<1> HIDE DEF q, v
<1>3. Under(q, v) = Under(p, v) /\ UpTo(q, v) = UpTo(p, v)
  BY <1>1, <1>2 DEF Under, UpTo, Values
<1>4. v \in Range(q)
  <2>1. PICK i \in D : p[i] = v
    BY <1>2 DEF Range, Values
  <2>2. i # b
    BY <2>1, <1>2
  <2> QED
    BY <2>1, <2>2, <1>1 DEF Range, Values
<1>5. StandsAt(q, v, k)
  BY <1>2, <1>3, <1>4 DEF StandsAt
<1>6. AtRank(q, k) = v
  BY <1>1, <1>5, RankIs
<1> QED
  BY <1>6 DEF q, v

\* The two middle places.
LEMMA Middle ==
  ASSUME NEW D, IsFiniteSet(D), D # {}
  PROVE  LET n == Cardinality(D) IN
         /\ n \in Nat \ {0}
         /\ (n + 1) \div 2 \in 1 .. n /\ (n \div 2) + 1 \in 1 .. n
         /\ (n + 1) \div 2 =< (n \div 2) + 1 /\ n \div 2 =< (n + 1) \div 2
<1>1. Cardinality(D) \in Nat \ {0}
  BY FS_CardinalityType, FS_EmptySet
<1> DEFINE n == Cardinality(D)
<1> HIDE DEF n
<1>2. n \in Nat \ {0}
  BY <1>1 DEF n
<1>3. (n + 1) \div 2 \in 1 .. n /\ (n \div 2) + 1 \in 1 .. n
      /\ (n + 1) \div 2 =< (n \div 2) + 1 /\ n \div 2 =< (n + 1) \div 2
  BY <1>2
<1> QED
  BY <1>2, <1>3 DEF n

LowMiddle(D) == (Cardinality(D) + 1) \div 2
HighMiddle(D) == (Cardinality(D) \div 2) + 1

LEMMA MedianIs ==
  ASSUME NEW D, IsFiniteSet(D), D # {}, NEW p \in Values(D)
  PROVE  /\ LowMiddle(D) \in 1 .. Cardinality(D) /\ HighMiddle(D) \in 1 .. Cardinality(D)
         /\ AtRank(p, LowMiddle(D)) \in Int /\ AtRank(p, HighMiddle(D)) \in Int
         /\ AtRank(p, LowMiddle(D)) =< AtRank(p, HighMiddle(D))
         /\ Median(p) = AtRank(p, LowMiddle(D)) + AtRank(p, HighMiddle(D))
<1>1. /\ LowMiddle(D) \in 1 .. Cardinality(D) /\ HighMiddle(D) \in 1 .. Cardinality(D)
      /\ LowMiddle(D) =< HighMiddle(D)
  BY Middle DEF LowMiddle, HighMiddle
<1>2. /\ AtRank(p, LowMiddle(D)) \in Int /\ AtRank(p, HighMiddle(D)) \in Int
      /\ AtRank(p, LowMiddle(D)) =< AtRank(p, HighMiddle(D))
  BY <1>1, RankIs, RanksRise
<1>3. DOMAIN p = D
  BY DEF Values
<1> QED
  BY <1>1, <1>2, <1>3 DEF Median, LowMiddle, HighMiddle

\* What lies above the middle may rise further.
LEMMA RaiseKeepsMedian ==
  ASSUME NEW D, IsFiniteSet(D), NEW p \in Values(D), NEW b \in D, NEW y \in Int, p[b] =< y,
         AtRank(p, LowMiddle(D)) < p[b], AtRank(p, HighMiddle(D)) < p[b]
  PROVE  Median([p EXCEPT ![b] = y]) = Median(p)
<1>1. D # {} /\ [p EXCEPT ![b] = y] \in Values(D)
  BY DEF Values
<1>2. LowMiddle(D) \in 1 .. Cardinality(D) /\ HighMiddle(D) \in 1 .. Cardinality(D)
  BY <1>1, MedianIs
<1>3. /\ AtRank([p EXCEPT ![b] = y], LowMiddle(D)) = AtRank(p, LowMiddle(D))
      /\ AtRank([p EXCEPT ![b] = y], HighMiddle(D)) = AtRank(p, HighMiddle(D))
  BY <1>2, RaiseKeepsRanks
<1> QED
  BY <1>1, <1>3, MedianIs

LEMMA MediansFollow ==
  ASSUME NEW D, IsFiniteSet(D), D # {}, NEW p \in Values(D), NEW q \in Values(D), \A i \in D : p[i] =< q[i]
  PROVE  Median(p) =< Median(q)
<1>1. /\ LowMiddle(D) \in 1 .. Cardinality(D) /\ HighMiddle(D) \in 1 .. Cardinality(D)
      /\ AtRank(p, LowMiddle(D)) \in Int /\ AtRank(p, HighMiddle(D)) \in Int
      /\ AtRank(q, LowMiddle(D)) \in Int /\ AtRank(q, HighMiddle(D)) \in Int
      /\ Median(p) = AtRank(p, LowMiddle(D)) + AtRank(p, HighMiddle(D))
      /\ Median(q) = AtRank(q, LowMiddle(D)) + AtRank(q, HighMiddle(D))
  BY MedianIs
<1>2. AtRank(p, LowMiddle(D)) =< AtRank(q, LowMiddle(D)) /\ AtRank(p, HighMiddle(D)) =< AtRank(q, HighMiddle(D))
  BY <1>1, RanksFollow
<1> QED
  BY <1>1, <1>2

LEMMA DistancesAre ==
  ASSUME NEW D, NEW p \in Values(D), NEW m \in Int
  PROVE  /\ Distances(p, m) \in Values(D)
         /\ \A i \in D : /\ Distances(p, m)[i] = IF 2 * p[i] < m THEN m - 2 * p[i] ELSE 2 * p[i] - m
                         /\ Distances(p, m)[i] >= 0
         /\ \A b \in D, y \in Int : m =< 2 * y =>
              Distances([p EXCEPT ![b] = y], m) = [Distances(p, m) EXCEPT ![b] = 2 * y - m]
<1>1. \A i \in D : p[i] \in Int
  BY DEF Values
<1>2. \A i \in D : Magnitude(2 * p[i] - m) = IF 2 * p[i] < m THEN m - 2 * p[i] ELSE 2 * p[i] - m
  BY <1>1 DEF Magnitude
<1>3. DOMAIN p = D
  BY DEF Values
<1>4. Distances(p, m) = [i \in D |-> Magnitude(2 * p[i] - m)]
  BY <1>3 DEF Distances
<1>5. ASSUME NEW b \in D, NEW y \in Int, m =< 2 * y
      PROVE  Distances([p EXCEPT ![b] = y], m) = [Distances(p, m) EXCEPT ![b] = 2 * y - m]
  <2> DEFINE q == [p EXCEPT ![b] = y]
  <2>1. DOMAIN q = D /\ \A i \in D : q[i] = IF i = b THEN y ELSE p[i]
    BY <1>3
  <2>2. Magnitude(2 * y - m) = 2 * y - m
    BY <1>5 DEF Magnitude
  <2> HIDE DEF q
  <2>3. Distances(q, m) = [i \in D |-> Magnitude(2 * q[i] - m)]
    BY <2>1 DEF Distances
  <2>4. Distances(q, m) = [Distances(p, m) EXCEPT ![b] = 2 * y - m]
    BY <2>1, <2>2, <2>3, <1>4
  <2> QED
    BY <2>4 DEF q
<1> QED
  BY <1>1, <1>2, <1>4, <1>5 DEF Values

\* No place holds a negative distance.
LEMMA DistanceRanks ==
  ASSUME NEW D, IsFiniteSet(D), D # {}, NEW d \in Values(D), \A i \in D : d[i] >= 0
  PROVE  AtRank(d, LowMiddle(D)) >= 0 /\ AtRank(d, HighMiddle(D)) >= 0
<1>1. LowMiddle(D) \in 1 .. Cardinality(D) /\ HighMiddle(D) \in 1 .. Cardinality(D)
  BY MedianIs
<1>2. \A k \in 1 .. Cardinality(D) : AtRank(d, k) \in Range(d)
  BY RankIs
<1>3. \A v \in Range(d) : v >= 0
  BY DEF Range, Values
<1> QED
  BY <1>1, <1>2, <1>3

\* What lies far from the median, in median distances, lies above the middle.
LEMMA FarIsAboveMiddle ==
  ASSUME NEW D, IsFiniteSet(D), NEW p \in Values(D), NEW b \in D,
         NEW m, m = Median(p), NEW d, d = Distances(p, m),
         2 * p[b] - m > 0,
         5000 * (2 * p[b] - m) > 14826 * Median(d)
  PROVE  AtRank(p, LowMiddle(D)) < p[b] /\ AtRank(p, HighMiddle(D)) < p[b]
<1> DEFINE lo == LowMiddle(D)
           hi == HighMiddle(D)
           v == AtRank(p, hi)
           w == AtRank(d, hi)
           a == 2 * p[b] - m
<1>1. /\ lo \in 1 .. Cardinality(D) /\ hi \in 1 .. Cardinality(D)
      /\ AtRank(p, lo) \in Int /\ v \in Int /\ AtRank(p, lo) =< v
      /\ m = AtRank(p, lo) + v
  BY MedianIs
<1>2. m \in Int /\ p[b] \in Int
  BY <1>1 DEF Values
<1>3. d \in Values(D) /\ \A i \in D : d[i] = (IF 2 * p[i] < m THEN m - 2 * p[i] ELSE 2 * p[i] - m) /\ d[i] >= 0
  BY <1>2, DistancesAre
<1>4. Median(d) = AtRank(d, lo) + w /\ AtRank(d, lo) \in Int /\ w \in Int
  BY <1>3, MedianIs
<1>5. AtRank(d, lo) >= 0
  BY <1>3, DistanceRanks
<1>6. SUFFICES ASSUME p[b] =< v PROVE FALSE
  BY <1>1, <1>2
<1>7. w < a
  BY <1>2, <1>4, <1>5
<1>8. Cardinality(Under(p, v)) < hi /\ hi =< Cardinality(UpTo(d, w))
  BY <1>1, <1>3, RankIs
<1> HIDE DEF lo, hi, v, w
<1>9. \A i \in D : p[i] \in Int
  BY DEF Values
<1>10. UpTo(d, w) \subseteq Under(p, v)
  <2> SUFFICES ASSUME NEW i \in D, d[i] =< w PROVE p[i] < v
    BY <1>3 DEF UpTo, Under, Values
  <2>1. p[i] \in Int /\ d[i] = (IF 2 * p[i] < m THEN m - 2 * p[i] ELSE 2 * p[i] - m)
    BY <1>3, <1>9
  <2> QED
    BY <2>1, <1>1, <1>2, <1>4, <1>6, <1>7
<1>11. Under(p, v) \in SUBSET D /\ Cardinality(Under(p, v)) \in Nat /\ Cardinality(UpTo(d, w)) \in Nat
  BY <1>1, <1>3, <1>4, RankSets
<1>12. Cardinality(UpTo(d, w)) =< Cardinality(Under(p, v))
  BY <1>10, <1>11, PartIsFewer, FS_Subset
<1> QED
  BY <1>8, <1>11, <1>12, <1>1

-----------------------------------------------------------------------------
(* Squares.                                                                *)

LEMMA SquarePositive == ASSUME NEW x \in Int PROVE x * x >= 0 /\ (x # 0 => x * x > 0)
<1>1. CASE x >= 0
  BY <1>1
<1>2. CASE x < 0
  BY <1>2
<1> QED
  BY <1>1, <1>2

LEMMA TimesPositive ==
  ASSUME NEW x \in Int, NEW y \in Int, NEW z \in Int
  PROVE  /\ x > 0 /\ y < z => x * y < x * z
         /\ x >= 0 /\ y =< z => x * y =< x * z
         /\ x > 0 /\ y > 0 => x * y > 0
         /\ x >= 0 /\ y >= 0 => x * y >= 0
         /\ x > 0 /\ x * y > 0 => y > 0
         /\ x > 0 /\ x * y =< x * z => y =< z
OBVIOUS

LEMMA CauchyStep ==
  ASSUME NEW S \in Int, NEW Q \in Nat, NEW K \in Nat, NEW x \in Int, S * S =< K * Q
  PROVE  (S + x) * (S + x) =< (K + 1) * (Q + x * x)
<1>1. (S + x) * (S + x) = S * S + 2 * (S * x) + x * x
  OBVIOUS
<1>2. (K + 1) * (Q + x * x) = K * Q + K * (x * x) + Q + x * x
  OBVIOUS
<1>3. SUFFICES 2 * (S * x) =< K * (x * x) + Q
  <2>1. x * x \in Int /\ S * x \in Int /\ K * (x * x) \in Int /\ K * Q \in Int
    OBVIOUS
  <2> QED
    BY <1>1, <1>2, <2>1
<1>4. CASE K = 0
  <2>1. S = 0
    BY <1>4, SquarePositive
  <2> QED
    BY <2>1, <1>4
<1>5. CASE K > 0
  <2>1. (S - K * x) * (S - K * x) >= 0
    BY SquarePositive
  <2>2. (S - K * x) * (S - K * x) = S * S - 2 * (K * (S * x)) + K * (K * (x * x))
    OBVIOUS
  <2>3. K * (2 * (S * x)) =< K * (K * (x * x) + Q)
    <3>1. K * (2 * (S * x)) = 2 * (K * (S * x))
      OBVIOUS
    <3>2. K * (K * (x * x) + Q) = K * (K * (x * x)) + K * Q
      OBVIOUS
    <3>3. K * (S * x) \in Int /\ K * (K * (x * x)) \in Int /\ K * Q \in Int
      OBVIOUS
    <3> QED
      BY <2>1, <2>2, <3>1, <3>2, <3>3
  <2>4. 2 * (S * x) \in Int /\ K * (x * x) + Q \in Int
    OBVIOUS
  <2> QED
    BY <2>3, <2>4, <1>5, TimesPositive
<1> QED
  BY <1>4, <1>5

\* The square of a sum is at most the sum of squares for each value that is
\* not zero.
LEMMA SumOfSquares ==
  ASSUME NEW D, IsFiniteSet(D), NEW q \in Values(D), NEW sq, sq = [i \in D |-> q[i] * q[i]],
         NEW T \in SUBSET D
  PROVE  /\ Sums(q)[T] \in Int /\ Sums(sq)[T] \in Nat
         /\ Cardinality({i \in T : q[i] # 0}) \in Nat
         /\ Sums(q)[T] * Sums(q)[T] =< Cardinality({i \in T : q[i] # 0}) * Sums(sq)[T]
<1>1. DOMAIN q = D /\ DOMAIN sq = D /\ \A i \in D : q[i] \in Int /\ sq[i] \in Int /\ sq[i] = q[i] * q[i]
  BY DEF Values
<1>2. AddsUp(Sums(q), q, D) /\ AddsUp(Sums(sq), sq, D)
  BY <1>1, SumsAddUp
<1> DEFINE K(U) == Cardinality({i \in U : q[i] # 0})
           G == {U \in SUBSET D : Sums(sq)[U] \in Nat /\ Sums(q)[U] * Sums(q)[U] =< K(U) * Sums(sq)[U]}
<1>3. \A U \in SUBSET D : K(U) \in Nat
  <2> SUFFICES ASSUME NEW U \in SUBSET D PROVE K(U) \in Nat
    OBVIOUS
  <2>1. {i \in U : q[i] # 0} \in SUBSET D
    OBVIOUS
  <2> QED
    BY <2>1, PartIsFewer
<1>4. {} \in G
  <2>1. Sums(q)[{}] = 0 /\ Sums(sq)[{}] = 0
    BY <1>2 DEF AddsUp
  <2>2. {} \in SUBSET D /\ K({}) \in Nat
    BY <1>3
  <2> HIDE DEF K
  <2> QED
    BY <2>1, <2>2
<1>5. ASSUME NEW U \in SUBSET D, NEW x \in U, U \ {x} \in G PROVE U \in G
  <2> DEFINE S == Sums(q)[U \ {x}]
             Q == Sums(sq)[U \ {x}]
             k == K(U \ {x})
  <2>1. S \in Int /\ Q \in Nat /\ k \in Nat /\ S * S =< k * Q
    BY <1>2, <1>3, <1>5 DEF AddsUp
  <2>2. Sums(q)[U] = q[x] + S /\ Sums(sq)[U] = q[x] * q[x] + Q /\ q[x] \in Int
    BY <1>1, <1>2 DEF AddsUp
  <2>3. q[x] * q[x] >= 0
    BY <2>2, SquarePositive
  <2>4. CASE q[x] = 0
    <3>1. {i \in U : q[i] # 0} = {i \in U \ {x} : q[i] # 0}
      BY <2>4
    <3>2. Sums(q)[U] = S /\ Sums(sq)[U] = Q
      BY <2>1, <2>2, <2>4
    <3> QED
      BY <2>1, <3>1, <3>2
  <2>5. CASE q[x] # 0
    <3> DEFINE Nonzero == {i \in U : q[i] # 0}
    <3>1. {i \in U \ {x} : q[i] # 0} = Nonzero \ {x} /\ x \in Nonzero /\ Nonzero \in SUBSET D
      BY <2>5
    <3>2. k = Cardinality(Nonzero \ {x}) /\ K(U) = Cardinality(Nonzero)
      BY <3>1
    <3> HIDE DEF Nonzero
    <3>3. IsFiniteSet(Nonzero) /\ Cardinality(Nonzero) \in Nat
      BY <3>1, PartIsFewer
    <3>4. Cardinality(Nonzero \ {x}) = Cardinality(Nonzero) - 1
      BY <3>1, <3>3, FS_RemoveElement
    <3>7. K(U) = k + 1
      BY <3>2, <3>3, <3>4
    <3> HIDE DEF S, Q, k, K
    <3>5. (S + q[x]) * (S + q[x]) =< (k + 1) * (Q + q[x] * q[x])
      BY <2>1, <2>2, CauchyStep
    <3>6. Sums(sq)[U] = Q + q[x] * q[x] /\ Sums(q)[U] = S + q[x]
      BY <2>1, <2>2
    <3> QED
      BY <2>1, <2>2, <2>3, <3>7, <3>5, <3>6
  <2> QED
    BY <2>4, <2>5
<1> HIDE DEF G
<1>6. T \in G
  <2>1. IsFiniteSet(T)
    BY FS_Subset
  <2>2. \A U \in SUBSET T : \A x \in U : U \ {x} \in G => U \in G
    BY <1>5
  <2> QED
    BY <2>1, <2>2, <1>4, SubsetInduction
<1> QED
  BY <1>2, <1>3, <1>6 DEF G, AddsUp

\* A value far from zero, in deviations of all the values, stays far when it
\* moves further, as long as most of the values are zero: n values, of which
\* the others add up to S and their squares to Q, and k of them are not zero.
Far(n, S, Q, a) ==
  /\ n * (Q + a * a) - (S + a) * (S + a) > 0
  /\ n * (n - 1) * a * a > 16 * (n * (Q + a * a) - (S + a) * (S + a))

LEMMA FarGap ==
  ASSUME NEW n \in Nat, NEW S \in Int, NEW Q \in Nat, NEW a \in Int
  PROVE  /\ n * (n - 1) * a * a - 16 * (n * (Q + a * a) - (S + a) * (S + a))
              = (n - 1) * (n - 16) * a * a + 32 * S * a - 16 * (n * Q - S * S)
         /\ n * (Q + a * a) - (S + a) * (S + a) = (n - 1) * (a * a) - 2 * (S * a) + (n * Q - S * S)
<1>1. (S + a) * (S + a) = S * S + 2 * (S * a) + a * a
  OBVIOUS
<1>2. n * (Q + a * a) = n * Q + n * (a * a)
  OBVIOUS
<1>3. (n - 1) * (a * a) = n * (a * a) - a * a
  OBVIOUS
<1>4. n * (n - 1) * a * a = n * (n * (a * a)) - n * (a * a)
  OBVIOUS
<1>5. (n - 1) * (n - 16) * a * a = n * (n * (a * a)) - 17 * (n * (a * a)) + 16 * (a * a)
  OBVIOUS
<1>6. 32 * S * a = 32 * (S * a)
  OBVIOUS
<1>7. a * a \in Int /\ S * S \in Int /\ S * a \in Int /\ n * Q \in Int /\ n * (a * a) \in Int /\ n * (n * (a * a)) \in Int
  OBVIOUS
<1>8. n * (Q + a * a) - (S + a) * (S + a) = (n - 1) * (a * a) - 2 * (S * a) + (n * Q - S * S)
  BY <1>1, <1>2, <1>3, <1>7
<1>9. 16 * (n * (Q + a * a) - (S + a) * (S + a)) = 16 * (n * (a * a)) - 16 * (a * a) - 32 * (S * a) + 16 * (n * Q - S * S)
  BY <1>8, <1>3, <1>7
<1>10. n * (n - 1) * a * a - 16 * (n * (Q + a * a) - (S + a) * (S + a))
              = (n - 1) * (n - 16) * a * a + 32 * S * a - 16 * (n * Q - S * S)
  BY <1>4, <1>5, <1>6, <1>7, <1>9
<1> QED
  BY <1>8, <1>10

LEMMA FarMoves ==
  ASSUME NEW n \in Nat, n >= 2, NEW k \in Nat, 2 * k =< n - 3, NEW S \in Int, NEW Q \in Nat, S * S =< k * Q,
         NEW a \in Int, NEW c \in Int, 0 < a, a < c, Far(n, S, Q, a)
  PROVE  Far(n, S, Q, c)
<1> DEFINE C == n * Q - S * S
<1>1. k * Q =< (n - 2) * Q /\ (n - 2) * Q \in Int /\ k * Q \in Int /\ n * Q \in Int /\ S * S \in Int
  BY TimesPositive
<1>2. C >= 2 * Q /\ C \in Int
  <2>1. n * Q = (n - 2) * Q + 2 * Q
    OBVIOUS
  <2> QED
    BY <1>1, <2>1
<1>3. n * (Q + c * c) - (S + c) * (S + c) > 0
  <2> DEFINE e == (n - 1) * (c * c) - 2 * (S * c) + C
  <2>1. n * (Q + c * c) - (S + c) * (S + c) = e
    BY FarGap
  <2>2. (n - 1) * e = ((n - 1) * c - S) * ((n - 1) * c - S) + ((n - 1) * C - S * S)
    <3>1. ((n - 1) * c - S) * ((n - 1) * c - S) = (n - 1) * ((n - 1) * (c * c)) - 2 * ((n - 1) * (S * c)) + S * S
      OBVIOUS
    <3>2. (n - 1) * e = (n - 1) * ((n - 1) * (c * c)) - 2 * ((n - 1) * (S * c)) + (n - 1) * C
      BY <1>2
    <3>3. /\ (n - 1) * ((n - 1) * (c * c)) \in Int /\ (n - 1) * (S * c) \in Int /\ (n - 1) * C \in Int
          /\ (n - 1) * e \in Int
      BY <1>2
    <3> QED
      BY <3>1, <3>2, <3>3, <1>1
  <2>3. (n - 1) * C - S * S >= n * Q
    <3>1. (n - 1) * C = n * ((n - 1) * Q - S * S) + S * S
      OBVIOUS
    <3>2. (n - 1) * Q - S * S >= Q
      <4>1. (n - 1) * Q = (n - 2) * Q + Q
        OBVIOUS
      <4> QED
        BY <4>1, <1>1
    <3>3. n * ((n - 1) * Q - S * S) >= n * Q
      <4>1. (n - 1) * Q - S * S \in Int
        BY <1>1
      <4> QED
        BY <4>1, <3>2, TimesPositive
    <3>4. n * ((n - 1) * Q - S * S) \in Int
      OBVIOUS
    <3> QED
      BY <3>1, <3>3, <3>4, <1>1
  <2>4. (n - 1) * e > 0
    <3>1. ((n - 1) * c - S) * ((n - 1) * c - S) >= 0
      BY SquarePositive
    <3>2. CASE Q > 0
      <4>1. n * Q > 0
        BY <3>2, TimesPositive
      <4>2. ((n - 1) * c - S) * ((n - 1) * c - S) \in Int /\ (n - 1) * C \in Int
        BY <1>2
      <4> QED
        BY <2>2, <2>3, <3>1, <4>1, <4>2, <1>1
    <3>3. CASE Q = 0
      <4>1. S = 0
        BY <3>3, SquarePositive
      <4>2. e = (n - 1) * (c * c)
        BY <3>3, <4>1
      <4>3. c * c > 0 /\ c * c \in Int
        BY SquarePositive
      <4>4. e > 0 /\ e \in Int
        BY <4>2, <4>3, TimesPositive
      <4> QED
        BY <4>4, TimesPositive
    <3> QED
      BY <3>2, <3>3
  <2>5. e \in Int
    BY <1>2
  <2> HIDE DEF e
  <2>6. e > 0
    BY <2>4, <2>5, TimesPositive
  <2> QED
    BY <2>1, <2>6
<1> DEFINE A == (n - 1) * (n - 16)
           B == 32 * S
<1>4. A * a * a + B * a - 16 * C > 0
  <2>1. /\ n * (n - 1) * a * a \in Int /\ n * (Q + a * a) - (S + a) * (S + a) \in Int
        /\ n * (n - 1) * a * a > 16 * (n * (Q + a * a) - (S + a) * (S + a))
    BY DEF Far
  <2> QED
    BY <2>1, FarGap
<1>5. A \in Int /\ B \in Int
  OBVIOUS
<1>6. SUFFICES A * c * c + B * c - 16 * C > 0
  <2>1. n * (n - 1) * c * c \in Int /\ n * (Q + c * c) - (S + c) * (S + c) \in Int
    OBVIOUS
  <2>2. n * (n - 1) * c * c - 16 * (n * (Q + c * c) - (S + c) * (S + c)) > 0
    BY <1>6, FarGap
  <2>3. n * (n - 1) * c * c > 16 * (n * (Q + c * c) - (S + c) * (S + c))
    BY <2>1, <2>2
  <2> QED
    BY <1>3, <2>3 DEF Far
<1>7. CASE n >= 16
  <2>1. A >= 0
    BY <1>7, TimesPositive
  <2> HIDE DEF A, B, C
  <2>2. A * a * a + B * a = a * (A * a + B) /\ A * c * c + B * c = c * (A * c + B)
    BY <1>5
  <2>3. A * a + B \in Int /\ A * c + B \in Int /\ a * (A * a + B) \in Int /\ c * (A * c + B) \in Int
        /\ c * (A * a + B) \in Int /\ A * a \in Int /\ A * c \in Int
    BY <1>5
  <2>4. a * (A * a + B) > 16 * C
    <3>1. 16 * C \in Int /\ A * a * a \in Int /\ B * a \in Int
      BY <1>2, <1>5
    <3> QED
      BY <1>4, <2>2, <2>3, <3>1
  <2>5. A * a + B > 0
    BY <2>4, <2>3, <1>2, TimesPositive
  <2>6. A * a + B =< A * c + B
    BY <2>1, <2>3, <1>5, TimesPositive
  <2>7. a * (A * a + B) < c * (A * a + B)
    BY <2>5, <2>3
  <2>8. c * (A * a + B) =< c * (A * c + B)
    BY <2>6, <2>3, TimesPositive
  <2>9. c * (A * c + B) > 16 * C
    <3>1. 16 * C \in Int
      BY <1>2
    <3> QED
      BY <2>3, <2>4, <2>7, <2>8, <3>1
  <2>10. 16 * C \in Int /\ A * c * c \in Int /\ B * c \in Int
    BY <1>2, <1>5
  <2> QED
    BY <2>2, <2>3, <2>9, <2>10
<1>8. CASE n < 16
  <2> DEFINE E == (n - 1) * (16 - n)
  <2>1. E > 0 /\ E \in Int
    BY <1>8, TimesPositive
  <2>2. A = -E
    OBVIOUS
  <2>3. 16 + E = n * (17 - n)
    OBVIOUS
  <2>4. 2 * E >= (n - 3) * (17 - n)
    <3>1. n \in {2, 3, 4, 5, 6, 7, 8, 9, 10, 11, 12, 13, 14, 15}
      BY <1>8
    <3> QED
      BY <3>1
  <2> HIDE DEF E, A
  <2>5. 32 * S * a - E * a * a - 16 * C > 0
    BY <1>4, <2>1, <2>2
  <2>6. (E * a - 16 * S) * (E * a - 16 * S) >= 0
    BY <2>1, SquarePositive
  <2>7. (E * a - 16 * S) * (E * a - 16 * S) = 256 * (S * S) - E * (32 * S * a - E * a * a)
    BY <2>1
  <2>8. E * (32 * S * a - E * a * a) > E * (16 * C)
    <3>1. 32 * S * a - E * a * a \in Int /\ 16 * C \in Int /\ 32 * S * a - E * a * a > 16 * C
      BY <2>1, <2>5, <1>2
    <3> QED
      BY <3>1, <2>1, TimesPositive
  <2>9. 16 * (S * S) > E * C
    <3>1. E * (32 * S * a - E * a * a) \in Int /\ E * C \in Int /\ E * (16 * C) = 16 * (E * C)
      BY <2>1, <1>2
    <3> QED
      BY <2>6, <2>7, <2>8, <3>1, <1>1
  <2>10. n * ((17 - n) * (S * S)) > n * (E * Q)
    <3>1. E * C = n * (E * Q) - E * (S * S)
      BY <2>1
    <3>2. n * ((17 - n) * (S * S)) = (16 + E) * (S * S)
      BY <2>3, <2>1
    <3>3. (16 + E) * (S * S) = 16 * (S * S) + E * (S * S)
      BY <2>1
    <3>4. E * (S * S) \in Int /\ n * (E * Q) \in Int
      BY <2>1
    <3> QED
      BY <2>9, <3>1, <3>2, <3>3, <3>4, <1>1
  <2>11. (17 - n) * (S * S) > E * Q
    <3>1. (17 - n) * (S * S) \in Int /\ E * Q \in Int
      BY <2>1
    <3> QED
      BY <2>10, <3>1, TimesPositive
  <2>12. 2 * (S * S) =< (n - 3) * Q
    <3>1. (2 * k) * Q =< (n - 3) * Q
      BY TimesPositive
    <3>2. (2 * k) * Q = 2 * (k * Q)
      OBVIOUS
    <3> QED
      BY <3>1, <3>2, <1>1
  <2>13. (17 - n) * (2 * (S * S)) =< (17 - n) * ((n - 3) * Q)
    BY <2>12, <1>8, TimesPositive
  <2>14. (2 * E) * Q >= ((n - 3) * (17 - n)) * Q
    BY <2>1, <2>4, TimesPositive
  <2>15. /\ (17 - n) * (2 * (S * S)) = 2 * ((17 - n) * (S * S))
         /\ (2 * E) * Q = 2 * (E * Q)
         /\ (17 - n) * ((n - 3) * Q) = ((n - 3) * (17 - n)) * Q
    BY <2>1
  <2>16. (17 - n) * (S * S) \in Int /\ E * Q \in Int /\ ((n - 3) * (17 - n)) * Q \in Int
    BY <2>1
  <2> QED
    BY <2>11, <2>13, <2>14, <2>15, <2>16
<1> QED
  BY <1>7, <1>8

-----------------------------------------------------------------------------
(* Anomalies.                                                              *)

\* Functions that agree on a set have one sum there.
LEMMA SumsAgree ==
  ASSUME NEW v, NEW D, D = DOMAIN v, IsFiniteSet(D), \A x \in D : v[x] \in Int,
         NEW w, NEW E, E = DOMAIN w, IsFiniteSet(E), \A x \in E : w[x] \in Int,
         NEW R, R \subseteq D, R \subseteq E, \A x \in R : v[x] = w[x]
  PROVE  Sums(v)[R] = Sums(w)[R] /\ Sums(v)[R] \in Int
<1>1. AddsUp(Sums(v), v, D) /\ AddsUp(Sums(w), w, E)
  BY SumsAddUp
<1> DEFINE G == {T \in SUBSET R : Sums(v)[T] = Sums(w)[T]}
<1>2. IsFiniteSet(R)
  BY FS_Subset
<1>3. {} \in G
  BY <1>1 DEF AddsUp
<1>4. ASSUME NEW T \in SUBSET R, NEW x \in T, T \ {x} \in G PROVE T \in G
  <2>1. T \in SUBSET D /\ T \in SUBSET E /\ v[x] = w[x] /\ Sums(v)[T \ {x}] = Sums(w)[T \ {x}]
    BY <1>4
  <2>2. Sums(v)[T] = v[x] + Sums(v)[T \ {x}] /\ Sums(w)[T] = w[x] + Sums(w)[T \ {x}]
    BY <1>1, <2>1 DEF AddsUp
  <2> QED
    BY <2>1, <2>2
<1> HIDE DEF G
<1>5. R \in G
  BY <1>2, <1>3, <1>4, SubsetInduction
<1>6. Sums(v)[R] \in Int
  BY <1>1 DEF AddsUp
<1> QED
  BY <1>5, <1>6 DEF G

\* The sums of the values, doubled and counted from m, and of their squares.
LEMMA SumsShift ==
  ASSUME NEW D, IsFiniteSet(D), NEW p \in Values(D), NEW m \in Int,
         NEW pp \in Values(D), NEW q \in Values(D), NEW sq \in Values(D),
         \A i \in D : pp[i] = p[i] * p[i] /\ q[i] = 2 * p[i] - m /\ sq[i] = q[i] * q[i]
  PROVE  /\ Sums(p)[D] \in Int /\ Sums(pp)[D] \in Int /\ Sums(q)[D] \in Int /\ Sums(sq)[D] \in Int
         /\ Sums(q)[D] = 2 * Sums(p)[D] - m * Cardinality(D)
         /\ Sums(sq)[D] = 4 * Sums(pp)[D] - 4 * (m * Sums(p)[D]) + (m * m) * Cardinality(D)
<1>1. /\ DOMAIN p = D /\ DOMAIN pp = D /\ DOMAIN q = D /\ DOMAIN sq = D
      /\ \A i \in D : /\ p[i] \in Int /\ pp[i] \in Int /\ q[i] \in Int /\ sq[i] \in Int
                      /\ pp[i] = p[i] * p[i] /\ q[i] = 2 * p[i] - m
                      /\ sq[i] = q[i] * q[i]
  BY DEF Values
<1>2. AddsUp(Sums(p), p, D) /\ AddsUp(Sums(pp), pp, D) /\ AddsUp(Sums(q), q, D) /\ AddsUp(Sums(sq), sq, D)
  BY <1>1, SumsAddUp
<1> DEFINE G == {T \in SUBSET D :
                   /\ Sums(q)[T] = 2 * Sums(p)[T] - m * Cardinality(T)
                   /\ Sums(sq)[T] = 4 * Sums(pp)[T] - 4 * (m * Sums(p)[T]) + (m * m) * Cardinality(T)}
<1>3. {} \in G
  BY <1>2, FS_EmptySet DEF AddsUp
<1>4. ASSUME NEW T \in SUBSET D, NEW x \in T, T \ {x} \in G PROVE T \in G
  <2> DEFINE U == T \ {x}
             k == Cardinality(U)
             P1 == Sums(p)[U]
             P2 == Sums(pp)[U]
  <2>1. Cardinality(T) = k + 1 /\ k \in Nat
    <3>1. IsFiniteSet(T) /\ Cardinality(T) \in Nat /\ Cardinality(T \ {x}) \in Nat
      BY PartIsFewer
    <3>2. Cardinality(T \ {x}) = Cardinality(T) - 1
      BY <3>1, FS_RemoveElement
    <3> QED
      BY <3>1, <3>2
  <2>2. /\ P1 \in Int /\ P2 \in Int
        /\ Sums(q)[U] = 2 * P1 - m * k /\ Sums(sq)[U] = 4 * P2 - 4 * (m * P1) + (m * m) * k
    BY <1>2, <1>4 DEF AddsUp
  <2>3. /\ Sums(p)[T] = p[x] + P1 /\ Sums(pp)[T] = pp[x] + P2
        /\ Sums(q)[T] = q[x] + Sums(q)[U] /\ Sums(sq)[T] = sq[x] + Sums(sq)[U]
    BY <1>2 DEF AddsUp
  <2> DEFINE v == p[x]
  <2>4. v \in Int /\ pp[x] = v * v /\ q[x] = 2 * v - m /\ sq[x] = (2 * v - m) * (2 * v - m)
    BY <1>1
  <2> HIDE DEF U, k, P1, P2, v
  <2>5. (2 * v - m) * (2 * v - m) = 4 * (v * v) - 4 * (m * v) + m * m
    BY <2>4
  <2>6. m * (v + P1) = m * v + m * P1 /\ (m * m) * (k + 1) = (m * m) * k + m * m /\ m * (k + 1) = m * k + m
    BY <2>1, <2>2, <2>4
  <2>7. m * v \in Int /\ m * P1 \in Int /\ (m * m) * k \in Int /\ m * m \in Int /\ m * k \in Int /\ v * v \in Int
    BY <2>1, <2>2, <2>4
  <2>8. Sums(q)[T] = 2 * Sums(p)[T] - m * Cardinality(T)
    BY <2>1, <2>2, <2>3, <2>4, <2>6, <2>7 DEF v
  <2>9. Sums(sq)[T] = 4 * Sums(pp)[T] - 4 * (m * Sums(p)[T]) + (m * m) * Cardinality(T)
    BY <2>1, <2>2, <2>3, <2>4, <2>5, <2>6, <2>7 DEF v
  <2> QED
    BY <2>8, <2>9
<1> HIDE DEF G
<1>5. D \in G
  BY <1>3, <1>4, SubsetInduction
<1>6. Sums(p)[D] \in Int /\ Sums(pp)[D] \in Int /\ Sums(q)[D] \in Int /\ Sums(sq)[D] \in Int
  BY <1>2 DEF AddsUp
<1> QED
  BY <1>5, <1>6 DEF G

\* The distances from m of all but b: their sum, and that of their squares.
RestSum(p, m, b) == Sums([i \in DOMAIN p |-> 2 * p[i] - m])[DOMAIN p \ {b}]
RestSquares(p, m, b) == Sums([i \in DOMAIN p |-> (2 * p[i] - m) * (2 * p[i] - m)])[DOMAIN p \ {b}]

\* Far from m in standard deviations.
LEMMA FarInDeviations ==
  ASSUME NEW D, IsFiniteSet(D), NEW p \in Values(D), NEW m \in Int, NEW b \in D,
         NEW n, n = Cardinality(D), NEW a, a = 2 * p[b] - m
  PROVE  /\ SquaredSpread(p) \in Int
         /\ RestSum(p, m, b) \in Int /\ RestSquares(p, m, b) \in Nat
         /\ Far(n, RestSum(p, m, b), RestSquares(p, m, b), a)
              <=> SquaredSpread(p) > 0 /\ n * (n - 1) * a * a > 64 * SquaredSpread(p)
<1> DEFINE pp == [i \in D |-> p[i] * p[i]]
           q == [i \in D |-> 2 * p[i] - m]
           sq == [i \in D |-> q[i] * q[i]]
           P1 == Sums(p)[D]
           P2 == Sums(pp)[D]
           S == RestSum(p, m, b)
           Q == RestSquares(p, m, b)
<1>1. DOMAIN p = D /\ n \in Nat /\ \A i \in D : p[i] \in Int
  BY FS_CardinalityType DEF Values
<1>2. SumOf(p) = P1 /\ SumOf(pp) = P2
  <2>1. DOMAIN pp = D
    OBVIOUS
  <2> HIDE DEF pp
  <2> QED
    BY <1>1, <2>1, SumOfIsSum
<1>3. SquaredSpread(p) = n * P2 - P1 * P1
  BY <1>1, <1>2 DEF SquaredSpread
<1>4. sq = [i \in D |-> (2 * p[i] - m) * (2 * p[i] - m)]
  OBVIOUS
<1>5. S = Sums(q)[D \ {b}] /\ Q = Sums(sq)[D \ {b}]
  BY <1>1, <1>4 DEF RestSum, RestSquares
<1>6. DOMAIN q = D /\ DOMAIN sq = D /\ q \in Values(D) /\ \A i \in D : q[i] \in Int /\ sq[i] = q[i] * q[i] /\ sq[i] \in Int
  BY <1>1 DEF Values
<1>7. q[b] = a /\ a \in Int
  BY <1>1
<1>8. sq = [i \in D |-> q[i] * q[i]]
  OBVIOUS
<1>19. /\ pp \in Values(D) /\ q \in Values(D) /\ sq \in Values(D)
       /\ \A i \in D : pp[i] = p[i] * p[i] /\ q[i] = 2 * p[i] - m /\ sq[i] = q[i] * q[i]
  BY <1>1, <1>6 DEF Values
<1> HIDE DEF pp, q, sq, P1, P2, S, Q
<1>9. /\ P1 \in Int /\ P2 \in Int
      /\ Sums(q)[D] = 2 * P1 - m * n
      /\ Sums(sq)[D] = 4 * P2 - 4 * (m * P1) + (m * m) * n
  <2>1. /\ Sums(p)[D] \in Int /\ Sums(pp)[D] \in Int
        /\ Sums(q)[D] = 2 * Sums(p)[D] - m * Cardinality(D)
        /\ Sums(sq)[D] = 4 * Sums(pp)[D] - 4 * (m * Sums(p)[D]) + (m * m) * Cardinality(D)
    BY <1>19, SumsShift
  <2> QED
    BY <2>1 DEF P1, P2
<1>10. S \in Int /\ Q \in Nat
  <2>1. D \ {b} \in SUBSET D
    OBVIOUS
  <2> QED
    BY <1>5, <1>6, <1>8, <2>1, SumOfSquares
<1>11. AddsUp(Sums(q), q, D) /\ AddsUp(Sums(sq), sq, D)
  BY <1>6, SumsAddUp
<1>12. Sums(q)[D] = S + a /\ Sums(sq)[D] = Q + a * a
  <2>1. Sums(q)[D] = q[b] + S /\ Sums(sq)[D] = sq[b] + Q
    BY <1>5, <1>11 DEF AddsUp
  <2>2. sq[b] = a * a /\ a * a \in Int
    BY <1>6, <1>7
  <2> QED
    BY <2>1, <2>2, <1>7, <1>10
<1>13. n * (Q + a * a) - (S + a) * (S + a) = 4 * (n * P2 - P1 * P1)
  <2>1. Q + a * a = 4 * P2 - 4 * (m * P1) + (m * m) * n /\ S + a = 2 * P1 - m * n
    BY <1>9, <1>12
  <2>2. n * (4 * P2 - 4 * (m * P1) + (m * m) * n) = 4 * (n * P2) - 4 * (m * (n * P1)) + (m * n) * (m * n)
    BY <1>1, <1>9
  <2>3. (2 * P1 - m * n) * (2 * P1 - m * n) = 4 * (P1 * P1) - 4 * (m * (n * P1)) + (m * n) * (m * n)
    BY <1>1, <1>9
  <2>4. m * (n * P1) \in Int /\ (m * n) * (m * n) \in Int /\ n * P2 \in Int /\ P1 * P1 \in Int
    BY <1>1, <1>9
  <2> QED
    BY <2>1, <2>2, <2>3, <2>4
<1>14. n * P2 - P1 * P1 \in Int /\ n * (n - 1) * a * a \in Int
  BY <1>1, <1>7, <1>9
<1> DEFINE F == n * (Q + a * a) - (S + a) * (S + a)
           V == n * P2 - P1 * P1
<1>15. F = 4 * V /\ V \in Int
  BY <1>13, <1>14
<1>16. Far(n, S, Q, a) <=> F > 0 /\ n * (n - 1) * a * a > 16 * F
  BY DEF Far
<1>17. SquaredSpread(p) = V
  BY <1>3
<1> HIDE DEF F, V
<1>18. Far(n, S, Q, a) <=> V > 0 /\ n * (n - 1) * a * a > 64 * V
  BY <1>14, <1>15, <1>16
<1> QED
  BY <1>10, <1>15, <1>17, <1>18 DEF S, Q

\* The sums of the rest stay when b changes.
LEMMA RestStays ==
  ASSUME NEW D, IsFiniteSet(D), NEW p \in Values(D), NEW m \in Int, NEW b \in D, NEW y \in Int
  PROVE  LET q == [p EXCEPT ![b] = y] IN
         RestSum(q, m, b) = RestSum(p, m, b) /\ RestSquares(q, m, b) = RestSquares(p, m, b)
<1> DEFINE q == [p EXCEPT ![b] = y]
           f == [i \in D |-> 2 * p[i] - m]
           g == [i \in D |-> 2 * q[i] - m]
           ff == [i \in D |-> (2 * p[i] - m) * (2 * p[i] - m)]
           gg == [i \in D |-> (2 * q[i] - m) * (2 * q[i] - m)]
           R == D \ {b}
<1>1. DOMAIN p = D /\ DOMAIN q = D /\ \A i \in D : p[i] \in Int /\ q[i] = IF i = b THEN y ELSE p[i]
  BY DEF Values
<1> HIDE DEF q
<1>2. /\ DOMAIN f = D /\ DOMAIN g = D /\ DOMAIN ff = D /\ DOMAIN gg = D
      /\ \A i \in D : f[i] \in Int /\ g[i] \in Int /\ ff[i] \in Int /\ gg[i] \in Int
      /\ \A i \in R : f[i] = g[i] /\ ff[i] = gg[i]
  BY <1>1
<1>3. /\ RestSum(p, m, b) = Sums(f)[R] /\ RestSum(q, m, b) = Sums(g)[R]
      /\ RestSquares(p, m, b) = Sums(ff)[R] /\ RestSquares(q, m, b) = Sums(gg)[R]
  BY <1>1 DEF RestSum, RestSquares
<1> HIDE DEF f, g, ff, gg
<1>4. R \subseteq D
  OBVIOUS
<1> HIDE DEF R
<1>5. Sums(f)[R] = Sums(g)[R]
  BY <1>2, <1>4, SumsAgree
<1>6. Sums(ff)[R] = Sums(gg)[R]
  BY <1>2, <1>4, SumsAgree
<1> QED
  BY <1>3, <1>5, <1>6 DEF q

\* Where the median distance is zero most values stand at the median.
LEMMA FewStandOff ==
  ASSUME NEW D, IsFiniteSet(D), NEW p \in Values(D), NEW b \in D,
         NEW m \in Int, 2 * p[b] - m > 0, Median(Distances(p, m)) = 0
  PROVE  \E k \in Nat : /\ 2 * k =< Cardinality(D) - 3
                        /\ RestSum(p, m, b) * RestSum(p, m, b) =< k * RestSquares(p, m, b)
<1> DEFINE d == Distances(p, m)
           q == [i \in D |-> 2 * p[i] - m]
           sq == [i \in D |-> q[i] * q[i]]
           R == D \ {b}
           Off == {i \in R : q[i] # 0}
           n == Cardinality(D)
           hi == HighMiddle(D)
<1>1. DOMAIN p = D /\ \A i \in D : p[i] \in Int
  BY DEF Values
<1>2. d \in Values(D) /\ \A i \in D : d[i] = (IF 2 * p[i] < m THEN m - 2 * p[i] ELSE 2 * p[i] - m) /\ d[i] >= 0
  BY DistancesAre
<1>3. q \in Values(D)
  BY <1>1 DEF Values
<1>4. sq = [i \in D |-> (2 * p[i] - m) * (2 * p[i] - m)]
  OBVIOUS
<1>5. RestSum(p, m, b) = Sums(q)[R] /\ RestSquares(p, m, b) = Sums(sq)[R]
  BY <1>1, <1>4 DEF RestSum, RestSquares
<1>6. \A i \in D : q[i] = 2 * p[i] - m
  OBVIOUS
<1>7. R \in SUBSET D /\ sq = [i \in D |-> q[i] * q[i]]
  OBVIOUS
<1>8. D # {}
  OBVIOUS
<1>9. /\ hi \in 1 .. n /\ AtRank(d, LowMiddle(D)) \in Int /\ AtRank(d, hi) \in Int
      /\ AtRank(d, LowMiddle(D)) + AtRank(d, hi) = 0
      /\ AtRank(d, LowMiddle(D)) >= 0 /\ AtRank(d, hi) >= 0
  BY <1>2, <1>8, MedianIs, DistanceRanks
<1>10. AtRank(d, hi) = 0
  BY <1>9
<1>11. hi =< Cardinality(UpTo(d, 0))
  BY <1>2, <1>9, <1>10, RankIs
<1> HIDE DEF d, q, sq
<1>12. Sums(q)[R] * Sums(q)[R] =< Cardinality(Off) * Sums(sq)[R] /\ Cardinality(Off) \in Nat
  BY <1>3, <1>7, SumOfSquares
<1>13. UpTo(d, 0) \in SUBSET D /\ IsFiniteSet(UpTo(d, 0)) /\ Cardinality(UpTo(d, 0)) \in Nat
  BY <1>2, RankSets, PartIsFewer
<1>14. Off \cap UpTo(d, 0) = {} /\ b \notin Off /\ b \notin UpTo(d, 0) /\ Off \in SUBSET D
  BY <1>1, <1>2, <1>6 DEF UpTo, Values
<1>15. Cardinality(Off) + Cardinality(UpTo(d, 0)) + 1 =< n
  <2>1. IsFiniteSet(Off)
    BY <1>14, PartIsFewer
  <2>2. IsFiniteSet(Off \cup UpTo(d, 0)) /\ Cardinality(Off \cup UpTo(d, 0)) = Cardinality(Off) + Cardinality(UpTo(d, 0))
    <3>1. Cardinality(Off \cap UpTo(d, 0)) = 0
      BY <1>14, FS_EmptySet
    <3>2. Cardinality(Off) \in Nat
      BY <1>12
    <3> HIDE DEF Off
    <3>3. IsFiniteSet(Off \cup UpTo(d, 0))
          /\ Cardinality(Off \cup UpTo(d, 0)) = Cardinality(Off) + Cardinality(UpTo(d, 0)) - Cardinality(Off \cap UpTo(d, 0))
      BY <2>1, <1>13, FS_Union
    <3> QED
      BY <1>13, <3>1, <3>2, <3>3
  <2>3. Off \cup UpTo(d, 0) \in SUBSET D /\ Off \cup UpTo(d, 0) # D
    BY <1>13, <1>14
  <2>4. Cardinality(Off \cup UpTo(d, 0)) < n /\ n \in Nat
    BY <2>3, PartIsFewer
  <2> QED
    BY <2>2, <2>4, <1>12, <1>13
<1>16. n \in Nat /\ 2 * hi >= n + 1
  <2>1. n \in Nat
    BY FS_CardinalityType
  <2> QED
    BY <2>1 DEF HighMiddle
<1>17. 2 * Cardinality(Off) =< n - 3
  BY <1>11, <1>12, <1>13, <1>15, <1>16, <1>9
<1> QED
  BY <1>5, <1>12, <1>17

\* An anomaly that rises further stays one.
LEMMA RaisedStaysAnomalous ==
  ASSUME NEW D, IsFiniteSet(D), NEW p \in Values(D), NEW b \in D, NEW y \in Int, p[b] < y,
         Anomalous(p[b], p)
  PROVE  Anomalous(y, [p EXCEPT ![b] = y])
<1> DEFINE q == [p EXCEPT ![b] = y]
           m == Median(p)
           d == Distances(p, m)
           a == 2 * p[b] - m
           c == 2 * y - m
           n == Cardinality(D)
<1>0. D # {} /\ DOMAIN p = D /\ DOMAIN q = D /\ p[b] \in Int /\ q[b] = y /\ q \in Values(D)
  BY DEF Values
<1>1. m \in Int
  BY <1>0, MedianIs
<1>2. /\ n >= MinPeers /\ a > 0
      /\ TooFar(a, Median(d), SquaredSpread(p), n)
  BY <1>0 DEF Anomalous, Excess, MedianDistance
<1>3. d \in Values(D) /\ (\A i \in D : d[i] >= 0) /\ d[b] = a /\ a < c
  BY <1>0, <1>1, <1>2, DistancesAre
<1>16. m = Median(p) /\ d = Distances(p, m) /\ a = 2 * p[b] - m /\ c = 2 * y - m
  OBVIOUS
<1> HIDE DEF m, d, a, c, q
<1>4. /\ AtRank(d, LowMiddle(D)) >= 0 /\ AtRank(d, HighMiddle(D)) >= 0
      /\ AtRank(d, LowMiddle(D)) \in Int /\ AtRank(d, HighMiddle(D)) \in Int
      /\ Median(d) = AtRank(d, LowMiddle(D)) + AtRank(d, HighMiddle(D))
  BY <1>0, <1>3, MedianIs, DistanceRanks
<1>5. Median(d) >= 0 /\ Median(d) \in Int /\ 5000 * a > 14826 * Median(d) /\ a \in Int /\ c \in Int
  BY <1>0, <1>1, <1>2, <1>4, <1>16 DEF TooFar
<1>6. AtRank(p, LowMiddle(D)) < p[b] /\ AtRank(p, HighMiddle(D)) < p[b]
  BY <1>2, <1>5, <1>16, FarIsAboveMiddle
<1>7. Median(q) = m
  <2>1. p[b] =< y
    BY <1>0
  <2>2. Median([p EXCEPT ![b] = y]) = Median(p)
    BY <1>6, <2>1, RaiseKeepsMedian
  <2> QED
    BY <1>16, <2>2 DEF q
<1>8. AtRank(d, LowMiddle(D)) < d[b] /\ AtRank(d, HighMiddle(D)) < d[b]
  BY <1>3, <1>4, <1>5
<1>9. Distances(q, m) = [d EXCEPT ![b] = c]
  <2>1. m =< 2 * y
    BY <1>1, <1>2, <1>3, <1>5, <1>16
  <2>2. Distances([p EXCEPT ![b] = y], m) = [Distances(p, m) EXCEPT ![b] = 2 * y - m]
    BY <1>1, <2>1, DistancesAre
  <2> QED
    BY <1>16, <2>2 DEF q
<1>10. Median(Distances(q, m)) = Median(d)
  <2>1. d[b] =< c
    BY <1>3, <1>5
  <2>2. Median([d EXCEPT ![b] = c]) = Median(d)
    BY <1>3, <1>5, <1>8, <2>1, RaiseKeepsMedian
  <2> QED
    BY <1>9, <2>2
<1>11. Excess(y, q) = c /\ MedianDistance(q) = Median(d)
  BY <1>7, <1>10, <1>16 DEF Excess, MedianDistance
<1>12. c > 0
  BY <1>2, <1>3, <1>5
<1>13. SUFFICES TooFar(c, Median(d), SquaredSpread(q), n)
  BY <1>0, <1>2, <1>11, <1>12, <1>13 DEF Anomalous, q
<1>14. CASE Median(d) > 0
  BY <1>14, <1>3, <1>5 DEF TooFar
<1>15. CASE Median(d) = 0
  <2> DEFINE S == RestSum(p, m, b)
             Q == RestSquares(p, m, b)
  <2>1. PICK k \in Nat : 2 * k =< n - 3 /\ S * S =< k * Q
    BY <1>1, <1>2, <1>15, <1>16, FewStandOff
  <2>2. S \in Int /\ Q \in Nat /\ (Far(n, S, Q, a) <=> SquaredSpread(p) > 0 /\ n * (n - 1) * a * a > 64 * SquaredSpread(p))
    BY <1>1, <1>16, FarInDeviations
  <2>3. RestSum(q, m, b) = S /\ RestSquares(q, m, b) = Q
    BY <1>1, RestStays DEF q
  <2>4. Far(n, RestSum(q, m, b), RestSquares(q, m, b), c)
            <=> SquaredSpread(q) > 0 /\ n * (n - 1) * c * c > 64 * SquaredSpread(q)
    BY <1>0, <1>1, <1>16, FarInDeviations
  <2>5. Far(n, S, Q, a)
    BY <1>2, <1>15, <2>2 DEF TooFar
  <2>6. n \in Nat /\ n >= 2
    BY <2>1, FS_CardinalityType
  <2> HIDE DEF S, Q, n
  <2>9. S \in Int /\ Q \in Nat /\ a \in Int /\ c \in Int /\ 0 < a /\ a < c
    BY <2>2, <1>2, <1>3, <1>5
  <2>7. Far(n, S, Q, c)
    BY <2>1, <2>5, <2>6, <2>9, FarMoves
  <2>8. SquaredSpread(q) > 0 /\ n * (n - 1) * c * c > 64 * SquaredSpread(q)
    BY <2>3, <2>4, <2>7
  <2> QED
    BY <1>15, <2>8 DEF TooFar
<1> QED
  BY <1>5, <1>14, <1>15

-----------------------------------------------------------------------------
(* The gate.                                                               *)

\* The peers of a currency.
PeersOf(market, U, currency) == {c \in U : market[c].ytm > 0 /\ market[c].currency = currency}

LEMMA MarketRows ==
  ASSUME NEW market \in Seq(RowType)
  PROVE  /\ IsFiniteSet(DOMAIN market)
         /\ \A b \in DOMAIN market : b \in Nat /\ market[b] \in RowType /\ market[b].ytm \in Int
         /\ \A U \in SUBSET DOMAIN market : \A cur : /\ IsFiniteSet(PeersOf(market, U, cur))
                                           /\ Peers(market, U, cur) \in Values(PeersOf(market, U, cur))
<1>1. DOMAIN market = 1 .. Len(market) /\ Len(market) \in Nat
  OBVIOUS
<1>2. IsFiniteSet(DOMAIN market)
  BY <1>1, Segment
<1>3. \A b \in DOMAIN market : b \in Nat /\ market[b] \in RowType /\ market[b].ytm \in Int
  <2>1. \A b \in DOMAIN market : b \in Nat /\ market[b] \in RowType
    BY <1>1
  <2>2. \A r \in RowType : r.ytm \in Int
    BY DEF RowType
  <2> QED
    BY <2>1, <2>2
<1>4. ASSUME NEW U \in SUBSET DOMAIN market, NEW cur
      PROVE  /\ IsFiniteSet(PeersOf(market, U, cur))
             /\ Peers(market, U, cur) \in Values(PeersOf(market, U, cur))
  <2>1. PeersOf(market, U, cur) \in SUBSET DOMAIN market
    BY DEF PeersOf
  <2> QED
    BY <2>1, <1>2, <1>3, FS_Subset DEF Peers, PeersOf, Values
<1> QED
  BY <1>2, <1>3, <1>4

\* A row that rises takes its peers along.
LEMMA PeersOnlyRise ==
  ASSUME NEW market \in Seq(RowType), NEW c \in DOMAIN market, NEW y \in Nat, market[c].ytm < y, NEW cur
  PROVE  LET all == DOMAIN market
             higher == [market EXCEPT ![c].ytm = y]
         IN /\ DOMAIN higher = all
            /\ \A b \in all \ {c} : higher[b] = market[b]
            /\ higher[c] = [market[c] EXCEPT !.ytm = y]
            /\ higher[c].currency = market[c].currency /\ higher[c].ytm = y
            /\ market[c].currency # cur => Peers(higher, all, cur) = Peers(market, all, cur)
            /\ market[c].currency = cur /\ market[c].ytm > 0 =>
                 /\ c \in PeersOf(market, all, cur)
                 /\ Peers(higher, all, cur) = [Peers(market, all, cur) EXCEPT ![c] = y]
<1> DEFINE all == DOMAIN market
           higher == [market EXCEPT ![c].ytm = y]
<1>1. market[c] \in RowType
  BY MarketRows
<1>2. DOMAIN higher = all /\ (\A b \in all \ {c} : higher[b] = market[b]) /\ higher[c] = [market[c] EXCEPT !.ytm = y]
  OBVIOUS
<1>4. higher[c].currency = market[c].currency /\ higher[c].ytm = y
  BY <1>1, <1>2 DEF RowType
<1>5. \A b \in all : market[b].ytm \in Int
  BY MarketRows
<1> HIDE DEF higher
<1>6. ASSUME market[c].currency # cur PROVE Peers(higher, all, cur) = Peers(market, all, cur)
  <2>1. \A b \in all : (higher[b].ytm > 0 /\ higher[b].currency = cur) <=> (market[b].ytm > 0 /\ market[b].currency = cur)
    BY <1>2, <1>4, <1>6
  <2>2. \A b \in all : market[b].currency = cur => higher[b].ytm = market[b].ytm
    BY <1>2, <1>6
  <2> QED
    BY <2>1, <2>2 DEF Peers
<1>7. ASSUME market[c].currency = cur, market[c].ytm > 0
      PROVE  /\ c \in PeersOf(market, all, cur)
             /\ Peers(higher, all, cur) = [Peers(market, all, cur) EXCEPT ![c] = y]
  <2>1. \A b \in all : (higher[b].ytm > 0 /\ higher[b].currency = cur) <=> (market[b].ytm > 0 /\ market[b].currency = cur)
    <3>1. \A b \in all \ {c} : higher[b] = market[b]
      BY <1>2
    <3>2. y > 0
      BY <1>5, <1>7
    <3> QED
      BY <1>4, <1>7, <3>1, <3>2
  <2>2. \A b \in all : higher[b].ytm = IF b = c THEN y ELSE market[b].ytm
    BY <1>2, <1>4
  <2> QED
    BY <2>1, <2>2, <1>7 DEF Peers, PeersOf
<1> QED
  BY <1>2, <1>4, <1>6, <1>7 DEF higher

\* The peers of a bond have yields above zero, and so has the middle of them.
LEMMA PeersAreAboveZero ==
  ASSUME NEW market \in Seq(RowType), NEW U \in SUBSET DOMAIN market, NEW cur,
         PeersOf(market, U, cur) # {}
  PROVE  Median(Peers(market, U, cur)) > 0
<1> DEFINE D == PeersOf(market, U, cur)
           p == Peers(market, U, cur)
<1>1. IsFiniteSet(D) /\ p \in Values(D) /\ D # {}
  BY MarketRows
<1>2. \A i \in D : p[i] > 0
  BY DEF Peers, PeersOf
<1> HIDE DEF D, p
<1>3. /\ LowMiddle(D) \in 1 .. Cardinality(D) /\ HighMiddle(D) \in 1 .. Cardinality(D)
      /\ AtRank(p, LowMiddle(D)) \in Int /\ AtRank(p, HighMiddle(D)) \in Int
      /\ Median(p) = AtRank(p, LowMiddle(D)) + AtRank(p, HighMiddle(D))
  BY <1>1, MedianIs
<1>4. AtRank(p, LowMiddle(D)) \in Range(p) /\ AtRank(p, HighMiddle(D)) \in Range(p)
  BY <1>1, <1>3, RankIs
<1>5. AtRank(p, LowMiddle(D)) > 0 /\ AtRank(p, HighMiddle(D)) > 0
  BY <1>1, <1>2, <1>4 DEF Range, Values
<1> QED
  BY <1>3, <1>5 DEF p

\* The gate, for a bond of the market among all of it.
LEMMA GateOf ==
  ASSUME NEW market, NEW U, NEW B, NEW b \in B
  PROVE  b \in EligibleOf(market, B, U) <=> Eligible(market[b], Peers(market, U, market[b].currency))
BY DEF EligibleOf

LEMMA HigherNeverHelps ==
  ASSUME NEW market \in Seq(RowType)
  PROVE  HigherYieldNeverHelps(market)
<1> DEFINE all == DOMAIN market
<1> SUFFICES ASSUME NEW b \in all, NEW y \in HigherYields,
                    market[b].ytm >= 0, y > market[b].ytm,
                    b \notin EligibleOf(market, all, all)
             PROVE  b \notin EligibleOf([market EXCEPT ![b].ytm = y], all, all)
  BY DEF HigherYieldNeverHelps
<1> DEFINE higher == [market EXCEPT ![b].ytm = y]
           row == market[b]
           cur == row.currency
           p == Peers(market, all, cur)
           q == Peers(higher, all, cur)
           D == PeersOf(market, all, cur)
<1>1. y \in Nat
  BY GateAssumption
<1>2. row \in RowType /\ row.ytm \in Int /\ IsFiniteSet(D) /\ p \in Values(D)
  BY MarketRows
<1>3. /\ DOMAIN higher = all /\ higher[b] = [row EXCEPT !.ytm = y]
      /\ higher[b].currency = cur
      /\ row.ytm > 0 => b \in D /\ q = [p EXCEPT ![b] = y]
  BY <1>1, PeersOnlyRise
<1>4. ~Eligible(row, p)
  BY GateOf
<1>5. SUFFICES ~Eligible(higher[b], q)
  BY <1>3, GateOf
<1> DEFINE rowq == higher[b]
<1>6. /\ rowq.ytm = y /\ rowq.state = row.state /\ rowq.life = row.life /\ rowq.price = row.price
  BY <1>2, <1>3 DEF RowType
<1>7. row.ytm # NoYield /\ y # NoYield /\ row.price \in Nat
  <2>1. row.price \in Nat
    BY <1>2 DEF RowType
  <2> QED
    BY <1>1, <1>2, <2>1 DEF NoYield
<1>11. row.ytm >= 0 /\ y > row.ytm
  OBVIOUS
<1> HIDE DEF row, rowq, p, q, D, higher, cur
<1>8. TooRisky(row) => TooRisky(rowq)
  BY <1>1, <1>2, <1>6, <1>7, <1>11 DEF TooRisky
<1>9. ASSUME DOMAIN p # {}, Anomalous(row.ytm, p) PROVE DOMAIN q # {} /\ Anomalous(y, q)
  <2>1. D # {}
    BY <1>2, <1>9 DEF Values
  <2>2. row.ytm > 0
    <3>1. Median(p) > 0
      BY <2>1, PeersAreAboveZero DEF D, p
    <3>2. 2 * row.ytm - Median(p) > 0
      BY <1>9 DEF Anomalous, Excess
    <3>3. Median(p) \in Int
      BY <1>2, <2>1, MedianIs
    <3> QED
      BY <1>2, <3>1, <3>2, <3>3
  <2>3. b \in D /\ q = [p EXCEPT ![b] = y]
    BY <1>3, <2>2
  <2>4. p[b] = row.ytm
    BY <2>3 DEF p, D, row, Peers, PeersOf
  <2>5. Anomalous(y, [p EXCEPT ![b] = y])
    <3>1. p[b] < y /\ Anomalous(p[b], p) /\ y \in Int
      BY <1>1, <1>2, <1>9, <1>11, <2>4
    <3> QED
      BY <1>2, <2>3, <3>1, RaisedStaysAnomalous
  <2> QED
    BY <1>2, <2>3, <2>5 DEF Values
<1>10. ~Eligible(rowq, q)
  BY <1>4, <1>6, <1>7, <1>8, <1>9 DEF Eligible
<1> QED
  BY <1>10 DEF rowq

\* A value that rises, from one in the upper half or more, leaves the median.
LEMMA RaiseAboveKeepsMedian ==
  ASSUME NEW D, IsFiniteSet(D), NEW p \in Values(D), NEW b \in D, NEW c \in D, b # c, NEW y \in Int,
         p[b] =< p[c], p[c] < y, 2 * p[b] > Median(p)
  PROVE  Median([p EXCEPT ![c] = y]) = Median(p)
<1> DEFINE q == [p EXCEPT ![c] = y]
           lo == LowMiddle(D)
           hi == HighMiddle(D)
           v == AtRank(p, lo)
           w == AtRank(p, hi)
<1>1. /\ D # {} /\ DOMAIN p = D /\ p[b] \in Int /\ p[c] \in Int /\ q \in Values(D)
      /\ \A i \in D : q[i] = IF i = c THEN y ELSE p[i]
  BY DEF Values
<1>2. lo \in 1 .. Cardinality(D) /\ hi \in 1 .. Cardinality(D) /\ hi =< lo + 1 /\ hi \in Int /\ lo \in Int
  <2>1. lo \in 1 .. Cardinality(D) /\ hi \in 1 .. Cardinality(D)
    BY <1>1, MedianIs
  <2>2. hi =< lo + 1
    BY <1>1, Middle DEF LowMiddle, HighMiddle
  <2> QED
    BY <2>1, <2>2
<1>3. v \in Int /\ w \in Int /\ v =< w /\ Median(p) = v + w
  BY <1>1, MedianIs
<1>4. v < p[b] /\ p[c] =< y
  BY <1>1, <1>3
<1>5. CASE w < p[c]
  <2>1. v < p[c]
    BY <1>1, <1>3, <1>4
  <2> QED
    BY <1>4, <1>5, <2>1, RaiseKeepsMedian
<1>6. CASE p[c] =< w
  <2>1. lo =< Cardinality(UpTo(p, v)) /\ Cardinality(Under(p, w)) < hi
    BY <1>2, RankIs
  <2> DEFINE T == UpTo(p, v) \cup {b}
  <2> HIDE DEF q, v, w, lo, hi
  <2>2. UpTo(p, v) \in SUBSET D /\ IsFiniteSet(UpTo(p, v)) /\ Cardinality(UpTo(p, v)) \in Nat
    BY <1>3, RankSets, PartIsFewer
  <2>3. b \notin UpTo(p, v)
    BY <1>1, <1>3, <1>4 DEF UpTo
  <2>4. T \in SUBSET D /\ Cardinality(T) = Cardinality(UpTo(p, v)) + 1
    BY <2>2, <2>3, FS_AddElement
  <2> HIDE DEF T
  <2>5. hi =< Cardinality(T) /\ Cardinality(T) \in Nat
    BY <1>2, <2>1, <2>2, <2>4
  <2>6. p[b] = w
    <3> SUFFICES ASSUME p[b] < w PROVE FALSE
      BY <1>1, <1>3, <1>6
    <3>1. T \subseteq Under(p, w)
      BY <1>1, <1>3, <1>4 DEF T, UpTo, Under, Values
    <3>2. IsFiniteSet(Under(p, w)) /\ Cardinality(Under(p, w)) \in Nat
      BY <1>3, RankSets, PartIsFewer
    <3>3. Cardinality(T) =< Cardinality(Under(p, w))
      BY <3>1, <3>2, FS_Subset
    <3> QED
      BY <2>1, <2>5, <3>2, <3>3, <1>2
  <2>7. p[c] = w
    BY <1>1, <1>3, <1>6, <2>6
  <2>8. AtRank(q, lo) = v
    <3>1. AtRank(p, lo) < p[c] /\ p[c] =< y
      BY <1>1, <1>3, <1>4 DEF v
    <3>2. AtRank([p EXCEPT ![c] = y], lo) = AtRank(p, lo)
      BY <1>2, <3>1, RaiseKeepsRanks
    <3> QED
      BY <3>2 DEF q, v
  <2>9. AtRank(q, hi) = w
    <3>1. w \in Range(q)
      BY <1>1, <2>6 DEF Range, Values
    <3>2. Under(q, w) = Under(p, w)
      BY <1>1, <1>3, <2>7 DEF Under, Values
    <3>3. T \subseteq UpTo(q, w)
      BY <1>1, <1>3, <1>4, <2>6, <2>7 DEF T, UpTo, Values
    <3>4. IsFiniteSet(UpTo(q, w)) /\ Cardinality(UpTo(q, w)) \in Nat
      BY <1>1, <1>3, RankSets, PartIsFewer
    <3>5. Cardinality(T) =< Cardinality(UpTo(q, w))
      BY <3>3, <3>4, FS_Subset
    <3>6. hi =< Cardinality(UpTo(q, w))
      BY <2>5, <3>4, <3>5, <1>2
    <3>7. StandsAt(q, w, hi)
      BY <2>1, <3>1, <3>2, <3>6 DEF StandsAt
    <3> QED
      BY <1>1, <1>2, <3>7, RankIs
  <2>10. Median(q) = AtRank(q, lo) + AtRank(q, hi)
    BY <1>1, MedianIs DEF lo, hi
  <2> QED
    BY <1>3, <2>8, <2>9, <2>10 DEF q
<1> QED
  BY <1>1, <1>3, <1>5, <1>6

\* Where the median distance tells, a value that is no less, and rises, does
\* not tell an anomaly from another.
LEMMA FartherTellsNothing ==
  ASSUME NEW D, IsFiniteSet(D), NEW p \in Values(D), NEW b \in D, NEW c \in D, b # c, NEW y \in Int,
         p[b] =< p[c], p[c] < y, MedianDistance(p) > 0
  PROVE  Anomalous(p[b], [p EXCEPT ![c] = y]) <=> Anomalous(p[b], p)
<1> DEFINE q == [p EXCEPT ![c] = y]
           m == Median(p)
           d == Distances(p, m)
           e == Distances(q, m)
           a == 2 * p[b] - m
           n == Cardinality(D)
<1>1. /\ D # {} /\ DOMAIN p = D /\ DOMAIN q = D /\ p[b] \in Int /\ p[c] \in Int /\ q \in Values(D)
      /\ \A i \in D : p[i] \in Int /\ q[i] = IF i = c THEN y ELSE p[i]
  BY DEF Values
<1>2. m \in Int
  BY <1>1, MedianIs
<1>3. m =< Median(q) /\ Median(q) \in Int
  <2>1. \A i \in D : p[i] =< q[i]
    BY <1>1
  <2> HIDE DEF q
  <2> QED
    BY <1>1, <2>1, MediansFollow, MedianIs
<1>4. Anomalous(p[b], p) <=> n >= MinPeers /\ a > 0 /\ TooFar(a, Median(d), SquaredSpread(p), n)
  BY <1>1 DEF Anomalous, Excess, MedianDistance
<1>5. CASE a =< 0
  <2>1. 2 * p[b] - Median(q) =< 0
    BY <1>1, <1>2, <1>3, <1>5
  <2>2. ~Anomalous(p[b], q)
    BY <2>1, <1>1, <1>3 DEF Anomalous, Excess
  <2>3. ~Anomalous(p[b], p)
    BY <1>1, <1>2, <1>4, <1>5
  <2> QED
    BY <2>2, <2>3
<1>6. CASE a > 0
  <2>1. Median(q) = m
    <3>1. 2 * p[b] > Median(p)
      BY <1>1, <1>2, <1>6
    <3> QED
      BY <3>1, RaiseAboveKeepsMedian
  <2>2. Anomalous(p[b], q) <=> n >= MinPeers /\ a > 0 /\ TooFar(a, Median(e), SquaredSpread(q), n)
    BY <1>1, <2>1 DEF Anomalous, Excess, MedianDistance
  <2>3. Median(d) > 0
    BY DEF MedianDistance
  <2>4. /\ d \in Values(D) /\ (\A i \in D : d[i] >= 0 /\ d[i] \in Int)
        /\ d[c] = 2 * p[c] - m
    <3>1. d \in Values(D) /\ \A i \in D : d[i] >= 0 /\ d[i] = (IF 2 * p[i] < m THEN m - 2 * p[i] ELSE 2 * p[i] - m)
      BY <1>2, DistancesAre
    <3>2. ~(2 * p[c] < m)
      BY <1>1, <1>2, <1>6
    <3> HIDE DEF d
    <3> QED
      BY <3>1, <3>2 DEF Values
  <2>5. e = [d EXCEPT ![c] = 2 * y - m]
    <3>1. m =< 2 * y
      BY <1>1, <1>2, <1>6
    <3> QED
      BY <1>2, <3>1, DistancesAre
  <2>12. a =< d[c] /\ d[c] < 2 * y - m /\ 2 * y - m \in Int /\ a \in Int
    BY <1>1, <1>2, <2>4
  <2> HIDE DEF d, e, a, q, m, n
  <2>6. /\ e \in Values(D) /\ \A i \in D : d[i] =< e[i]
    BY <2>4, <2>5, <2>12 DEF Values
  <2>7. Median(d) =< Median(e) /\ Median(d) \in Int /\ Median(e) \in Int
    BY <1>1, <2>4, <2>6, MediansFollow, MedianIs
  <2>8. TooFar(a, Median(e), SquaredSpread(q), n) <=> 5000 * a > 14826 * Median(e)
    BY <2>3, <2>7 DEF TooFar
  <2>9. TooFar(a, Median(d), SquaredSpread(p), n) <=> 5000 * a > 14826 * Median(d)
    BY <2>3, <2>7 DEF TooFar
  <2>10. ASSUME 5000 * a > 14826 * Median(d) PROVE Median(e) = Median(d)
    <3>1. /\ AtRank(d, LowMiddle(D)) >= 0 /\ AtRank(d, HighMiddle(D)) >= 0
          /\ AtRank(d, LowMiddle(D)) \in Int /\ AtRank(d, HighMiddle(D)) \in Int
          /\ Median(d) = AtRank(d, LowMiddle(D)) + AtRank(d, HighMiddle(D))
      BY <1>1, <2>4, MedianIs, DistanceRanks
    <3>2. Median(d) < a
      BY <2>3, <2>7, <2>10, <2>12
    <3>3. AtRank(d, LowMiddle(D)) < d[c] /\ AtRank(d, HighMiddle(D)) < d[c]
      BY <2>4, <2>12, <3>1, <3>2
    <3>4. d[c] =< 2 * y - m
      BY <2>4, <2>12
    <3>5. Median([d EXCEPT ![c] = 2 * y - m]) = Median(d)
      BY <2>4, <2>12, <3>3, <3>4, RaiseKeepsMedian
    <3> QED
      BY <2>5, <3>5
  <2>11. 5000 * a > 14826 * Median(e) <=> 5000 * a > 14826 * Median(d)
    <3>1. ASSUME 5000 * a > 14826 * Median(d) PROVE 5000 * a > 14826 * Median(e)
      BY <2>10, <3>1
    <3>2. ASSUME 5000 * a > 14826 * Median(e) PROVE 5000 * a > 14826 * Median(d)
      BY <2>7, <2>12, <3>2
    <3> QED
      BY <3>1, <3>2
  <2> QED
    BY <1>4, <2>2, <2>8, <2>9, <2>11 DEF q
<1> QED
  BY <1>1, <1>2, <1>5, <1>6

LEMMA OutliersChangeNothing ==
  ASSUME NEW market \in Seq(RowType)
  PROVE  FartherOutlierChangesNothing(market)
<1> DEFINE all == DOMAIN market
<1> SUFFICES ASSUME NEW b \in all, NEW c \in all, NEW y \in HigherYields,
                    b # c, 0 < market[b].ytm, market[b].ytm <= market[c].ytm, market[c].ytm < y,
                    MedianDistance(Peers(market, all, market[b].currency)) > 0
             PROVE  b \in EligibleOf([market EXCEPT ![c].ytm = y], all, all) <=> b \in EligibleOf(market, all, all)
  BY DEF FartherOutlierChangesNothing
<1> DEFINE farther == [market EXCEPT ![c].ytm = y]
           cur == market[b].currency
           p == Peers(market, all, cur)
           q == Peers(farther, all, cur)
           D == PeersOf(market, all, cur)
<1>1. y \in Nat
  BY GateAssumption
<1>2. market[b].ytm \in Int /\ market[c].ytm \in Int /\ IsFiniteSet(D) /\ p \in Values(D)
  BY MarketRows
<1>3. /\ DOMAIN farther = all /\ farther[b] = market[b]
      /\ market[c].currency # cur => q = p
      /\ market[c].currency = cur => c \in D /\ q = [p EXCEPT ![c] = y]
  <2>1. market[c].ytm > 0
    BY <1>2
  <2> QED
    BY <1>1, <2>1, PeersOnlyRise
<1>4. /\ b \in EligibleOf(farther, all, all) <=> Eligible(market[b], q)
      /\ b \in EligibleOf(market, all, all) <=> Eligible(market[b], p)
  BY <1>3, GateOf
<1>5. CASE market[c].currency # cur
  BY <1>3, <1>4, <1>5
<1>6. CASE market[c].currency = cur
  <2>1. b \in D /\ c \in D /\ p[b] = market[b].ytm /\ p[c] = market[c].ytm
    BY <1>2, <1>3, <1>6 DEF Peers, PeersOf
  <2>2. p[b] =< p[c] /\ p[c] < y /\ MedianDistance(p) > 0 /\ y \in Int
    BY <1>1, <1>2, <2>1
  <2>3. q = [p EXCEPT ![c] = y] /\ DOMAIN p = D /\ DOMAIN q = D
    BY <1>2, <1>3, <1>6 DEF Values
  <2> HIDE DEF p, q, D
  <2>4. Anomalous(p[b], q) <=> Anomalous(p[b], p)
    BY <1>2, <2>1, <2>2, <2>3, FartherTellsNothing
  <2>5. Eligible(market[b], q) <=> Eligible(market[b], p)
    BY <2>1, <2>3, <2>4 DEF Eligible
  <2> QED
    BY <1>4, <2>5 DEF p, q
<1> QED
  BY <1>5, <1>6

-----------------------------------------------------------------------------
(* What a basket costs.                                                    *)

\* The sum of natural numbers is one, and no less than each of them.
LEMMA SumsAreNat ==
  ASSUME NEW D, IsFiniteSet(D), NEW v, D = DOMAIN v, \A x \in D : v[x] \in Nat
  PROVE  /\ \A T \in SUBSET D : Sums(v)[T] \in Nat
         /\ \A x \in D : v[x] =< Sums(v)[D]
<1>1. AddsUp(Sums(v), v, D)
  BY SumsAddUp
<1> DEFINE g == Sums(v)
<1> HIDE DEF g
<1>2. /\ g[{}] = 0 /\ \A T \in SUBSET D : g[T] \in Int
      /\ \A T \in SUBSET D : \A x \in T : g[T] = v[x] + g[T \ {x}]
  BY <1>1 DEF AddsUp, g
<1>3. ASSUME NEW T \in SUBSET D PROVE g[T] \in Nat
  <2> DEFINE G == {U \in SUBSET T : g[U] \in Nat}
  <2>1. IsFiniteSet(T) /\ {} \in G
    BY <1>2, FS_Subset
  <2>2. ASSUME NEW U \in SUBSET T, NEW x \in U, U \ {x} \in G PROVE U \in G
    <3>1. g[U] = v[x] + g[U \ {x}] /\ v[x] \in Nat /\ g[U \ {x}] \in Nat
      BY <1>2, <2>2
    <3> QED
      BY <3>1
  <2> HIDE DEF G
  <2>3. T \in G
    BY <2>1, <2>2, SubsetInduction
  <2> QED
    BY <2>3 DEF G
<1>4. ASSUME NEW x \in D PROVE v[x] =< g[D]
  <2>1. g[D] = v[x] + g[D \ {x}] /\ g[D \ {x}] \in Nat /\ v[x] \in Nat
    BY <1>2, <1>3
  <2> QED
    BY <2>1
<1> QED
  BY <1>3, <1>4 DEF g

\* A value that changes changes the sum by as much.
LEMMA SumsChange ==
  ASSUME NEW D, IsFiniteSet(D), NEW v \in Values(D), NEW w \in Values(D), NEW i \in D,
         \A x \in D \ {i} : v[x] = w[x]
  PROVE  /\ Sums(v)[D] \in Int /\ Sums(w)[D] \in Int
         /\ Sums(w)[D] = Sums(v)[D] + w[i] - v[i]
<1>1. DOMAIN v = D /\ DOMAIN w = D /\ \A x \in D : v[x] \in Int /\ w[x] \in Int
  BY DEF Values
<1>2. AddsUp(Sums(v), v, D) /\ AddsUp(Sums(w), w, D)
  BY <1>1, SumsAddUp
<1> DEFINE R == D \ {i}
<1>3. R \subseteq D /\ \A x \in R : v[x] = w[x]
  OBVIOUS
<1> HIDE DEF R
<1>4. Sums(v)[R] = Sums(w)[R] /\ Sums(v)[R] \in Int
  BY <1>1, <1>3, SumsAgree
<1>5. /\ Sums(v)[D] \in Int /\ Sums(w)[D] \in Int
      /\ Sums(v)[D] = v[i] + Sums(v)[R] /\ Sums(w)[D] = w[i] + Sums(w)[R]
  BY <1>2 DEF AddsUp, R
<1> QED
  BY <1>1, <1>4, <1>5

\* What is summed may be numbered in another way.
LEMMA SumsReindex ==
  ASSUME NEW I, IsFiniteSet(I), NEW v \in Values(I), NEW D, IsFiniteSet(D), NEW w \in Values(D),
         NEW T \in SUBSET I, NEW R \in SUBSET D, NEW h \in Bijection(T, R), \A i \in T : v[i] = w[h[i]]
  PROVE  Sums(v)[T] = Sums(w)[R]
<1>1. DOMAIN v = I /\ DOMAIN w = D /\ (\A x \in I : v[x] \in Int) /\ \A x \in D : w[x] \in Int
  BY DEF Values
<1>2. AddsUp(Sums(v), v, I) /\ AddsUp(Sums(w), w, D)
  BY <1>1, SumsAddUp
<1>7. h \in [T -> R] /\ (\A b \in R : \E i \in T : h[i] = b) /\ (\A i, j \in T : i # j => h[i] # h[j])
      /\ \A i \in T : h[i] \in D
  BY DEF Bijection, Injection, Surjection, IsInjective
<1> DEFINE Image(U) == {h[i] : i \in U}
           G == {U \in SUBSET T : Sums(v)[U] = Sums(w)[Image(U)]}
<1>3. {} \in G
  <2>1. Image({}) = {}
    OBVIOUS
  <2> HIDE DEF Image
  <2> QED
    BY <1>2, <2>1 DEF AddsUp
<1>4. ASSUME NEW U \in SUBSET T, NEW x \in U, U \ {x} \in G PROVE U \in G
  <2>1. Image(U) \in SUBSET D /\ h[x] \in Image(U) /\ Image(U) \ {h[x]} = Image(U \ {x})
    BY <1>7
  <2> HIDE DEF Image
  <2>2. Sums(w)[Image(U)] = w[h[x]] + Sums(w)[Image(U \ {x})]
    <3>1. Sums(w)[Image(U)] = w[h[x]] + Sums(w)[Image(U) \ {h[x]}]
      BY <1>2, <2>1 DEF AddsUp
    <3> QED
      BY <2>1, <3>1
  <2>3. Sums(v)[U] = v[x] + Sums(v)[U \ {x}]
    BY <1>2 DEF AddsUp
  <2>4. v[x] = w[h[x]] /\ Sums(v)[U \ {x}] = Sums(w)[Image(U \ {x})]
    BY <1>4
  <2> QED
    BY <2>2, <2>3, <2>4
<1> HIDE DEF G
<1>5. T \in G
  <2>1. IsFiniteSet(T)
    BY FS_Subset
  <2> QED
    BY <1>3, <1>4, <2>1, SubsetInduction
<1>6. R = Image(T)
  BY <1>7
<1> QED
  BY <1>5, <1>6 DEF G

\* An order for a basket: what there is to spend, weights and prices.
Order(o, n) ==
  /\ n \in Nat
  /\ o.capital \in Nat /\ o.weight \in [1 .. n -> Nat] /\ o.price \in [1 .. n -> Nat \ {0}]

LEMMA CostIs ==
  ASSUME NEW o, NEW n, Order(o, n), NEW lots \in [1 .. n -> Int]
  PROVE  /\ IsFiniteSet(1 .. n) /\ [i \in 1 .. n |-> lots[i] * o.price[i]] \in Values(1 .. n)
         /\ Cost(o, lots) = Sums([i \in 1 .. n |-> lots[i] * o.price[i]])[1 .. n]
         /\ Cost(o, lots) \in Int
<1> DEFINE f == [i \in 1 .. n |-> lots[i] * o.price[i]]
<1>1. DOMAIN lots = 1 .. n /\ \A i \in 1 .. n : lots[i] \in Int /\ o.price[i] \in Int
  BY DEF Order
<1>2. f \in Values(1 .. n) /\ DOMAIN f = 1 .. n /\ IsFiniteSet(1 .. n)
  <2>1. IsFiniteSet(1 .. n)
    <3>1. 1 \in Int /\ n \in Int
      BY DEF Order
    <3> QED
      BY <3>1, Segment
  <2>2. \A i \in 1 .. n : lots[i] * o.price[i] \in Int
    BY <1>1
  <2> QED
    BY <2>1, <2>2 DEF Values
<1>3. Cost(o, lots) = SumOf(f)
  BY <1>1 DEF Cost
<1> HIDE DEF f
<1>4. Cost(o, lots) = Sums(f)[1 .. n]
  BY <1>2, <1>3, SumOfIsSum
<1>5. Sums(f)[1 .. n] \in Int
  BY <1>2, SumsAddUp DEF AddsUp, Values
<1> QED
  BY <1>2, <1>4, <1>5 DEF f

\* More of one bond costs that much more.
LEMMA CostOfMore ==
  ASSUME NEW o, NEW n, Order(o, n), NEW lots \in [1 .. n -> Int], NEW i \in 1 .. n, NEW more \in Int
  PROVE  Cost(o, [lots EXCEPT ![i] = @ + more]) = Cost(o, lots) + more * o.price[i]
<1> DEFINE new == [lots EXCEPT ![i] = @ + more]
           f == [j \in 1 .. n |-> lots[j] * o.price[j]]
           g == [j \in 1 .. n |-> new[j] * o.price[j]]
<1>1. new \in [1 .. n -> Int] /\ (\A j \in 1 .. n \ {i} : new[j] = lots[j]) /\ new[i] = lots[i] + more
  OBVIOUS
<1> HIDE DEF new
<1>2. (\A j \in 1 .. n \ {i} : f[j] = g[j]) /\ g[i] = (lots[i] + more) * o.price[i] /\ f[i] = lots[i] * o.price[i]
  BY <1>1
<1>3. f \in Values(1 .. n) /\ g \in Values(1 .. n) /\ IsFiniteSet(1 .. n)
      /\ Cost(o, lots) = Sums(f)[1 .. n] /\ Cost(o, new) = Sums(g)[1 .. n]
  BY <1>1, CostIs
<1> HIDE DEF f, g
<1>4. Sums(f)[1 .. n] \in Int /\ Sums(g)[1 .. n] = Sums(f)[1 .. n] + g[i] - f[i]
  BY <1>2, <1>3, SumsChange
<1>5. lots[i] \in Int /\ o.price[i] \in Int
  BY DEF Order
<1>6. (lots[i] + more) * o.price[i] = lots[i] * o.price[i] + more * o.price[i]
      /\ lots[i] * o.price[i] \in Int /\ more * o.price[i] \in Int
  BY <1>5
<1> QED
  BY <1>2, <1>3, <1>4, <1>6 DEF new

\* The lots by weight cost no more than there is.
LEMMA FirstLots ==
  ASSUME NEW o, NEW n, Order(o, n)
  PROVE  /\ LotsByWeight(o) \in [1 .. n -> Nat]
         /\ \A i \in 1 .. n : o.weight[i] = 0 => LotsByWeight(o)[i] = 0
         /\ Cost(o, LotsByWeight(o)) \in Int /\ Cost(o, LotsByWeight(o)) =< o.capital
<1> DEFINE D == 1 .. n
           C == o.capital
           first == LotsByWeight(o)
           f == [i \in D |-> first[i] * o.price[i]]
           W == SumOf(o.weight)
<1>1. DOMAIN o.weight = D /\ C \in Nat /\ IsFiniteSet(D) /\ \A i \in D : o.weight[i] \in Nat /\ o.price[i] \in Nat \ {0}
  <2>1. IsFiniteSet(1 .. n)
    BY Segment DEF Order
  <2> QED
    BY <2>1 DEF Order
<1>2. W = Sums(o.weight)[D] /\ W \in Nat /\ \A i \in D : o.weight[i] =< W
  BY <1>1, SumOfIsSum, SumsAreNat
<1>3. DOMAIN first = D /\ \A i \in D : first[i] = IF o.weight[i] = 0 THEN 0 ELSE (C * o.weight[i]) \div (W * o.price[i])
  BY <1>1 DEF LotsByWeight, Candidates
<1> HIDE DEF D, W, first, C
<1>4. ASSUME NEW i \in D PROVE first[i] \in Nat /\ W * (first[i] * o.price[i]) =< C * o.weight[i]
  <2>1. CASE o.weight[i] = 0
    BY <2>1, <1>1, <1>2, <1>3
  <2>2. CASE o.weight[i] > 0
    <3> DEFINE x == C * o.weight[i]
               y == W * o.price[i]
    <3>1. x \in Nat
      BY <1>1
    <3>2. y \in Nat
      BY <1>1, <1>2
    <3>3. y > 0
      BY <1>1, <1>2, <2>2, TimesPositive
    <3>4. first[i] = x \div y
      BY <1>3, <2>2
    <3>5. W * (first[i] * o.price[i]) = y * first[i] \/ first[i] \notin Int
      BY <1>1, <1>2
    <3> HIDE DEF x, y
    <3>6. x \div y \in Nat /\ y * (x \div y) =< x
      BY <3>1, <3>2, <3>3
    <3> QED
      BY <3>4, <3>5, <3>6 DEF x
  <2> QED
    BY <2>1, <2>2, <1>1
<1>5. first \in [D -> Nat] /\ first = LotsByWeight(o)
  <2>1. first = [i \in D |-> first[i]]
    BY <1>1 DEF first, LotsByWeight
  <2> QED
    BY <1>4, <2>1 DEF first
<1>6. f \in Values(D) /\ DOMAIN f = D /\ (\A i \in D : f[i] = first[i] * o.price[i]) /\ Cost(o, first) = Sums(f)[D] /\ Cost(o, first) \in Int
  <2>1. first \in [D -> Int]
    BY <1>5
  <2> QED
    BY <2>1, CostIs DEF D
<1> HIDE DEF f
<1>7. AddsUp(Sums(f), f, D) /\ AddsUp(Sums(o.weight), o.weight, D)
  BY <1>1, <1>6, SumsAddUp DEF Values
<1> DEFINE G == {T \in SUBSET D : W * Sums(f)[T] =< C * Sums(o.weight)[T]}
<1>8. {} \in G
  BY <1>1, <1>2, <1>7 DEF AddsUp
<1>9. ASSUME NEW T \in SUBSET D, NEW i \in T, T \ {i} \in G PROVE T \in G
  <2> DEFINE s == Sums(f)[T \ {i}]
             t == Sums(o.weight)[T \ {i}]
  <2>1. /\ Sums(f)[T] = f[i] + s /\ Sums(o.weight)[T] = o.weight[i] + t
        /\ s \in Int /\ t \in Int /\ W * s =< C * t
    BY <1>7, <1>9 DEF AddsUp
  <2>2. f[i] \in Int /\ o.weight[i] \in Int /\ W * f[i] =< C * o.weight[i]
    BY <1>1, <1>4, <1>6 DEF Values
  <2> HIDE DEF s, t
  <2>3. W * (f[i] + s) = W * f[i] + W * s /\ C * (o.weight[i] + t) = C * o.weight[i] + C * t
    BY <1>1, <1>2, <2>1, <2>2
  <2>4. W * f[i] \in Int /\ W * s \in Int /\ C * o.weight[i] \in Int /\ C * t \in Int
    BY <1>1, <1>2, <2>1, <2>2
  <2> QED
    BY <2>1, <2>2, <2>3, <2>4
<1> HIDE DEF G
<1>10. D \in G
  BY <1>1, <1>8, <1>9, SubsetInduction
<1>11. W * Cost(o, first) =< W * C
  <2>1. W * Sums(f)[D] =< C * W
    BY <1>2, <1>10 DEF G
  <2> QED
    BY <1>1, <1>2, <1>6, <2>1
<1>12. CASE W > 0
  <2>1. Cost(o, first) =< C
    BY <1>1, <1>2, <1>6, <1>11, <1>12, TimesPositive
  <2> QED
    BY <1>3, <1>5, <1>6, <2>1 DEF D, C, first
<1>13. CASE W = 0
  <2>1. \A i \in D : o.weight[i] = 0
    BY <1>1, <1>2, <1>13
  <2>2. \A i \in D : f[i] = 0
    BY <1>1, <1>3, <1>6, <2>1
  <2>3. Sums(f)[{}] = Sums(f)[D]
    <3>1. {} \in SUBSET D /\ (\A i \in D \ {} : f[i] = 0) /\ \A i \in D : f[i] \in Int
      BY <2>2
    <3> QED
      BY <1>1, <1>6, <3>1, ZeroesDoNotCount
  <2>4. Cost(o, first) = 0
    BY <1>6, <1>7, <2>3 DEF AddsUp
  <2> QED
    BY <1>1, <1>3, <1>5, <1>6, <2>4 DEF D, C, first
<1> QED
  BY <1>2, <1>12, <1>13

\* The heaviest first: each bond with a weight has its place in the order.
LEMMA ByWeightOrders ==
  ASSUME NEW o, NEW n, Order(o, n)
  PROVE  /\ Len(ByWeight(o)) \in Nat /\ ByWeight(o) \in [1 .. Len(ByWeight(o)) -> Candidates(o)]
         /\ \A i \in Candidates(o) : \E k \in 1 .. Len(ByWeight(o)) : ByWeight(o)[k] = i
         /\ \A j, k \in 1 .. Len(ByWeight(o)) : j < k => ByWeight(o)[j] # ByWeight(o)[k]
         /\ Candidates(o) = {i \in 1 .. n : o.weight[i] > 0}
<1> DEFINE S == Candidates(o)
           ahead == [i \in S |-> {j \in S : \/ o.weight[j] > o.weight[i]
                                            \/ o.weight[j] = o.weight[i] /\ j < i}]
           s == ByWeight(o)
<1>1. S = {i \in 1 .. n : o.weight[i] > 0} /\ \A i \in S : i \in Int /\ o.weight[i] \in Int
  BY DEF Candidates, Order
<1>2. IsFiniteSet(S)
  <2>1. 1 \in Int /\ n \in Int
    BY DEF Order
  <2>2. IsFiniteSet(1 .. n)
    BY <2>1, Segment
  <2> QED
    BY <1>1, <2>2, FS_Subset
<1>3. s = InOrder(ahead)
  BY DEF ByWeight
<1> HIDE DEF S, s
<1>4. IsOrder(ahead, S)
  <2>1. ahead \in [S -> SUBSET S]
    OBVIOUS
  <2>2. \A x \in S : x \notin ahead[x]
    BY <1>1
  <2>3. \A x, y \in S : x # y => x \in ahead[y] \/ y \in ahead[x]
    BY <1>1
  <2>4. \A x, y \in S : y \in ahead[x] => ahead[y] \subseteq ahead[x]
    BY <1>1
  <2> HIDE DEF ahead
  <2> QED
    BY <2>1, <2>2, <2>3, <2>4 DEF IsOrder
<1> HIDE DEF ahead
<1>5. Orders(s, ahead, S)
  BY <1>2, <1>3, <1>4, InOrderOrders
<1>6. /\ Cardinality(S) \in Nat /\ s \in [1 .. Cardinality(S) -> S] /\ \A x \in S : \E k \in 1 .. Cardinality(S) : s[k] = x
      /\ \A j, k \in 1 .. Cardinality(S) : j < k => s[j] # s[k]
  BY <1>2, <1>5, FS_CardinalityType DEF Orders
<1>7. Len(s) = Cardinality(S)
  BY <1>6
<1> QED
  BY <1>1, <1>6, <1>7 DEF S, s

\* The purchase, bond after bond, is one recursive function.
OneMore(o, first, order, f, k) ==
  IF k = 0 THEN [left |-> o.capital - Cost(o, first), lots |-> first]
  ELSE Buy(o, f[k - 1], order[k],
           IF SumOf(first) = 0 THEN Least(1, f[k - 1].left \div o.price[order[k]])
           ELSE f[k - 1].left \div o.price[order[k]])

LEMMA PurchaseExists ==
  ASSUME NEW o, NEW first, NEW order, NEW K \in Nat
  PROVE  \E f : f = [k \in 0 .. K |-> OneMore(o, first, order, f, k)]
<1> DEFINE Good == {n \in Nat : \E f : f = [k \in 0 .. n |-> OneMore(o, first, order, f, k)]}
<1>1. 0 \in Good
  <2> DEFINE f == [k \in 0 .. 0 |-> OneMore(o, first, order, << >>, k)]
  <2>1. f = [k \in 0 .. 0 |-> OneMore(o, first, order, f, k)]
    BY DEF OneMore
  <2> HIDE DEF f
  <2> QED
    BY <2>1
<1>2. ASSUME NEW n \in Good PROVE n + 1 \in Good
  <2>1. n \in Nat
    OBVIOUS
  <2>2. PICK f : f = [k \in 0 .. n |-> OneMore(o, first, order, f, k)]
    OBVIOUS
  <2> DEFINE g == [k \in 0 .. (n + 1) |-> OneMore(o, first, order, f, k)]
  <2>3. \A k \in 0 .. n : k \in 0 .. (n + 1) /\ g[k] = f[k]
    BY <2>1, <2>2
  <2>4. ASSUME NEW k \in 0 .. (n + 1) PROVE OneMore(o, first, order, f, k) = OneMore(o, first, order, g, k)
    <3>1. CASE k = 0
      BY <3>1 DEF OneMore
    <3>2. CASE k # 0
      <4>1. k - 1 \in 0 .. n
        BY <2>1, <3>2
      <4>2. g[k - 1] = f[k - 1]
        BY <2>3, <4>1
      <4> HIDE DEF g
      <4> QED
        BY <3>2, <4>2 DEF OneMore
    <3> QED
      BY <3>1, <3>2
  <2>5. g = [k \in 0 .. (n + 1) |-> OneMore(o, first, order, g, k)]
    <3> DEFINE h == g
    <3>1. g = [k \in 0 .. (n + 1) |-> OneMore(o, first, order, f, k)]
      OBVIOUS
    <3> HIDE DEF g
    <3> QED
      BY <3>1, <2>4
  <2> HIDE DEF g
  <2> QED
    BY <2>1, <2>5
<1> HIDE DEF Good
<1>3. K \in Good
  BY <1>1, <1>2, NatSetInduction DEF Good
<1> QED
  BY <1>3 DEF Good

\* The state of the purchase after k bonds.
Purchase(o) ==
  CHOOSE f : f = [k \in 0 .. Len(ByWeight(o)) |-> OneMore(o, LotsByWeight(o), ByWeight(o), f, k)]

LEMMA PurchaseIs ==
  ASSUME NEW o, Len(ByWeight(o)) \in Nat
  PROVE  /\ Purchase(o) = [k \in 0 .. Len(ByWeight(o)) |-> OneMore(o, LotsByWeight(o), ByWeight(o), Purchase(o), k)]
         /\ BuyMore(o) = Purchase(o)[Len(ByWeight(o))]
<1>1. \E f : f = [k \in 0 .. Len(ByWeight(o)) |-> OneMore(o, LotsByWeight(o), ByWeight(o), f, k)]
  BY PurchaseExists
<1>2. Purchase(o) = [k \in 0 .. Len(ByWeight(o)) |-> OneMore(o, LotsByWeight(o), ByWeight(o), Purchase(o), k)]
  BY <1>1, Zenon DEF Purchase
<1>3. BuyMore(o) = Purchase(o)[Len(ByWeight(o))]
  BY Zenon DEF BuyMore, Purchase, OneMore
<1> QED
  BY <1>2, <1>3

\* What a purchase must be: it spends what there is, and a bond with a weight
\* is bought or costs more than what is left.
Bargain(o, n, acc) ==
  /\ acc.lots \in [1 .. n -> Nat] /\ acc.left \in Nat
  /\ Cost(o, acc.lots) + acc.left = o.capital
  /\ \A i \in 1 .. n : o.weight[i] = 0 => acc.lots[i] = 0

BoughtOrDear(o, acc, i) == acc.lots[i] > 0 \/ o.price[i] > acc.left

\* One bond more.
LEMMA BuyOne ==
  ASSUME NEW o, NEW n, Order(o, n), NEW acc, Bargain(o, n, acc), NEW i \in 1 .. n, o.weight[i] > 0,
         NEW most, most = acc.left \div o.price[i], NEW more, more = most \/ more = Least(1, most)
  PROVE  LET new == Buy(o, acc, i, more) IN
         /\ Bargain(o, n, new) /\ BoughtOrDear(o, new, i)
         /\ \A j \in 1 .. n : BoughtOrDear(o, acc, j) => BoughtOrDear(o, new, j)
<1> DEFINE lots == [acc.lots EXCEPT ![i] = @ + more]
           left == acc.left - more * o.price[i]
           p == o.price[i]
<1>1. /\ acc.lots \in [1 .. n -> Nat] /\ acc.left \in Nat /\ o.capital \in Nat
      /\ Cost(o, acc.lots) + acc.left = o.capital
      /\ \A j \in 1 .. n : o.weight[j] = 0 => acc.lots[j] = 0
      /\ p \in Nat \ {0} /\ \A j \in 1 .. n : o.price[j] \in Nat \ {0}
  BY DEF Bargain, Order
<1>14. \A j \in 1 .. n : acc.lots[j] \in Nat
  BY <1>1
<1>15. left = acc.left - more * p
  OBVIOUS
<1> HIDE DEF left
<1>2. most \in Nat /\ p * most =< acc.left /\ (acc.left >= p => most >= 1)
  <2> DEFINE x == acc.left
  <2>1. x \in Nat /\ p \in Nat /\ p > 0
    BY <1>1
  <2> HIDE DEF x, p
  <2>2. x \div p \in Nat /\ p * (x \div p) =< x /\ (x >= p => x \div p >= 1)
    BY <2>1
  <2> QED
    BY <2>2 DEF x, p
<1>3. more \in Nat /\ more =< most /\ (most >= 1 => more >= 1)
  BY <1>2 DEF Least
<1>4. p * more =< p * most /\ p * more \in Nat /\ p * most \in Nat /\ p * more = more * p
  <2>1. p \in Nat /\ p > 0
    BY <1>1
  <2> HIDE DEF p
  <2> QED
    BY <1>2, <1>3, <2>1, TimesPositive
<1>5. left \in Nat /\ left =< acc.left
  <2> HIDE DEF p
  <2> QED
    BY <1>1, <1>2, <1>4, <1>15
<1>6. lots \in [1 .. n -> Nat] /\ lots[i] = acc.lots[i] + more /\ \A j \in 1 .. n \ {i} : lots[j] = acc.lots[j]
  <2> DEFINE old == acc.lots
  <2>1. old \in [1 .. n -> Nat] /\ old[i] + more \in Nat /\ lots = [old EXCEPT ![i] = @ + more]
    BY <1>1, <1>3, <1>14
  <2> HIDE DEF old, lots
  <2> QED
    BY <2>1 DEF old
<1>7. Cost(o, lots) = Cost(o, acc.lots) + more * p /\ Cost(o, acc.lots) \in Int
  <2>1. acc.lots \in [1 .. n -> Int] /\ more \in Int
    BY <1>1, <1>3
  <2>2. Cost(o, [acc.lots EXCEPT ![i] = @ + more]) = Cost(o, acc.lots) + more * o.price[i]
    BY <2>1, CostOfMore
  <2>3. Cost(o, acc.lots) \in Int
    BY <2>1, CostIs
  <2> QED
    BY <2>2, <2>3
<1>8. Buy(o, acc, i, more) = [left |-> left, lots |-> lots]
  BY DEF Buy, left
<1> DEFINE new == [left |-> left, lots |-> lots]
<1>9. new.left = left /\ new.lots = lots
  OBVIOUS
<1> HIDE DEF lots, p, new
<1>10. Cost(o, lots) + left = o.capital
  <2>1. left = acc.left - more * p /\ more * p \in Nat
    BY <1>4 DEF left, p
  <2> QED
    BY <1>1, <1>7, <2>1
<1>11. Bargain(o, n, new)
  BY <1>1, <1>5, <1>6, <1>9, <1>10 DEF Bargain
<1>12. BoughtOrDear(o, new, i)
  <2>1. CASE acc.left >= p
    <3>1. lots[i] > 0
      BY <1>2, <1>3, <1>6, <1>14, <2>1
    <3> QED
      BY <1>9, <3>1 DEF BoughtOrDear
  <2>2. CASE acc.left < p
    <3>1. p > left
      BY <1>1, <1>5, <2>2
    <3> QED
      BY <1>9, <3>1 DEF BoughtOrDear, p
  <2> QED
    BY <1>1, <2>1, <2>2
<1>13. ASSUME NEW j \in 1 .. n, BoughtOrDear(o, acc, j) PROVE BoughtOrDear(o, new, j)
  <2>1. CASE acc.lots[j] > 0
    <3>1. lots[j] > 0
      BY <1>3, <1>6, <1>14, <2>1
    <3> QED
      BY <1>9, <3>1 DEF BoughtOrDear
  <2>2. CASE o.price[j] > acc.left
    <3>1. o.price[j] > left
      BY <1>1, <1>5, <2>2
    <3> QED
      BY <1>9, <3>1 DEF BoughtOrDear
  <2> QED
    BY <1>13, <2>1, <2>2 DEF BoughtOrDear
<1> QED
  BY <1>8, <1>11, <1>12, <1>13 DEF new

\* The purchase is a bargain.
LEMMA BuyMoreIsBargain ==
  ASSUME NEW o, NEW n, Order(o, n)
  PROVE  /\ Bargain(o, n, BuyMore(o))
         /\ \A i \in 1 .. n : o.weight[i] > 0 => BoughtOrDear(o, BuyMore(o), i)
<1> DEFINE order == ByWeight(o)
           K == Len(order)
           first == LotsByWeight(o)
           f == Purchase(o)
           P(k) == /\ Bargain(o, n, f[k])
                   /\ \A j \in 1 .. k : BoughtOrDear(o, f[k], order[j])
           Good == {k \in Nat : k =< K => P(k)}
<1>1. /\ K \in Nat /\ order \in [1 .. K -> Candidates(o)]
      /\ \A i \in Candidates(o) : \E k \in 1 .. K : order[k] = i
      /\ Candidates(o) = {i \in 1 .. n : o.weight[i] > 0}
  BY ByWeightOrders
<1>2. (\A k \in 0 .. K : f[k] = OneMore(o, first, order, f, k)) /\ BuyMore(o) = f[K]
  <2>1. f = [k \in 0 .. K |-> OneMore(o, first, order, f, k)] /\ BuyMore(o) = f[K]
    BY <1>1, PurchaseIs
  <2> HIDE DEF f, order, K, first
  <2> QED
    BY <2>1
<1> HIDE DEF f
<1>3. 0 \in Good
  <2>1. f[0] = [left |-> o.capital - Cost(o, first), lots |-> first]
    <3>1. 0 \in 0 .. K
      BY <1>1
    <3> QED
      BY <1>2, <3>1 DEF OneMore
  <2>2. /\ first \in [1 .. n -> Nat] /\ \A i \in 1 .. n : o.weight[i] = 0 => first[i] = 0
    BY FirstLots
  <2>3. Cost(o, first) \in Int /\ Cost(o, first) =< o.capital /\ o.capital \in Nat
    BY FirstLots DEF Order
  <2> HIDE DEF first
  <2>4. o.capital - Cost(o, first) \in Nat /\ Cost(o, first) + (o.capital - Cost(o, first)) = o.capital
    BY <2>3
  <2>5. Bargain(o, n, f[0])
    BY <2>1, <2>2, <2>4 DEF Bargain
  <2> QED
    BY <2>5
<1>4. ASSUME NEW k \in Good PROVE k + 1 \in Good
  <2> SUFFICES ASSUME k + 1 =< K PROVE P(k + 1)
    OBVIOUS
  <2>1. k \in Nat /\ k \in 0 .. K /\ k + 1 \in 0 .. K /\ k + 1 \in 1 .. K
    BY <1>1
  <2>2. P(k)
    BY <2>1
  <2> DEFINE i == order[k + 1]
             acc == f[k]
             most == acc.left \div o.price[i]
             more == IF SumOf(first) = 0 THEN Least(1, most) ELSE most
  <2>3. i \in 1 .. n /\ o.weight[i] > 0
    BY <1>1, <2>1
  <2>4. f[k + 1] = Buy(o, acc, i, more)
    <3>1. f[k + 1] = OneMore(o, first, order, f, k + 1)
      BY <1>2, <2>1
    <3>2. (k + 1) - 1 = k /\ k + 1 # 0
      BY <2>1
    <3> QED
      BY <3>1, <3>2 DEF OneMore
  <2>5. more = most \/ more = Least(1, most)
    OBVIOUS
  <2>6. Bargain(o, n, acc)
    BY <2>2
  <2>7. most = acc.left \div o.price[i]
    OBVIOUS
  <2> HIDE DEF more, most, acc, i
  <2>8. /\ Bargain(o, n, Buy(o, acc, i, more)) /\ BoughtOrDear(o, Buy(o, acc, i, more), i)
        /\ \A j \in 1 .. n : BoughtOrDear(o, acc, j) => BoughtOrDear(o, Buy(o, acc, i, more), j)
    BY <2>3, <2>5, <2>6, <2>7, BuyOne
  <2>9. ASSUME NEW j \in 1 .. (k + 1) PROVE BoughtOrDear(o, f[k + 1], order[j])
    <3>1. CASE j = k + 1
      BY <2>4, <2>8, <3>1 DEF i
    <3>2. CASE j # k + 1
      <4>1. j \in 1 .. k /\ j \in 1 .. K
        BY <2>1, <3>2
      <4>2. order[j] \in 1 .. n
        BY <1>1, <4>1
      <4> QED
        BY <2>2, <2>4, <2>8, <4>1, <4>2 DEF acc
    <3> QED
      BY <3>1, <3>2
  <2> QED
    BY <2>4, <2>8, <2>9
<1> HIDE DEF P
<1>5. Good = Nat
  <2> HIDE DEF Good
  <2>1. Good \in SUBSET Nat
    BY DEF Good
  <2> QED
    BY <1>3, <1>4, <2>1, NatSetInduction
<1>6. P(K)
  BY <1>1, <1>5
<1>7. ASSUME NEW i \in 1 .. n, o.weight[i] > 0 PROVE BoughtOrDear(o, BuyMore(o), i)
  <2>1. PICK k \in 1 .. K : order[k] = i
    BY <1>1, <1>7
  <2> QED
    BY <1>2, <1>6, <2>1 DEF P
<1> QED
  BY <1>2, <1>6, <1>7 DEF P

-----------------------------------------------------------------------------
(* Lists of bonds.                                                         *)

\* The first few of a list.
LEMMA FirstFewIs ==
  ASSUME NEW n \in Nat, NEW s, DOMAIN s = 1 .. n, NEW top \in Nat
  PROVE  /\ Least(top, n) \in Nat /\ Least(top, n) =< n /\ Least(top, n) =< top
         /\ FirstFew(top, s) = [i \in 1 .. Least(top, n) |-> s[i]]
         /\ Len(FirstFew(top, s)) = Least(top, n)
<1> DEFINE m == Least(top, n)
<1>1. Len(s) = n /\ DOMAIN s = 1 .. n
  OBVIOUS
<1>2. m \in Nat /\ m =< n /\ m =< top /\ Least(top, Len(s)) = m
  BY <1>1 DEF Least
<1>3. FirstFew(top, s) = SubSeq(s, 1, m)
  BY <1>2 DEF FirstFew
<1> HIDE DEF m
<1>4. SubSeq(s, 1, m) = [i \in 1 .. m |-> s[i]]
  BY <1>1, <1>2
<1>5. Len(FirstFew(top, s)) = m
  BY <1>2, <1>3, <1>4
<1> QED
  BY <1>2, <1>3, <1>4, <1>5 DEF m

\* The list s has the bonds, the best first.
BestFirst(s, market, bonds, merit) ==
  LET n == Cardinality(bonds)
  IN /\ n \in Nat /\ s \in [1 .. n -> bonds] /\ Len(s) = n
     /\ \A b \in bonds : \E k \in 1 .. n : s[k] = b
     /\ \A k \in 1 .. n : Cardinality({c \in bonds : Before(market, merit, c, s[k])}) = k - 1
     /\ \A j, k \in 1 .. n : j < k => s[j] # s[k] /\ Before(market, merit, s[j], s[k])

LEMMA RankedIs ==
  ASSUME NEW market, NEW bonds, IsFiniteSet(bonds), bonds \subseteq Nat, NEW merit,
         \A b \in bonds : market[b][merit] \in Int
  PROVE  BestFirst(Ranked(market, bonds, merit), market, bonds, merit)
<1> DEFINE s == Ranked(market, bonds, merit)
           n == Cardinality(bonds)
           ahead == [b \in bonds |-> {c \in bonds : Before(market, merit, c, b)}]
<1>1. \A b \in bonds : b \in Int /\ market[b][merit] \in Int
  OBVIOUS
<1>2. s = InOrder(ahead)
  BY DEF Ranked
<1>3. IsOrder(ahead, bonds)
  <2>1. ahead \in [bonds -> SUBSET bonds]
    OBVIOUS
  <2>2. \A x \in bonds : x \notin ahead[x]
    BY <1>1 DEF Before
  <2>3. \A x, y \in bonds : x # y => x \in ahead[y] \/ y \in ahead[x]
    BY <1>1 DEF Before
  <2>4. \A x, y \in bonds : y \in ahead[x] => ahead[y] \subseteq ahead[x]
    <3> SUFFICES ASSUME NEW x \in bonds, NEW y \in bonds, y \in ahead[x], NEW z \in ahead[y] PROVE z \in ahead[x]
      OBVIOUS
    <3>1. z \in bonds /\ Before(market, merit, y, x) /\ Before(market, merit, z, y)
      OBVIOUS
    <3>2. Before(market, merit, z, x)
      BY <1>1, <3>1 DEF Before
    <3> QED
      BY <3>1, <3>2
  <2> HIDE DEF ahead
  <2> QED
    BY <2>1, <2>2, <2>3, <2>4 DEF IsOrder
<1>4. \A b \in bonds : ahead[b] = {c \in bonds : Before(market, merit, c, b)}
  OBVIOUS
<1> HIDE DEF ahead
<1>5. Orders(s, ahead, bonds) /\ n \in Nat
  BY <1>2, <1>3, InOrderOrders, FS_CardinalityType
<1> HIDE DEF s, n
<1>6. /\ s \in [1 .. n -> bonds]
      /\ \A b \in bonds : \E k \in 1 .. n : s[k] = b
      /\ \A k \in 1 .. n : Cardinality(ahead[s[k]]) = k - 1
      /\ \A j, k \in 1 .. n : j < k => s[j] \in ahead[s[k]] /\ s[k] \notin ahead[s[j]] /\ s[j] # s[k]
  BY <1>5 DEF Orders, n
<1>7. Len(s) = n
  BY <1>5, <1>6
<1>8. \A k \in 1 .. n : Cardinality({c \in bonds : Before(market, merit, c, s[k])}) = k - 1
  <2> SUFFICES ASSUME NEW k \in 1 .. n PROVE Cardinality({c \in bonds : Before(market, merit, c, s[k])}) = k - 1
    OBVIOUS
  <2>1. s[k] \in bonds
    BY <1>6
  <2>2. ahead[s[k]] = {c \in bonds : Before(market, merit, c, s[k])}
    BY <1>4, <2>1
  <2> QED
    BY <1>6, <2>2
<1>9. \A j, k \in 1 .. n : j < k => s[j] # s[k] /\ Before(market, merit, s[j], s[k])
  <2> SUFFICES ASSUME NEW j \in 1 .. n, NEW k \in 1 .. n, j < k
               PROVE  s[j] # s[k] /\ Before(market, merit, s[j], s[k])
    OBVIOUS
  <2>1. s[k] \in bonds /\ s[j] \in ahead[s[k]] /\ s[j] # s[k]
    BY <1>6
  <2> QED
    BY <1>4, <2>1
<1> QED
  BY <1>5, <1>6, <1>7, <1>8, <1>9 DEF s, n, BestFirst

\* As the request lists them.
LEMMA AsListedIs ==
  ASSUME NEW bonds, IsFiniteSet(bonds), bonds \subseteq Nat
  PROVE  LET s == AsListed(bonds)
             n == Cardinality(bonds)
         IN /\ n \in Nat /\ s \in [1 .. n -> bonds] /\ Len(s) = n
            /\ \A b \in bonds : \E k \in 1 .. n : s[k] = b
            /\ \A j, k \in 1 .. n : j # k => s[j] # s[k]
<1> DEFINE s == AsListed(bonds)
           n == Cardinality(bonds)
           ahead == [b \in bonds |-> {c \in bonds : c < b}]
<1>1. \A b \in bonds : b \in Int
  OBVIOUS
<1>2. s = InOrder(ahead)
  BY DEF AsListed
<1>3. IsOrder(ahead, bonds)
  <2>1. ahead \in [bonds -> SUBSET bonds]
    OBVIOUS
  <2>2. \A x \in bonds : x \notin ahead[x]
    BY <1>1
  <2>3. \A x, y \in bonds : x # y => x \in ahead[y] \/ y \in ahead[x]
    BY <1>1
  <2>4. \A x, y \in bonds : y \in ahead[x] => ahead[y] \subseteq ahead[x]
    <3> SUFFICES ASSUME NEW x \in bonds, NEW y \in bonds, y \in ahead[x], NEW z \in ahead[y] PROVE z \in ahead[x]
      OBVIOUS
    <3>1. z \in bonds /\ y < x /\ z < y
      OBVIOUS
    <3>2. z < x
      BY <1>1, <3>1
    <3> QED
      BY <3>1, <3>2
  <2> HIDE DEF ahead
  <2> QED
    BY <2>1, <2>2, <2>3, <2>4 DEF IsOrder
<1> HIDE DEF ahead
<1>5. Orders(s, ahead, bonds) /\ n \in Nat
  BY <1>2, <1>3, InOrderOrders, FS_CardinalityType
<1> HIDE DEF s, n
<1>6. /\ s \in [1 .. n -> bonds]
      /\ \A b \in bonds : \E k \in 1 .. n : s[k] = b
      /\ \A j, k \in 1 .. n : j < k => s[j] # s[k]
  BY <1>5 DEF Orders, n
<1>7. \A j, k \in 1 .. n : j # k => s[j] # s[k]
  <2> SUFFICES ASSUME NEW j \in 1 .. n, NEW k \in 1 .. n, j # k PROVE s[j] # s[k]
    OBVIOUS
  <2>1. j < k \/ k < j
    BY <1>5
  <2> QED
    BY <1>6, <2>1
<1>8. Len(s) = n
  BY <1>5, <1>6
<1> QED
  BY <1>5, <1>6, <1>7, <1>8 DEF s, n

\* The first few of a ranking: a bond beyond them stands behind them all.
FewBest(t, market, bonds, merit, top) ==
  /\ \E m \in Nat : /\ m =< top /\ t \in [1 .. m -> bonds] /\ Len(t) = m
                    /\ \A j, k \in 1 .. m : j < k => t[j] # t[k] /\ Before(market, merit, t[j], t[k])
  /\ IsFiniteSet(Range(t)) /\ Range(t) \subseteq bonds
  /\ \A b \in bonds \ Range(t) :
       /\ Cardinality(Range(t)) = top
       /\ \A c \in Range(t) : c # b /\ Before(market, merit, c, b)

LEMMA FirstAreBest ==
  ASSUME NEW market, NEW bonds, IsFiniteSet(bonds), bonds \subseteq Nat, NEW merit,
         \A b \in bonds : market[b][merit] \in Int, NEW top \in Nat
  PROVE  FewBest(FirstFew(top, Ranked(market, bonds, merit)), market, bonds, merit, top)
<1> DEFINE s == Ranked(market, bonds, merit)
           t == FirstFew(top, s)
<1>0. s = Ranked(market, bonds, merit) /\ t = FirstFew(top, s)
  OBVIOUS
<1> HIDE DEF s, t
<1> SUFFICES FewBest(t, market, bonds, merit, top)
  BY <1>0
<1> DEFINE n == Cardinality(bonds)
           m == Least(top, n)
<1>1. /\ n \in Nat /\ s \in [1 .. n -> bonds]
      /\ \A b \in bonds : \E k \in 1 .. n : s[k] = b
      /\ \A j, k \in 1 .. n : j < k => s[j] # s[k] /\ Before(market, merit, s[j], s[k])
  <2>1. BestFirst(s, market, bonds, merit)
    BY <1>0, RankedIs
  <2> HIDE DEF n
  <2> QED
    BY <2>1 DEF BestFirst, n
<1> HIDE DEF n
<1>2. /\ m \in Nat /\ m =< n /\ m =< top
      /\ t \in [1 .. m -> bonds] /\ Len(t) = m
      /\ \A i \in 1 .. m : t[i] = s[i]
  <2>1. n \in Nat /\ DOMAIN s = 1 .. n
    BY <1>1
  <2> HIDE DEF m
  <2>2. m = Least(top, n)
    BY DEF m
  <2>3. m \in Nat /\ m =< n /\ m =< top /\ t = [i \in 1 .. m |-> s[i]] /\ Len(t) = m
    <3>1. /\ Least(top, n) \in Nat /\ Least(top, n) =< n /\ Least(top, n) =< top
          /\ t = [i \in 1 .. Least(top, n) |-> s[i]]
          /\ Len(t) = Least(top, n)
      <4>1. t = FirstFew(top, s)
        BY <1>0
      <4>2. /\ Least(top, n) \in Nat /\ Least(top, n) =< n /\ Least(top, n) =< top
            /\ FirstFew(top, s) = [i \in 1 .. Least(top, n) |-> s[i]]
            /\ Len(FirstFew(top, s)) = Least(top, n)
        BY <2>1, FirstFewIs
      <4> QED
        BY <4>1, <4>2
    <3> QED
      BY <2>2, <3>1
  <2>4. \A i \in 1 .. m : i \in 1 .. n
    BY <2>1, <2>3
  <2>5. \A i \in 1 .. m : s[i] \in bonds
    BY <1>1, <2>4
  <2> QED
    BY <2>3, <2>5
<1> HIDE DEF m
<1>3. \A j, k \in 1 .. m : j < k => t[j] # t[k] /\ Before(market, merit, t[j], t[k])
  BY <1>1, <1>2
<1>4. Range(t) = {t[i] : i \in 1 .. m} /\ DOMAIN t = 1 .. m /\ Range(t) \subseteq bonds
  BY <1>2 DEF Range
<1>5. IsFiniteSet(Range(t))
  BY <1>4, FS_Subset
<1>6. ASSUME NEW b \in bonds, b \notin Range(t)
      PROVE  /\ Cardinality(Range(t)) = top
             /\ \A c \in Range(t) : c # b /\ Before(market, merit, c, b)
  <2>1. PICK k \in 1 .. n : s[k] = b
    BY <1>1
  <2>2. k > m
    BY <1>1, <1>2, <1>4, <1>6, <2>1
  <2>3. m = top
    BY <1>1, <1>2, <2>2 DEF m, Least
  <2>4. ASSUME NEW c \in Range(t) PROVE c # b /\ Before(market, merit, c, b)
    <3>1. PICK i \in 1 .. m : t[i] = c
      BY <1>4
    <3>2. i \in 1 .. n /\ i < k /\ s[i] = c
      BY <1>1, <1>2, <2>2, <3>1
    <3> QED
      BY <1>1, <2>1, <3>2
  <2>5. Cardinality(Range(t)) = m
    <3>1. t \in Bijection(1 .. m, Range(t))
      <4>1. t \in [1 .. m -> Range(t)] /\ \A y \in Range(t) : \E i \in 1 .. m : t[i] = y
        BY <1>2, <1>4
      <4>2. \A j, k_1 \in 1 .. m : t[j] = t[k_1] => j = k_1
        <5> SUFFICES ASSUME NEW i \in 1 .. m, NEW j \in 1 .. m, i # j PROVE t[i] # t[j]
          OBVIOUS
        <5>1. i < j \/ j < i
          BY <1>2
        <5> QED
          BY <1>3, <5>1
      <4> QED
        BY <1>4, <4>1, <4>2 DEF Bijection, Injection, Surjection, IsInjective
    <3>2. IsFiniteSet(1 .. m) /\ Cardinality(1 .. m) = m
      BY <1>2, Segment
    <3>3. ExistsBijection(1 .. m, Range(t))
      BY <3>1 DEF ExistsBijection
    <3> QED
      BY <1>2, <3>3, FS_CountingElements
  <2> QED
    BY <2>3, <2>4, <2>5
<1> QED
  BY <1>2, <1>3, <1>4, <1>5, <1>6 DEF FewBest

-----------------------------------------------------------------------------
(* What the answers buy.                                                   *)

LEMMA PriceIs ==
  ASSUME NEW row \in RowType
  PROVE  PriceOf(row) \in Nat \ {0}
<1>1. row.price \in Nat
  BY DEF RowType
<1> QED
  BY <1>1 DEF PriceOf, NoQuotation

\* What a purchase of a list must be.
Purchased(a, market, s, capital) ==
  /\ DOMAIN a.lots = Range(s) /\ (\A b \in Range(s) : a.lots[b] \in Nat)
  /\ Bought(a) \subseteq Range(s)
  /\ SpentOn(market, a) + a.left = capital
  /\ \A b \in Range(s) \ Bought(a) : TooDear(market, b, a)

\* A list of bonds, each once, each with a weight.
Buyable(market, s, S, n, weights, wish) ==
  /\ n \in Nat /\ s \in [1 .. n -> S] /\ weights \in [1 .. n -> Nat \ {0}] /\ wish.capital \in Nat
  /\ \A i, j \in 1 .. n : i # j => s[i] # s[j]
  /\ \A b \in S : PriceOf(market[b]) \in Nat \ {0}

LEMMA ListIsBought ==
  ASSUME NEW market, NEW S, NEW s, NEW n, NEW weights, NEW excluded, NEW wish,
         Buyable(market, s, S, n, weights, wish)
  PROVE  /\ Purchased(BuyListed(market, s, weights, excluded, wish), market, s, wish.capital)
         /\ BuyListed(market, s, weights, excluded, wish).excluded = excluded
<1> DEFINE o == [capital |-> wish.capital, weight |-> weights, price |-> Prices(market, s)]
           r == BuyMore(o)
           a == BuyListed(market, s, weights, excluded, wish)
           D == Range(s)
           v == [i \in 1 .. n |-> r.lots[i] * o.price[i]]
           w == [b \in D |-> a.lots[b] * PriceOf(market[b])]
<1>0. /\ n \in Nat /\ s \in [1 .. n -> S] /\ weights \in [1 .. n -> Nat \ {0}] /\ wish.capital \in Nat
      /\ \A i, j \in 1 .. n : i # j => s[i] # s[j]
      /\ \A b \in S : PriceOf(market[b]) \in Nat \ {0}
  BY DEF Buyable
<1> USE <1>0
<1>1. DOMAIN s = 1 .. n /\ D = {s[i] : i \in 1 .. n} /\ \A i \in 1 .. n : s[i] \in S /\ s[i] \in D
  BY DEF Range
<1>2. Order(o, n) /\ o.capital = wish.capital /\ \A i \in 1 .. n : o.weight[i] > 0 /\ o.price[i] = PriceOf(market[s[i]])
  <2>1. Prices(market, s) = [i \in 1 .. n |-> PriceOf(market[s[i]])]
    BY <1>1 DEF Prices
  <2>2. Prices(market, s) \in [1 .. n -> Nat \ {0}]
    BY <1>1, <2>1
  <2> QED
    BY <2>1, <2>2 DEF Order
<1>3. a = [lots |-> Lots(s, r), left |-> r.left, excluded |-> excluded]
  BY DEF BuyListed, Filled
<1> HIDE DEF o, r, D
<1>4. Bargain(o, n, r) /\ \A i \in 1 .. n : BoughtOrDear(o, r, i)
  BY <1>2, BuyMoreIsBargain DEF r
<1>5. /\ r.lots \in [1 .. n -> Nat] /\ r.left \in Nat /\ Cost(o, r.lots) + r.left = wish.capital
      /\ \A i \in 1 .. n : r.lots[i] \in Nat
  BY <1>2, <1>4 DEF Bargain
<1>6. DOMAIN a.lots = D /\ \A i \in 1 .. n : a.lots[s[i]] = r.lots[i]
  <2>1. a.lots = [b \in D |-> r.lots[CHOOSE i \in DOMAIN s : s[i] = b]]
    BY <1>3 DEF Lots, D
  <2>2. ASSUME NEW i \in 1 .. n PROVE (CHOOSE j \in DOMAIN s : s[j] = s[i]) = i
    BY <1>1
  <2> HIDE DEF a
  <2> QED
    BY <1>1, <2>1, <2>2
<1>7. a.left = r.left /\ a.excluded = excluded
  BY <1>3
<1> HIDE DEF a
<1>8. \A b \in D : \E i \in 1 .. n : s[i] = b /\ a.lots[b] = r.lots[i] /\ PriceOf(market[b]) = o.price[i]
  BY <1>1, <1>2, <1>6
<1>9. \A b \in D : a.lots[b] \in Nat /\ PriceOf(market[b]) \in Nat
  <2> SUFFICES ASSUME NEW b \in D PROVE a.lots[b] \in Nat /\ PriceOf(market[b]) \in Nat
    OBVIOUS
  <2>1. PICK i \in 1 .. n : s[i] = b /\ a.lots[b] = r.lots[i]
    BY <1>8
  <2> QED
    BY <1>1, <1>5, <2>1
<1>10. IsFiniteSet(D) /\ IsFiniteSet(1 .. n)
  <2>1. IsFiniteSet(1 .. n)
    BY Segment
  <2>2. s \in Surjection(1 .. n, D)
    BY <1>1 DEF Surjection
  <2> QED
    BY <2>1, <2>2, FS_Surjection
<1>11. SpentOn(market, a) + a.left = wish.capital
  <2>1. SpentOn(market, a) = SumOf(w)
    BY <1>6 DEF SpentOn
  <2>2. w \in Values(D) /\ DOMAIN w = D
    <3>1. \A b \in D : a.lots[b] * PriceOf(market[b]) \in Int
      BY <1>9
    <3> QED
      BY <3>1 DEF Values
  <2>3. v \in Values(1 .. n) /\ Cost(o, r.lots) = Sums(v)[1 .. n]
    <3> DEFINE l == r.lots
    <3>1. l \in [1 .. n -> Int] /\ Order(o, n)
      BY <1>2, <1>5
    <3>2. v = [i \in 1 .. n |-> l[i] * o.price[i]]
      OBVIOUS
    <3> HIDE DEF l, v
    <3>3. [i \in 1 .. n |-> l[i] * o.price[i]] \in Values(1 .. n) /\ Cost(o, l) = Sums([i \in 1 .. n |-> l[i] * o.price[i]])[1 .. n]
      BY <3>1, CostIs, SMTT(30)
    <3> QED
      BY <3>2, <3>3 DEF l
  <2>4. \A i \in 1 .. n : s[i] \in D /\ v[i] = w[s[i]]
    BY <1>1, <1>2, <1>6
  <2> HIDE DEF v, w
  <2>5. 1 .. n \in SUBSET (1 .. n) /\ D \in SUBSET D /\ s \in Bijection(1 .. n, D)
    BY <1>1 DEF Bijection, Injection, Surjection, IsInjective
  <2>6. Sums(v)[1 .. n] = Sums(w)[D]
    BY <1>10, <2>2, <2>3, <2>4, <2>5, SumsReindex
  <2>7. SumOf(w) = Sums(w)[D]
    BY <2>2, SumOfIsSum
  <2> QED
    BY <1>1, <1>5, <1>7, <2>1, <2>3, <2>6, <2>7
<1>12. Bought(a) \subseteq D
  BY <1>6 DEF Bought
<1>13. ASSUME NEW b \in D, b \notin Bought(a) PROVE TooDear(market, b, a)
  <2>1. PICK i \in 1 .. n : s[i] = b /\ a.lots[b] = r.lots[i] /\ PriceOf(market[b]) = o.price[i]
    BY <1>8
  <2>2. ~(r.lots[i] > 0)
    BY <1>6, <1>13, <2>1 DEF Bought
  <2>3. o.price[i] > r.left
    BY <1>4, <2>2 DEF BoughtOrDear
  <2> QED
    BY <1>7, <2>1, <2>3 DEF TooDear
<1>14. Purchased(a, market, s, wish.capital)
  BY <1>6, <1>9, <1>11, <1>12, <1>13 DEF Purchased, D
<1> QED
  BY <1>7, <1>14 DEF a

\* Where all the bonds have points, or none has, each of them has a weight.
LEMMA WeightsArePositive ==
  ASSUME NEW market, NEW n \in Nat, NEW s, DOMAIN s = 1 .. n, NEW wish, wish.capital \in Nat,
         \A i \in 1 .. n : market[s[i]].score \in Nat,
         wish.fails \/ (\A i \in 1 .. n : market[s[i]].score = 0) \/ \A i \in 1 .. n : market[s[i]].score > 0
  PROVE  Weights(market, s, wish) \in [1 .. n -> Nat \ {0}]
<1> DEFINE D == 1 .. n
           C == wish.capital
           scores == [i \in D |-> market[s[i]].score]
           o == [capital |-> C, weight |-> scores]
           some == Candidates(o)
           sum == IF some = {} THEN 1 ELSE SumOf(scores)
           items == [i \in D |-> Rounded(C * scores[i], sum)]
           amounts == Split(o)
<1>1. CASE wish.fails
  BY <1>1 DEF Weights
<1>2. CASE ~wish.fails
  <2>1. Weights(market, s, wish) = AtLeastOne(amounts)
    BY <1>2 DEF Weights
  <2>2. o.weight = scores /\ o.capital = C /\ DOMAIN scores = D /\ (\A i \in D : scores[i] \in Nat) /\ IsFiniteSet(D)
    <3>1. IsFiniteSet(D)
      BY Segment
    <3> QED
      BY <3>1
  <2>3. some = {i \in D : scores[i] > 0}
    BY <2>2 DEF Candidates
  <2>4. some = {} \/ some = D
    BY <1>2, <2>3
  <2> HIDE DEF scores, o, some
  <2>5. (IF some = {} THEN D ELSE some) = D
    BY <2>4
  <2>6. amounts = [items EXCEPT ![Min(D)] = @ + C - SumOf(items)]
    BY <2>2, <2>5 DEF Split, some
  <2>7. sum \in Nat \ {0}
    <3>1. CASE some = {}
      BY <3>1
    <3>2. CASE some # {}
      <4>1. PICK i \in D : scores[i] > 0
        BY <2>3, <3>2
      <4>2. SumOf(scores) = Sums(scores)[D]
        BY <2>2, SumOfIsSum
      <4>3. Sums(scores)[D] \in Nat /\ scores[i] =< Sums(scores)[D]
        BY <2>2, SumsAreNat
      <4> QED
        BY <2>2, <3>2, <4>1, <4>2, <4>3
    <3> QED
      BY <3>1, <3>2
  <2> HIDE DEF sum
  <2>8. \A i \in D : items[i] \in Int
    <3> SUFFICES ASSUME NEW i \in D PROVE items[i] \in Int
      OBVIOUS
    <3> DEFINE x == C * scores[i]
    <3>1. x \in Nat
      BY <2>2
    <3>2. items[i] = Rounded(x, sum)
      OBVIOUS
    <3> HIDE DEF x, items
    <3>3. x \div sum \in Nat
      BY <2>7, <3>1
    <3> QED
      BY <3>2, <3>3 DEF Rounded
  <2>9. DOMAIN items = D
    OBVIOUS
  <2> HIDE DEF items
  <2>10. SumOf(items) \in Int
    <3>1. SumOf(items) = Sums(items)[D]
      BY <2>9, SumOfIsSum
    <3>2. Sums(items)[D] \in Int
      BY <2>2, <2>8, <2>9, SumsAddUp DEF AddsUp
    <3> QED
      BY <3>1, <3>2
  <2>11. DOMAIN amounts = D /\ \A i \in D : amounts[i] \in Int
    BY <2>6, <2>8, <2>9, <2>10
  <2> HIDE DEF amounts
  <2>12. \A i \in D : (IF amounts[i] > 0 THEN 100 * amounts[i] ELSE 1) \in Nat \ {0}
    BY <2>11
  <2>13. AtLeastOne(amounts) = [i \in D |-> IF amounts[i] > 0 THEN 100 * amounts[i] ELSE 1]
    BY <2>11 DEF AtLeastOne
  <2> QED
    BY <2>1, <2>12, <2>13
<1> QED
  BY <1>1, <1>2

\* The bonds with points stand first, so they are what is left of the list.
StandFirst(s, t, m, market, G) ==
  \E n \in Nat :
    /\ n =< m /\ s \in [1 .. n -> G]
    /\ \A i \in 1 .. n : s[i] = t[i]
    /\ (\A i \in 1 .. n : market[s[i]].score = 0) \/ (\A i \in 1 .. n : market[s[i]].score > 0)
    /\ \A i \in 1 .. m : i > n => market[t[i]].score = 0 /\ \E j \in 1 .. m : market[t[j]].score > 0

LEMMA PointsStandFirst ==
  ASSUME NEW market \in Seq(RowType), NEW G \in SUBSET DOMAIN market, NEW m \in Nat, NEW t \in [1 .. m -> G],
         \A j, k \in 1 .. m : j < k => t[j] # t[k] /\ Before(market, "score", t[j], t[k]),
         NEW s, s = WithPoints(market, t)
  PROVE  StandFirst(s, t, m, market, G)
<1> DEFINE Pos == {i \in 1 .. m : market[t[i]].score > 0}
           k == Cardinality(Pos)
<1>1. DOMAIN t = 1 .. m /\ \A i \in 1 .. m : t[i] \in G /\ market[t[i]].score \in Nat
  <2>1. \A r \in RowType : r.score \in Nat
    BY DEF RowType
  <2>2. \A b \in DOMAIN market : market[b] \in RowType
    BY MarketRows
  <2> QED
    BY <2>1, <2>2
<1>2. CASE \A i \in 1 .. m : market[t[i]].score = 0
  <2>1. s = t
    BY <1>1, <1>2 DEF WithPoints
  <2>2. \A i \in 1 .. m : ~(i > m) /\ market[s[i]].score = 0
    BY <1>2, <2>1
  <2> QED
    BY <2>1, <2>2 DEF StandFirst
<1>3. CASE \E i \in 1 .. m : market[t[i]].score # 0
  <2>1. s = FirstFew(k, t)
    BY <1>1, <1>3 DEF WithPoints
  <2>2. Pos \in SUBSET (1 .. m) /\ IsFiniteSet(1 .. m) /\ Cardinality(1 .. m) = m
    BY Segment
  <2>3. k \in Nat /\ k =< m /\ IsFiniteSet(Pos)
    <3> HIDE DEF Pos
    <3> QED
      BY <2>2, PartIsFewer
  <2>4. ASSUME NEW i \in Pos PROVE i =< k
    <3>1. i \in 1 .. m /\ i \in Nat
      OBVIOUS
    <3>2. 1 .. i \subseteq Pos
      <4> SUFFICES ASSUME NEW j \in 1 .. i, j # i PROVE j \in Pos
        OBVIOUS
      <4>1. j \in 1 .. m /\ j < i
        BY <3>1
      <4>2. Before(market, "score", t[j], t[i])
        BY <3>1, <4>1
      <4>3. market[t[j]].score \in Nat /\ market[t[i]].score \in Nat /\ market[t[i]].score > 0
        BY <1>1, <3>1, <4>1
      <4>4. market[t[j]]["score"] >= market[t[i]]["score"]
        BY <4>2, <4>3 DEF Before
      <4> QED
        BY <4>1, <4>3, <4>4
    <3>3. IsFiniteSet(1 .. i) /\ Cardinality(1 .. i) = i
      BY <3>1, Segment
    <3> HIDE DEF Pos
    <3>4. Cardinality(1 .. i) =< Cardinality(Pos)
      BY <2>3, <3>2, FS_Subset
    <3> QED
      BY <3>3, <3>4
  <2>5. Pos = 1 .. k
    <3>1. Pos \subseteq 1 .. k
      BY <2>3, <2>4
    <3>2. IsFiniteSet(1 .. k) /\ Cardinality(1 .. k) = k
      BY <2>3, Segment
    <3> HIDE DEF Pos
    <3> QED
      BY <3>1, <3>2, FS_Subset
  <2> HIDE DEF k
  <2>6. Least(k, m) = k
    <3> SUFFICES ASSUME NEW x \in Nat, x =< m PROVE Least(x, m) = x
      BY <2>3
    <3> QED
      BY DEF Least
  <2>7. FirstFew(k, t) = [i \in 1 .. k |-> t[i]]
    <3> SUFFICES ASSUME NEW x \in Nat, Least(x, m) = x PROVE FirstFew(x, t) = [i \in 1 .. x |-> t[i]]
      BY <2>3, <2>6
    <3>1. FirstFew(x, t) = [i \in 1 .. Least(x, m) |-> t[i]]
      BY <1>1, FirstFewIs, ZenonT(30)
    <3> QED
      BY <3>1
  <2>8. \A i \in 1 .. k : t[i] \in G /\ market[t[i]].score > 0
    BY <2>5
  <2>9. s \in [1 .. k -> G] /\ \A i \in 1 .. k : s[i] = t[i]
    BY <2>1, <2>7, <2>8
  <2>10. ASSUME NEW i \in 1 .. m, i > k
         PROVE  market[t[i]].score = 0 /\ \E j \in 1 .. m : market[t[j]].score > 0
    <3>1. i \notin Pos
      BY <2>3, <2>5, <2>10
    <3> QED
      BY <1>1, <1>3, <3>1
  <2> QED
    BY <2>3, <2>8, <2>9, <2>10 DEF StandFirst
<1> QED
  BY <1>2, <1>3

\* Why a bond of a pool may be missing from the list that is bought.
Missing(market, wish, good, b) ==
  \/ b \notin EligibleOf(market, good, good)
  \/ market[b].score = 0 /\ \E c \in good : market[c].score > 0
  \/ wish.top =< Cardinality({c \in good \ {b} : AtLeastAs(market, wish, c, b)})

LEMMA BehindMany ==
  ASSUME NEW market, NEW good, IsFiniteSet(good), NEW wish, NEW R \in SUBSET good, NEW b,
         Cardinality(R) = wish.top, \A c \in R : c # b /\ AtLeastAs(market, wish, c, b)
  PROVE  Missing(market, wish, good, b)
<1> DEFINE A == {c \in good \ {b} : AtLeastAs(market, wish, c, b)}
<1>1. R \subseteq A /\ A \in SUBSET good
  OBVIOUS
<1> HIDE DEF A
<1>2. IsFiniteSet(A) /\ Cardinality(R) =< Cardinality(A)
  BY <1>1, FS_Subset
<1>3. wish.top =< Cardinality({c \in good \ {b} : AtLeastAs(market, wish, c, b)})
  BY <1>2 DEF A
<1> QED
  BY <1>3 DEF Missing

\* The list that a strategy buys.
LEMMA OrderedIs ==
  ASSUME NEW market \in Seq(RowType), NEW wish \in StrategyWishes, NEW good \in SUBSET DOMAIN market,
         NEW s, s = Ordered(market, good, wish)
  PROVE  \E n \in Nat : /\ s \in [1 .. n -> good]
                        /\ \A i, j \in 1 .. n : i # j => s[i] # s[j]
                        /\ \/ wish.fails
                           \/ \A i \in 1 .. n : market[s[i]].score = 0
                           \/ \A i \in 1 .. n : market[s[i]].score > 0
                        /\ \A b \in good \ Range(s) : Missing(market, wish, good, b)
<1>0. wish.top \in Nat
  BY DEF StrategyWishes
<1>1. IsFiniteSet(DOMAIN market) /\ \A b \in DOMAIN market : b \in Nat /\ market[b].ytm \in Int /\ market[b].score \in Int
  <2>1. \A r \in RowType : r.score \in Int
    BY DEF RowType
  <2> QED
    BY <2>1, MarketRows
<1>2. IsFiniteSet(good) /\ good \subseteq Nat
  BY <1>1, FS_Subset
<1>3. CASE wish.fails
  <2> DEFINE r == Ranked(market, good, "ytm")
  <2>1. \A b \in good : market[b]["ytm"] \in Int
    BY <1>1
  <2>2. s = FirstFew(wish.top, r)
    BY <1>3 DEF Ordered
  <2> HIDE DEF r
  <2>3. /\ \E m \in Nat : /\ m =< wish.top /\ s \in [1 .. m -> good] /\ Len(s) = m
                           /\ \A j, k \in 1 .. m : j < k => s[j] # s[k] /\ Before(market, "ytm", s[j], s[k])
        /\ IsFiniteSet(Range(s)) /\ Range(s) \subseteq good
        /\ \A b \in good \ Range(s) :
              /\ Cardinality(Range(s)) = wish.top
              /\ \A c \in Range(s) : c # b /\ Before(market, "ytm", c, b)
    <3>1. FewBest(s, market, good, "ytm", wish.top)
      BY <1>0, <1>2, <2>1, <2>2, FirstAreBest DEF r
    <3> QED
      BY <3>1 DEF FewBest
  <2>4. PICK m \in Nat : /\ s \in [1 .. m -> good]
                         /\ \A j, k \in 1 .. m : j < k => s[j] # s[k]
    BY <2>3
  <2>5. \A i, j \in 1 .. m : i # j => s[i] # s[j]
    <3> SUFFICES ASSUME NEW i \in 1 .. m, NEW j \in 1 .. m, i # j PROVE s[i] # s[j]
      OBVIOUS
    <3>1. i < j \/ j < i
      OBVIOUS
    <3> QED
      BY <2>4, <3>1
  <2>6. ASSUME NEW b \in good \ Range(s) PROVE Missing(market, wish, good, b)
    <3>1. \A c \in Range(s) : c # b /\ AtLeastAs(market, wish, c, b)
      <4> SUFFICES ASSUME NEW c \in Range(s) PROVE c # b /\ AtLeastAs(market, wish, c, b)
        OBVIOUS
      <4>1. c # b /\ Before(market, "ytm", c, b) /\ c \in good
        BY <2>3
      <4>2. market[c]["ytm"] >= market[b]["ytm"]
        BY <2>1, <4>1 DEF Before
      <4> QED
        BY <1>3, <4>1, <4>2 DEF AtLeastAs
    <3>2. Range(s) \in SUBSET good /\ Cardinality(Range(s)) = wish.top
      BY <2>3
    <3> QED
      BY <1>2, <3>1, <3>2, BehindMany
  <2> QED
    BY <1>3, <2>4, <2>5, <2>6
<1>4. CASE ~wish.fails
  <2> DEFINE G == EligibleOf(market, good, good)
             r == Ranked(market, G, "score")
             t == FirstFew(wish.top, r)
  <2>1. G \in SUBSET good /\ G \in SUBSET DOMAIN market /\ G \subseteq Nat /\ IsFiniteSet(G)
    <3>1. G \in SUBSET good
      BY DEF EligibleOf
    <3> HIDE DEF G
    <3> QED
      BY <1>2, <3>1, FS_Subset
  <2>2. \A b \in G : market[b]["score"] \in Int
    <3> HIDE DEF G
    <3> QED
      BY <1>1, <2>1
  <2>3. s = WithPoints(market, t)
    BY <1>4 DEF Ordered, Chosen
  <2> HIDE DEF G, r, t
  <2>4. /\ \E m \in Nat : /\ m =< wish.top /\ t \in [1 .. m -> G] /\ Len(t) = m
                           /\ \A j, k \in 1 .. m : j < k => t[j] # t[k] /\ Before(market, "score", t[j], t[k])
        /\ IsFiniteSet(Range(t)) /\ Range(t) \subseteq G
        /\ \A b \in G \ Range(t) :
              /\ Cardinality(Range(t)) = wish.top
              /\ \A c \in Range(t) : c # b /\ Before(market, "score", c, b)
    <3>1. FewBest(t, market, G, "score", wish.top)
      BY <1>0, <2>1, <2>2, FirstAreBest DEF r, t
    <3> QED
      BY <3>1 DEF FewBest
  <2>5. PICK m \in Nat : /\ t \in [1 .. m -> G]
                         /\ \A j, k \in 1 .. m : j < k => t[j] # t[k] /\ Before(market, "score", t[j], t[k])
    BY <2>4
  <2>6. PICK n \in Nat : /\ n =< m /\ s \in [1 .. n -> G] /\ \A i \in 1 .. n : s[i] = t[i]
                         /\ (\A i \in 1 .. n : market[s[i]].score = 0) \/ \A i \in 1 .. n : market[s[i]].score > 0
                         /\ \A i \in 1 .. m : i > n => /\ market[t[i]].score = 0
                                                       /\ \E j \in 1 .. m : market[t[j]].score > 0
    <3>1. StandFirst(s, t, m, market, G)
      BY <2>1, <2>3, <2>5, PointsStandFirst
    <3> QED
      BY <3>1 DEF StandFirst
  <2>7. \A i, j \in 1 .. n : i # j => s[i] # s[j]
    <3> SUFFICES ASSUME NEW i \in 1 .. n, NEW j \in 1 .. n, i # j PROVE s[i] # s[j]
      OBVIOUS
    <3>1. (i < j \/ j < i) /\ i \in 1 .. m /\ j \in 1 .. m
      BY <2>6
    <3> QED
      BY <2>5, <2>6, <3>1
  <2>8. ASSUME NEW b \in good \ Range(s) PROVE Missing(market, wish, good, b)
    <3>1. CASE b \notin G
      BY <3>1 DEF Missing, G
    <3>2. CASE b \in G /\ b \notin Range(t)
      <4>1. \A c \in Range(t) : c # b /\ AtLeastAs(market, wish, c, b)
        <5> SUFFICES ASSUME NEW c \in Range(t) PROVE c # b /\ AtLeastAs(market, wish, c, b)
          OBVIOUS
        <5>1. c # b /\ Before(market, "score", c, b) /\ c \in G
          BY <2>4, <3>2
        <5>2. market[c]["score"] >= market[b]["score"]
          BY <2>2, <3>2, <5>1 DEF Before
        <5> QED
          BY <1>4, <5>1, <5>2 DEF AtLeastAs
      <4>2. Range(t) \in SUBSET good /\ Cardinality(Range(t)) = wish.top
        BY <2>1, <2>4, <3>2
      <4> QED
        BY <1>2, <4>1, <4>2, BehindMany
    <3>3. CASE b \in Range(t)
      <4>1. PICK i \in 1 .. m : t[i] = b
        BY <2>5, <3>3 DEF Range
      <4>2. i > n
        <5> SUFFICES ASSUME i =< n PROVE FALSE
          BY <2>6
        <5>1. i \in 1 .. n
          OBVIOUS
        <5>2. s[i] = b /\ i \in DOMAIN s
          BY <2>6, <4>1, <5>1
        <5> QED
          BY <2>8, <5>2 DEF Range
      <4>3. market[b].score = 0 /\ \E j \in 1 .. m : market[t[j]].score > 0
        BY <2>6, <4>1, <4>2
      <4>4. \E c \in good : market[c].score > 0
        BY <2>1, <2>5, <4>3
      <4> QED
        BY <4>3, <4>4 DEF Missing
    <3> QED
      BY <3>1, <3>2, <3>3
  <2>9. s \in [1 .. n -> good]
    BY <2>1, <2>6
  <2> QED
    BY <2>6, <2>7, <2>8, <2>9
<1> QED
  BY <1>3, <1>4
LEMMA NothingIsSound ==
  ASSUME NEW market, NEW wish, NEW x
  PROVE  StrategySound(market, wish, NothingBought(x))
<1>1. NothingBought(x).lots = << >>
  BY DEF NothingBought
<1>2. Bought(NothingBought(x)) = {}
  BY <1>1 DEF Bought
<1> QED
  BY <1>1, <1>2 DEF StrategySound

LEMMA PoolIs ==
  ASSUME NEW market, NEW wish
  PROVE  Pool(market, wish) \in SUBSET DOMAIN market
  BY DEF Pool

\* What a strategy buys is sound for every market and every wish.
LEMMA StrategyIsSound ==
  ASSUME NEW market \in Seq(RowType), NEW wish \in StrategyWishes
  PROVE  StrategySound(market, wish, StrategyAnswer(market, wish))
<1> DEFINE pool == Pool(market, wish)
           good == EligibleOf(market, pool, pool)
           s == Ordered(market, good, wish)
           w == Weights(market, s, wish)
           a == BuyListed(market, s, w, pool \ good, wish)
<1>1. pool \in SUBSET DOMAIN market /\ good \in SUBSET pool
  <2>1. pool \in SUBSET DOMAIN market
    BY PoolIs
  <2> QED
    BY <2>1 DEF EligibleOf
<1>2. \/ \E x : StrategyAnswer(market, wish) = NothingBought(x)
      \/ StrategyAnswer(market, wish) = a
  BY DEF StrategyAnswer, StrategyOf, BuyFromPool, BuyRanked
<1>3. CASE \E x : StrategyAnswer(market, wish) = NothingBought(x)
  BY <1>3, NothingIsSound
<1>4. good = EligibleOf(market, pool, pool) /\ pool = Pool(market, wish)
  OBVIOUS
<1> HIDE DEF pool, good
<1>5. StrategySound(market, wish, a)
  <2>0. wish.capital \in Nat
    BY DEF StrategyWishes
  <2>1. good \in SUBSET DOMAIN market
    BY <1>1
  <2>2. PICK n \in Nat : /\ s \in [1 .. n -> good]
                         /\ \A i, j \in 1 .. n : i # j => s[i] # s[j]
                         /\ \/ wish.fails
                            \/ \A i \in 1 .. n : market[s[i]].score = 0
                            \/ \A i \in 1 .. n : market[s[i]].score > 0
                         /\ \A b \in good \ Range(s) : Missing(market, wish, good, b)
    BY <2>1, OrderedIs
  <2> HIDE DEF s
  <2>3. \A b \in good : PriceOf(market[b]) \in Nat \ {0} /\ market[b].score \in Nat
    <3>1. \A r \in RowType : r.score \in Nat
      BY DEF RowType
    <3> QED
      BY <2>1, <3>1, MarketRows, PriceIs
  <2>4. w \in [1 .. n -> Nat \ {0}]
    <3>1. DOMAIN s = 1 .. n /\ \A i \in 1 .. n : market[s[i]].score \in Nat
      BY <2>2, <2>3
    <3> QED
      BY <2>0, <2>2, <3>1, WeightsArePositive
  <2> HIDE DEF w
  <2>5. Purchased(a, market, s, wish.capital) /\ a.excluded = pool \ good
    <3>1. \A b \in good : PriceOf(market[b]) \in Nat \ {0}
      BY <2>3
    <3>2. s \in [1 .. n -> good] /\ \A i, j \in 1 .. n : i # j => s[i] # s[j]
      BY <2>2
    <3> DEFINE x == pool \ good
    <3> HIDE DEF x
    <3>3. Purchased(BuyListed(market, s, w, x, wish), market, s, wish.capital) /\ BuyListed(market, s, w, x, wish).excluded = x
      <4>1. Buyable(market, s, good, n, w, wish)
        BY <2>0, <2>4, <3>1, <3>2 DEF Buyable
      <4> QED
        BY <4>1, ListIsBought
    <3> QED
      BY <3>3 DEF x
  <2> HIDE DEF a
  <2>6. Bought(a) \subseteq Range(s) /\ Range(s) \subseteq good
    BY <2>2, <2>5 DEF Purchased, Range
  <2>7. ASSUME NEW b \in pool \ Bought(a)
        PROVE  \/ b \in a.excluded
               \/ b \notin EligibleOf(market, good, good)
               \/ TooDear(market, b, a)
               \/ market[b].score = 0 /\ {c \in good : market[c].score > 0} # {}
               \/ wish.top <= Cardinality({c \in good \ {b} : AtLeastAs(market, wish, c, b)})
    <3>1. CASE b \notin good
      BY <2>5, <3>1
    <3>2. CASE b \in Range(s)
      BY <2>5, <3>2 DEF Purchased
    <3>3. CASE b \in good \ Range(s)
      <4>1. Missing(market, wish, good, b)
        BY <2>2, <3>3
      <4>2. (\E c \in good : market[c].score > 0) => {c \in good : market[c].score > 0} # {}
        OBVIOUS
      <4> QED
        BY <4>1, <4>2 DEF Missing
    <3> QED
      BY <3>1, <3>2, <3>3
  <2> QED
    BY <1>4, <2>5, <2>6, <2>7 DEF StrategySound, Purchased
<1> QED
  BY <1>2, <1>3, <1>5
LEMMA WeightIsNat ==
  ASSUME NEW row \in RowType, NEW objective \in Objectives
  PROVE  ObjectiveWeight(row, objective) \in Nat
<1>1. row.vol \in Nat \ {0} /\ row.solved \in Int
  BY DEF RowType
<1>2. row.vol * row.vol \in Nat \ {0}
  <2> SUFFICES ASSUME NEW v \in Nat \ {0} PROVE v * v \in Nat \ {0}
    BY <1>1
  <2>1. v * v > 0
    BY TimesPositive
  <2> QED
    BY <2>1
<1>3. \A d \in Nat \ {0} : 4 \div d \in Nat
  OBVIOUS
<1>4. 4 \div (row.vol * row.vol) \in Nat /\ 4 \div row.vol \in Nat
  BY <1>1, <1>2, <1>3
<1> DEFINE square == 4 \div (row.vol * row.vol)
           gain == IF row.solved > 4 THEN row.solved - 4 ELSE 0
<1>5. gain \in Nat
  BY <1>1
<1>6. square \in Nat
  BY <1>4
<1> HIDE DEF square, gain
<1>7. gain * square \in Nat
  <2> SUFFICES ASSUME NEW x \in Nat, NEW y \in Nat PROVE x * y \in Nat
    BY <1>5, <1>6
  <2>1. x * 0 =< x * y
    BY TimesPositive
  <2> QED
    BY <2>1
<1>8. CASE row.solved < 0
  BY <1>8 DEF ObjectiveWeight
<1>9. CASE ~(row.solved < 0) /\ objective = "equal_weight"
  BY <1>9 DEF ObjectiveWeight
<1>10. CASE ~(row.solved < 0) /\ objective = "min_variance"
  BY <1>6, <1>10 DEF ObjectiveWeight, square
<1>11. CASE ~(row.solved < 0) /\ objective = "risk_parity"
  BY <1>4, <1>11 DEF ObjectiveWeight
<1>12. CASE ~(row.solved < 0) /\ objective = "max_sharpe"
  BY <1>7, <1>12 DEF ObjectiveWeight, square, gain
<1> QED
  BY <1>8, <1>9, <1>10, <1>11, <1>12 DEF Objectives

\* The bonds in the order of their ids.
ListsAll(s, bonds) ==
  LET n == Cardinality(bonds)
  IN /\ n \in Nat /\ s \in [1 .. n -> bonds] /\ Len(s) = n
     /\ \A b \in bonds : \E k \in 1 .. n : s[k] = b
     /\ \A j, k \in 1 .. n : j # k => s[j] # s[k]

LEMMA ListsAllIs ==
  ASSUME NEW bonds, IsFiniteSet(bonds), bonds \subseteq Nat
  PROVE  ListsAll(AsListed(bonds), bonds)
  BY AsListedIs DEF ListsAll

LEMMA PickedIs ==
  ASSUME NEW market, NEW wish
  PROVE  /\ PickedBonds(market, wish) \in SUBSET DOMAIN market
         /\ PickedBonds(market, wish) \in SUBSET Range(wish.ids)
  BY DEF PickedBonds, EligibleOf

\* What is bought of the picked bonds is sound for every market and wish.
LEMMA CustomIsSound ==
  ASSUME NEW market \in Seq(RowType), NEW wish \in CustomWishes
  PROVE  CustomSound(market, wish, CustomAnswer(market, wish))
<1> DEFINE bonds == PickedBonds(market, wish)
           heavy == {b \in bonds : WeightOf(market, b, wish) > 0}
           s == AsListed(heavy)
           n == Cardinality(heavy)
           w == [i \in DOMAIN s |-> WeightOf(market, s[i], wish)]
           out == Range(wish.ids) \ bonds
           a == BuyListed(market, s, w, out, wish)
<1>1. wish.capital \in Nat /\ wish.objective \in Objectives
  BY DEF CustomWishes
<1>2. bonds \in SUBSET DOMAIN market /\ bonds \in SUBSET Range(wish.ids) /\ heavy \in SUBSET bonds
  BY PickedIs
<1>3. CustomAnswer(market, wish) = BuyPicked(market, s, out, wish)
  BY DEF CustomAnswer, CustomOf
<1>4. \A b \in heavy : WeightOf(market, b, wish) > 0
  OBVIOUS
<1>5. \A b \in bonds \ heavy : ~(WeightOf(market, b, wish) > 0)
  OBVIOUS
<1> HIDE DEF bonds, heavy
<1>6. \A b \in DOMAIN market : /\ b \in Nat /\ PriceOf(market[b]) \in Nat \ {0}
                               /\ ObjectiveWeight(market[b], wish.objective) \in Nat
  BY <1>1, MarketRows, PriceIs, WeightIsNat
<1>7. IsFiniteSet(heavy) /\ heavy \subseteq Nat /\ IsFiniteSet(DOMAIN market)
  <2>1. IsFiniteSet(DOMAIN market)
    BY MarketRows
  <2> QED
    BY <1>2, <1>6, <2>1, FS_Subset
<1>8. ListsAll(s, heavy)
  BY <1>7, ListsAllIs
<1> HIDE DEF s
<1>9. /\ n \in Nat /\ s \in [1 .. n -> heavy] /\ DOMAIN s = 1 .. n /\ Range(s) = heavy
      /\ \A j, k \in 1 .. n : j # k => s[j] # s[k]
  <2>1. /\ n \in Nat /\ s \in [1 .. n -> heavy] /\ (\A b \in heavy : \E k \in 1 .. n : s[k] = b)
        /\ \A j, k \in 1 .. n : j # k => s[j] # s[k]
    BY <1>8 DEF ListsAll
  <2> HIDE DEF n
  <2> QED
    BY <2>1 DEF Range
<1> HIDE DEF n
<1>10. \A b \in bonds \ heavy : ObjectiveWeight(market[b], wish.objective) = 0
  <2> SUFFICES ASSUME NEW b \in bonds \ heavy PROVE ObjectiveWeight(market[b], wish.objective) = 0
    OBVIOUS
  <2>1. ObjectiveWeight(market[b], wish.objective) \in Nat /\ ~(ObjectiveWeight(market[b], wish.objective) > 0)
    BY <1>2, <1>5, <1>6 DEF WeightOf
  <2> QED
    BY <2>1
<1>11. ASSUME NEW x PROVE NothingBought(x).lots = << >> /\ Bought(NothingBought(x)) = {} /\ NothingBought(x).excluded = x
  <2>1. NothingBought(x).lots = << >> /\ NothingBought(x).excluded = x
    BY DEF NothingBought
  <2> QED
    BY <2>1 DEF Bought
<1>12. CASE wish.ids = << >> \/ wish.capital = 0
  <2>1. CustomAnswer(market, wish) = NothingBought({})
    BY <1>3, <1>12 DEF BuyPicked
  <2>2. wish.capital > 0 => Range(wish.ids) = {}
    BY <1>1, <1>12 DEF Range
  <2> QED
    BY <1>11, <2>1, <2>2 DEF CustomSound
<1>13. CASE ~(wish.ids = << >> \/ wish.capital = 0) /\ s = << >>
  <2>1. CustomAnswer(market, wish) = NothingBought(out)
    BY <1>3, <1>13 DEF BuyPicked
  <2>2. heavy = {}
    BY <1>9, <1>13 DEF Range
  <2>3. \A b \in Range(wish.ids) : b \in out \/ ObjectiveWeight(market[b], wish.objective) = 0
    BY <1>10, <2>2
  <2> QED
    BY <1>11, <2>1, <2>3 DEF CustomSound
<1>14. CASE ~(wish.ids = << >> \/ wish.capital = 0) /\ s # << >>
  <2>1. CustomAnswer(market, wish) = a
    BY <1>3, <1>14 DEF BuyPicked
  <2>2. w \in [1 .. n -> Nat \ {0}]
    <3>1. \A i \in 1 .. n : WeightOf(market, s[i], wish) \in Nat \ {0}
      BY <1>2, <1>4, <1>6, <1>9 DEF WeightOf
    <3> QED
      BY <1>9, <3>1
  <2> HIDE DEF w, out
  <2>3. Buyable(market, s, heavy, n, w, wish)
    BY <1>1, <1>2, <1>6, <1>9, <2>2 DEF Buyable
  <2>4. Purchased(a, market, s, wish.capital) /\ a.excluded = out
    BY <2>3, ListIsBought
  <2> HIDE DEF a
  <2>5. Bought(a) \subseteq heavy /\ \A b \in heavy \ Bought(a) : TooDear(market, b, a)
    BY <1>9, <2>4 DEF Purchased
  <2>6. SpentOn(market, a) + a.left = wish.capital
    BY <2>4 DEF Purchased
  <2>7. Bought(a) \cap a.excluded = {}
    BY <1>2, <2>4, <2>5 DEF out
  <2>8. \A b \in Range(wish.ids) \ Bought(a) :
          \/ b \in a.excluded \/ ObjectiveWeight(market[b], wish.objective) = 0 \/ TooDear(market, b, a)
    BY <1>10, <2>4, <2>5 DEF out
  <2> QED
    BY <2>1, <2>6, <2>7, <2>8 DEF CustomSound
<1> QED
  BY <1>12, <1>13, <1>14
\* Unless a bond is named twice, each amount counts for its bond or is left out.
LEMMA FixedIsSound ==
  ASSUME NEW market, NEW wish \in FixedWishes, Len(wish.amounts) = Len(wish.ids)
  PROVE  FixedSound(wish, FixedAnswer(market, wish))
<1> DEFINE bonds == PickedBonds(market, wish)
           ids == wish.ids
           I == DOMAIN ids
           T == {i \in I : ids[i] \in bonds}
           h == [i \in T |-> ids[i]]
           w == [b \in bonds |-> AmountOf(wish, b)]
           v == [i \in I |-> IF ids[i] \in Range(ids) \ bonds THEN 0 ELSE wish.amounts[i]]
<1> SUFFICES ASSUME IsInjective(ids)
             PROVE  FixedOf(bonds, wish).total =
                      SumOf([i \in I |-> IF ids[i] \in FixedOf(bonds, wish).excluded THEN 0 ELSE wish.amounts[i]])
  BY DEF FixedSound, FixedAnswer
<1>1. FixedOf(bonds, wish).total = SumOf(w) /\ FixedOf(bonds, wish).excluded = Range(ids) \ bonds
  BY DEF FixedOf
<1>2. bonds \in SUBSET Range(ids)
  BY PickedIs
<1> HIDE DEF bonds
<1>3. /\ Len(ids) \in Nat /\ I = 1 .. Len(ids) /\ DOMAIN wish.amounts = I
      /\ \A i \in I : wish.amounts[i] \in Nat
  <2>1. wish.ids \in Seq(Nat) /\ wish.amounts \in Seq(Nat)
    BY DEF FixedWishes
  <2> QED
    BY <2>1
<1>4. \A i, j \in I : ids[i] = ids[j] => i = j
  BY DEF IsInjective
<1>5. \A i \in I : ids[i] \in Range(ids)
  BY DEF Range
<1> HIDE DEF ids
<1>6. IsFiniteSet(I)
  <2> SUFFICES ASSUME NEW k \in Nat PROVE IsFiniteSet(1 .. k)
    BY <1>3
  <2> QED
    BY Segment
<1> HIDE DEF I
<1>7. ASSUME NEW i \in T PROVE AmountOf(wish, ids[i]) = wish.amounts[i]
  <2>1. {j \in I : ids[j] = ids[i]} = {i}
    BY <1>4
  <2>2. Max({i}) = i
    <3>1. i \in Int
      BY <1>3
    <3> QED
      BY <3>1 DEF Max
  <2> QED
    BY <2>1, <2>2 DEF AmountOf, I, ids
<1>8. h \in Bijection(T, bonds)
  <2>1. h \in [T -> bonds] /\ \A i, j \in T : h[i] = h[j] => i = j
    BY <1>4
  <2>2. \A b \in bonds : \E i \in T : h[i] = b
    BY <1>2 DEF Range, I
  <2> HIDE DEF h, T
  <2> QED
    BY <2>1, <2>2 DEF Bijection, Injection, Surjection, IsInjective
<1>9. IsFiniteSet(bonds)
  <2>1. IsFiniteSet(T)
    BY <1>6, FS_Subset
  <2>2. h \in Surjection(T, bonds)
    BY <1>8 DEF Bijection
  <2> HIDE DEF h, T
  <2> QED
    BY <2>1, <2>2, FS_Surjection
<1>10. v \in Values(I) /\ \A i \in I : v[i] \in Int
  BY <1>3 DEF Values
<1>11. ASSUME NEW b \in bonds PROVE w[b] \in Int
  <2>1. PICK i \in T : ids[i] = b
    BY <1>2, <1>11 DEF Range, I
  <2>2. AmountOf(wish, b) = wish.amounts[i]
    BY <1>7, <2>1
  <2> QED
    BY <1>3, <2>2
<1>12. w \in Values(bonds) /\ DOMAIN w = bonds /\ DOMAIN v = I
  BY <1>11 DEF Values
<1>13. \A i \in T : v[i] = w[h[i]]
  <2> SUFFICES ASSUME NEW i \in T PROVE v[i] = w[h[i]]
    OBVIOUS
  <2>1. v[i] = wish.amounts[i] /\ h[i] = ids[i] /\ ids[i] \in bonds
    OBVIOUS
  <2> QED
    BY <1>7, <2>1
<1>14. \A i \in I \ T : v[i] = 0
  BY <1>5
<1>15. T \in SUBSET I /\ bonds \in SUBSET bonds
  OBVIOUS
<1> HIDE DEF T, h, w
<1> HIDE DEF v
<1>17. Sums(v)[T] = Sums(w)[bonds]
  BY <1>6, <1>8, <1>9, <1>10, <1>12, <1>13, <1>15, SumsReindex
<1>18. Sums(v)[T] = Sums(v)[I]
  BY <1>6, <1>10, <1>12, <1>14, <1>15, ZeroesDoNotCount
<1>19. SumOf(v) = Sums(v)[I] /\ SumOf(w) = Sums(w)[bonds]
  BY <1>12, SumOfIsSum
<1>20. SumOf(w) = SumOf(v)
  BY <1>17, <1>18, <1>19
<1> QED
  BY <1>1, <1>20 DEF v
\* The bonds of an issuer, and those of one's own issuer that are ahead.
IssuedOf(market, bonds, x) == {c \in bonds : market[c].issuer = x}
AheadOf(market, bonds, b) ==
  {c \in bonds : market[c].issuer = market[b].issuer /\ Before(market, "advice", c, b)}

LEMMA BeforeIsOrder ==
  ASSUME NEW market, NEW bonds, bonds \subseteq Nat, \A b \in bonds : market[b].advice \in Nat,
         NEW a \in bonds, NEW b \in bonds, NEW c \in bonds, Before(market, "advice", a, b)
  PROVE  /\ market[a].advice >= market[b].advice /\ a # b
         /\ Before(market, "advice", b, c) => Before(market, "advice", a, c)
<1>1. market[a].advice \in Nat /\ market[b].advice \in Nat /\ market[c].advice \in Nat /\ a \in Nat /\ b \in Nat /\ c \in Nat
  OBVIOUS
<1> QED
  BY <1>1 DEF Before

LEMMA DiversifiedIs ==
  ASSUME NEW market, NEW E, NEW cap
  PROVE  /\ Diversified(market, E, cap) \in SUBSET E
         /\ \A b \in E : b \in Diversified(market, E, cap)
              <=> (Capped(market[b], cap) => Cardinality(AheadOf(market, E, b)) < cap)
  BY DEF Diversified, AheadOf

\* Of each issuer no more than its share is left: its last one has all the
\* others ahead.
LEMMA IssuersHaveTheirShare ==
  ASSUME NEW market, NEW E, IsFiniteSet(E), E \subseteq Nat, \A b \in E : market[b].advice \in Nat,
         NEW cap \in Nat \ {0}, NEW x, x # NoIssuer
  PROVE  LET G == IssuedOf(market, Diversified(market, E, cap), x)
         IN IsFiniteSet(G) /\ Cardinality(G) \in Nat /\ Cardinality(G) =< cap
<1> DEFINE G == IssuedOf(market, Diversified(market, E, cap), x)
           s == Ranked(market, G, "advice")
           n == Cardinality(G)
<1>1. G \in SUBSET E /\ \A b \in G : market[b].issuer = x /\ Cardinality(AheadOf(market, E, b)) < cap
  BY DiversifiedIs DEF IssuedOf, Capped
<1> HIDE DEF G
<1>2. IsFiniteSet(G) /\ G \subseteq Nat /\ \A b \in G : market[b]["advice"] \in Int
  <2>1. G \in SUBSET E
    BY <1>1
  <2>2. IsFiniteSet(G) /\ G \subseteq Nat
    BY <2>1, FS_Subset
  <2>3. ASSUME NEW b \in G PROVE market[b].advice \in Int
    <3>1. b \in E
      BY <2>1
    <3>2. market[b].advice \in Nat
      BY <3>1
    <3> QED
      BY <3>2
  <2> QED
    BY <2>2, <2>3
<1>3. BestFirst(s, market, G, "advice")
  BY <1>2, RankedIs
<1> HIDE DEF s
<1>4. /\ n \in Nat /\ s \in [1 .. n -> G]
      /\ \A k \in 1 .. n : Cardinality({c \in G : Before(market, "advice", c, s[k])}) = k - 1
  BY <1>3 DEF BestFirst
<1> HIDE DEF n
<1>5. CASE n = 0
  BY <1>2, <1>4, <1>5 DEF n, G
<1>6. CASE n # 0
  <2>1. n \in 1 .. n
    BY <1>4, <1>6
  <2>2. s[n] \in G /\ Cardinality({c \in G : Before(market, "advice", c, s[n])}) = n - 1
    BY <1>4, <2>1
  <2> DEFINE P == {c \in G : Before(market, "advice", c, s[n])}
             A == AheadOf(market, E, s[n])
  <2>3. P \in SUBSET A /\ A \in SUBSET E
    BY <1>1, <2>2 DEF AheadOf
  <2>4. Cardinality(P) = n - 1 /\ Cardinality(A) < cap
    BY <1>1, <2>2
  <2> HIDE DEF P, A
  <2>5. IsFiniteSet(A)
    BY <2>3, FS_Subset
  <2>6. Cardinality(P) =< Cardinality(A) /\ Cardinality(A) \in Nat
    BY <2>3, <2>5, PartIsFewer
  <2>7. n =< cap
    BY <1>4, <2>4, <2>6
  <2> QED
    BY <1>2, <1>4, <2>7 DEF n, G
<1> QED
  BY <1>5, <1>6

\* A bond that its issuer's share keeps out stands behind as many of them that stay.
LEMMA BetterOnesStay ==
  ASSUME NEW market, NEW E, IsFiniteSet(E), E \subseteq Nat, \A b \in E : market[b].advice \in Nat,
         NEW cap \in Nat \ {0}, NEW b \in E, b \notin Diversified(market, E, cap)
  PROVE  \E F \in SUBSET Diversified(market, E, cap) :
           IsFiniteSet(F) /\ Cardinality(F) = cap /\ F \subseteq AheadOf(market, E, b)
<1> DEFINE A == AheadOf(market, E, b)
           s == Ranked(market, A, "advice")
           n == Cardinality(A)
<1>1. A \in SUBSET E /\ \A c \in A : market[c].issuer = market[b].issuer /\ Before(market, "advice", c, b)
  BY DEF AheadOf
<1>2. ~(n < cap)
  BY DiversifiedIs
<1>3. ASSUME NEW c \in A, NEW d \in E
      PROVE  d \in A /\ Before(market, "advice", d, c) <=> d \in AheadOf(market, E, c)
  <2>1. market[c].issuer = market[b].issuer /\ Before(market, "advice", c, b)
    BY <1>1
  <2>2. Before(market, "advice", d, c) => Before(market, "advice", d, b)
    BY <1>1, <2>1, BeforeIsOrder
  <2> QED
    BY <2>1, <2>2 DEF AheadOf
<1> HIDE DEF A
<1>4. IsFiniteSet(A) /\ A \subseteq Nat /\ \A c \in A : market[c]["advice"] \in Int
  <2>1. A \in SUBSET E
    BY <1>1
  <2>2. A \subseteq Nat /\ \A c \in A : market[c].advice \in Int
    BY <2>1
  <2> QED
    BY <2>1, <2>2, FS_Subset
<1>5. BestFirst(s, market, A, "advice")
  BY <1>4, RankedIs
<1> HIDE DEF s
<1>6. /\ n \in Nat /\ s \in [1 .. n -> A]
      /\ \A k \in 1 .. n : Cardinality({c \in A : Before(market, "advice", c, s[k])}) = k - 1
      /\ \A j, k \in 1 .. n : j < k => s[j] # s[k]
  BY <1>5 DEF BestFirst
<1> HIDE DEF n
<1> DEFINE F == {s[k] : k \in 1 .. cap}
<1>7. \A k \in 1 .. cap : k \in 1 .. n
  BY <1>2, <1>6
<1>8. ASSUME NEW k \in 1 .. cap PROVE s[k] \in A /\ s[k] \in Diversified(market, E, cap)
  <2>1. s[k] \in A /\ Cardinality({c \in A : Before(market, "advice", c, s[k])}) = k - 1
    BY <1>6, <1>7
  <2>2. {c \in A : Before(market, "advice", c, s[k])} = AheadOf(market, E, s[k])
    <3>1. AheadOf(market, E, s[k]) \subseteq E
      BY DEF AheadOf
    <3> QED
      BY <1>1, <1>3, <2>1, <3>1
  <2>3. Cardinality(AheadOf(market, E, s[k])) < cap
    BY <2>1, <2>2
  <2> QED
    BY <1>1, <2>1, <2>3, DiversifiedIs
<1>9. F \in SUBSET Diversified(market, E, cap) /\ F \subseteq A
  BY <1>8
<1>10. IsFiniteSet(F) /\ Cardinality(F) = cap
  <2> DEFINE t == [k \in 1 .. cap |-> s[k]]
  <2>1. \A j, k \in 1 .. cap : t[j] = t[k] => j = k
    <3> SUFFICES ASSUME NEW j \in 1 .. cap, NEW k \in 1 .. cap, j # k PROVE s[j] # s[k]
      OBVIOUS
    <3>1. j < k \/ k < j
      OBVIOUS
    <3> QED
      BY <1>6, <1>7, <3>1
  <2>2. t \in [1 .. cap -> F] /\ \A y \in F : \E k \in 1 .. cap : t[k] = y
    OBVIOUS
  <2> HIDE DEF t, F
  <2>3. t \in Bijection(1 .. cap, F)
    BY <2>1, <2>2 DEF Bijection, Injection, Surjection, IsInjective
  <2>4. ExistsBijection(1 .. cap, F)
    BY <2>3 DEF ExistsBijection
  <2> QED
    BY <2>4, FS_CountingElements, FS_NatBijection
<1> HIDE DEF F
<1> QED
  BY <1>9, <1>10 DEF A
LEMMA RecommendIsSound ==
  ASSUME NEW market \in Seq(RowType), NEW wish \in RecommendWishes
  PROVE  RecommendSound(market, wish, RecommendAnswer(market, wish))
<1> DEFINE all == EligibleOf(market, DOMAIN market, DOMAIN market)
           E == Suitable(market, wish)
           D == Diversified(market, E, wish.cap)
           list == FirstFew(wish.top, Ranked(market, D, "advice"))
           listed == Range(list)
           NoWorse(b) == {c \in listed : market[c].advice >= market[b].advice}
           IssuedBy(b) == {c \in listed : market[c].issuer = market[b].issuer}
<1>1. wish.top \in Nat /\ wish.cap \in Nat
  BY DEF RecommendWishes
<1>2. RecommendAnswer(market, wish).list = list
  BY DEF RecommendAnswer
<1>3. E \in SUBSET DOMAIN market
  BY DEF Suitable, EligibleOf
<1>4. \A b \in all \ E : \/ wish.watched # {} /\ b \notin wish.watched /\ ~Buys(market[b])
                         \/ ShareOf(market[b].currency) \in wish.unwanted
  BY DEF Suitable
<1> HIDE DEF E
<1>5. IsFiniteSet(E) /\ E \subseteq Nat /\ \A b \in E : market[b].advice \in Nat
  <2>1. \A r \in RowType : r.advice \in Nat
    BY DEF RowType
  <2>2. IsFiniteSet(DOMAIN market) /\ \A b \in DOMAIN market : b \in Nat /\ market[b] \in RowType
    BY MarketRows
  <2>3. E \subseteq Nat /\ \A b \in E : market[b].advice \in Nat
    BY <1>3, <2>1, <2>2
  <2> QED
    BY <1>3, <2>2, <2>3, FS_Subset
<1>6. D \in SUBSET E
  BY DiversifiedIs
<1>7. ASSUME wish.cap > 0, NEW x, x # NoIssuer
      PROVE  /\ IsFiniteSet(IssuedOf(market, D, x)) /\ Cardinality(IssuedOf(market, D, x)) \in Nat
             /\ Cardinality(IssuedOf(market, D, x)) =< wish.cap
  <2>1. wish.cap \in Nat \ {0}
    BY <1>1, <1>7
  <2> QED
    BY <1>5, <1>7, <2>1, IssuersHaveTheirShare
<1>8. ASSUME NEW b \in E, b \notin D
      PROVE  /\ Capped(market[b], wish.cap)
             /\ \E F \in SUBSET D : IsFiniteSet(F) /\ Cardinality(F) = wish.cap /\ F \subseteq AheadOf(market, E, b)
  <2>1. Capped(market[b], wish.cap)
    BY <1>8, DiversifiedIs
  <2>2. wish.cap \in Nat \ {0}
    BY <1>1, <2>1 DEF Capped
  <2> QED
    BY <1>5, <1>8, <2>1, <2>2, BetterOnesStay
<1> HIDE DEF D
<1>9. FewBest(list, market, D, "advice", wish.top)
  <2>1. D \subseteq Nat /\ \A b \in D : market[b]["advice"] \in Int
    <3> SUFFICES ASSUME NEW b \in D PROVE b \in Nat /\ market[b].advice \in Int
      OBVIOUS
    <3>1. b \in E
      BY <1>6
    <3>2. b \in Nat /\ market[b].advice \in Nat
      BY <1>5, <3>1
    <3> QED
      BY <3>2
  <2>2. IsFiniteSet(D)
    <3>1. IsFiniteSet(E)
      BY <1>5
    <3> QED
      BY <1>6, <3>1, FS_Subset
  <2> QED
    BY <1>1, <2>1, <2>2, FirstAreBest
<1> HIDE DEF list
<1>10. /\ listed \in SUBSET D
       /\ \A b \in D \ listed : /\ Cardinality(listed) = wish.top
                                /\ \A c \in listed : c # b /\ Before(market, "advice", c, b)
  BY <1>9 DEF FewBest
<1> HIDE DEF listed
<1>11. ASSUME NEW b, Capped(market[b], wish.cap)
       PROVE  IsFiniteSet(IssuedBy(b)) /\ Cardinality(IssuedBy(b)) \in Nat /\ Cardinality(IssuedBy(b)) =< wish.cap
  <2> DEFINE G == IssuedOf(market, D, market[b].issuer)
             I == IssuedBy(b)
  <2>1. I \in SUBSET G
    BY <1>10 DEF IssuedOf
  <2>2. IsFiniteSet(G) /\ Cardinality(G) \in Nat /\ Cardinality(G) =< wish.cap
    BY <1>7, <1>11 DEF Capped
  <2> HIDE DEF G, I
  <2>3. IsFiniteSet(I) /\ Cardinality(I) \in Nat /\ Cardinality(I) =< wish.cap
    <3>1. IsFiniteSet(I) /\ Cardinality(I) \in Nat /\ Cardinality(I) =< Cardinality(G)
      BY <2>1, <2>2, PartIsFewer
    <3> QED
      BY <1>1, <2>2, <3>1
  <2> QED
    BY <2>3 DEF I
<1>12. ASSUME NEW b \in E, b \notin listed
       PROVE  \/ Cardinality(listed) = wish.top /\ listed \subseteq NoWorse(b)
              \/ /\ Capped(market[b], wish.cap)
                 /\ Cardinality(IssuedBy(b) \cap NoWorse(b)) = wish.cap
  <2>1. CASE b \in D
    <3>1. \A c \in listed : market[c].advice >= market[b].advice
      <4> SUFFICES ASSUME NEW c \in listed PROVE market[c].advice >= market[b].advice
        OBVIOUS
      <4>1. c \in E /\ Before(market, "advice", c, b)
        BY <1>6, <1>10, <1>12, <2>1
      <4> QED
        BY <1>5, <4>1, BeforeIsOrder
    <3> QED
      BY <1>10, <1>12, <2>1, <3>1
  <2>2. CASE b \notin D
    <3>0. Capped(market[b], wish.cap)
      BY <1>8, <2>2
    <3>1. PICK F \in SUBSET D : IsFiniteSet(F) /\ Cardinality(F) = wish.cap /\ F \subseteq AheadOf(market, E, b)
      BY <1>8, <2>2
    <3>2. \A c \in F : c \in E /\ market[c].issuer = market[b].issuer /\ Before(market, "advice", c, b)
      BY <3>1 DEF AheadOf
    <3>3. \A c \in F : market[c].advice >= market[b].advice
      BY <1>5, <3>2, BeforeIsOrder
    <3>4. CASE F \subseteq listed
      <4> DEFINE W == IssuedBy(b) \cap NoWorse(b)
                 I == IssuedBy(b)
      <4>1. F \in SUBSET W /\ W \in SUBSET I
        BY <3>2, <3>3, <3>4
      <4>2. IsFiniteSet(I) /\ Cardinality(I) =< wish.cap
        BY <1>11, <3>0
      <4> HIDE DEF W, I
      <4>3. IsFiniteSet(W) /\ Cardinality(W) =< Cardinality(I) /\ Cardinality(W) \in Nat /\ Cardinality(I) \in Nat
        BY <4>1, <4>2, PartIsFewer
      <4>4. Cardinality(F) =< Cardinality(W)
        BY <4>1, <4>3, PartIsFewer
      <4>5. Cardinality(W) = wish.cap
        BY <1>1, <3>1, <4>2, <4>3, <4>4
      <4> QED
        BY <3>0, <4>5 DEF W
    <3>5. CASE ~(F \subseteq listed)
      <4>1. PICK d \in F : d \notin listed
        BY <3>5
      <4>2. /\ d \in D /\ d \in E /\ Before(market, "advice", d, b) /\ Cardinality(listed) = wish.top
            /\ \A c \in listed : Before(market, "advice", c, d)
        BY <1>10, <3>1, <3>2, <4>1
      <4>3. ASSUME NEW c \in listed PROVE market[c].advice >= market[b].advice
        <5>1. c \in E /\ Before(market, "advice", c, d)
          BY <1>6, <1>10, <4>2
        <5>2. Before(market, "advice", c, b)
          BY <1>5, <4>2, <5>1, BeforeIsOrder
        <5> QED
          BY <1>5, <5>1, <5>2, BeforeIsOrder
      <4> QED
        BY <4>2, <4>3
    <3> QED
      BY <3>4, <3>5
  <2> QED
    BY <2>1, <2>2
<1> HIDE DEF IssuedBy, NoWorse
<1>13. \A b \in listed : Capped(market[b], wish.cap) => Cardinality(IssuedBy(b)) <= wish.cap
  BY <1>11
<1>14. \A b \in all \ listed :
          \/ wish.watched # {} /\ b \notin wish.watched /\ ~Buys(market[b])
          \/ ShareOf(market[b].currency) \in wish.unwanted
          \/ Cardinality(listed) = wish.top /\ listed \subseteq NoWorse(b)
          \/ /\ Capped(market[b], wish.cap)
             /\ Cardinality(IssuedBy(b) \cap NoWorse(b)) = wish.cap
  BY <1>4, <1>12
<1> QED
  BY <1>2, <1>13, <1>14 DEF RecommendSound, listed, IssuedBy, NoWorse

-----------------------------------------------------------------------------
(* The invariant.                                                          *)

AnswerOf(market, wish) ==
  CASE wish.kind = "strategy"  -> StrategyAnswer(market, wish)
    [] wish.kind = "custom"    -> CustomAnswer(market, wish)
    [] wish.kind = "fixed"     -> FixedAnswer(market, wish)
    [] wish.kind = "recommend" -> RecommendAnswer(market, wish)

\* An answer is the one that the market and the wish determine.
GateInv ==
  /\ basket = [market |-> basket.market, wish |-> basket.wish, answer |-> basket.answer]
  /\ basket.market \in Markets /\ basket.wish \in Wishes
  /\ basket.answer = Unanswered \/ basket.answer = AnswerOf(basket.market, basket.wish)

LEMMA GateInvHolds == GateSpec => []GateInv
<1>1. GateInit => GateInv
  BY DEF GateInit, GateInv
<1>2. GateInv /\ [GateNext]_basket => GateInv'
  <2> SUFFICES ASSUME GateInv, [GateNext]_basket PROVE GateInv'
    OBVIOUS
  <2> USE DEF GateInv, Answered, AnswerOf
  <2>1. CASE demo_portfolio_optimize
    BY <2>1 DEF demo_portfolio_optimize
  <2>2. CASE demo_custom_optimize
    BY <2>2 DEF demo_custom_optimize
  <2>3. CASE demo_custom_calculate
    BY <2>3 DEF demo_custom_calculate
  <2>4. CASE recommend_bonds
    BY <2>4 DEF recommend_bonds
  <2>5. CASE UNCHANGED basket
    BY <2>5
  <2> QED
    BY <2>1, <2>2, <2>3, <2>4, <2>5 DEF GateNext
<1> QED
  BY <1>1, <1>2, PTL DEF GateSpec

\* The gate never lets a bond in because its yield is higher, nor decides about
\* one by how far another lies out, and what the answers buy, report, list and
\* leave out is accounted for, whatever the market and the wish
\* (scoring/eligibility.py, api/demo.py, recommendations/engine.py).
THEOREM BasketsAlwaysSound == GateSpec => []BasketsSound
<1>1. GateInv => BasketsSound
  <2> SUFFICES ASSUME GateInv PROVE BasketsSound
    OBVIOUS
  <2> DEFINE m == basket.market
             wish == basket.wish
             a == basket.answer
  <2>1. m \in Seq(RowType) /\ wish \in Wishes
    BY GateAssumption DEF GateInv
  <2>2. \/ wish \in StrategyWishes \/ wish \in CustomWishes \/ wish \in RecommendWishes
        \/ wish \in FixedWishes /\ Len(wish.amounts) = Len(wish.ids)
    BY <2>1, GateAssumption
  <2>3. a # Unanswered => a = AnswerOf(m, wish)
    BY DEF GateInv
  <2> HIDE DEF m, wish, a
  <2>4. HigherYieldNeverHelps(m) /\ FartherOutlierChangesNothing(m)
    BY <2>1, HigherNeverHelps, OutliersChangeNothing
  <2>5. a # Unanswered =>
          CASE wish.kind = "strategy"  -> StrategySound(m, wish, a)
            [] wish.kind = "custom"    -> CustomSound(m, wish, a)
            [] wish.kind = "fixed"     -> FixedSound(wish, a)
            [] wish.kind = "recommend" -> RecommendSound(m, wish, a)
    <3> SUFFICES ASSUME a = AnswerOf(m, wish)
                 PROVE  CASE wish.kind = "strategy"  -> StrategySound(m, wish, a)
                          [] wish.kind = "custom"    -> CustomSound(m, wish, a)
                          [] wish.kind = "fixed"     -> FixedSound(wish, a)
                          [] wish.kind = "recommend" -> RecommendSound(m, wish, a)
      BY <2>3
    <3>1. CASE wish \in StrategyWishes
      <4>1. wish.kind = "strategy"
        BY <3>1 DEF StrategyWishes
      <4>2. StrategySound(m, wish, StrategyAnswer(m, wish))
        BY <2>1, <3>1, StrategyIsSound
      <4> QED
        BY <4>1, <4>2 DEF AnswerOf
    <3>2. CASE wish \in CustomWishes
      <4>1. wish.kind = "custom"
        BY <3>2 DEF CustomWishes
      <4>2. CustomSound(m, wish, CustomAnswer(m, wish))
        BY <2>1, <3>2, CustomIsSound
      <4> QED
        BY <4>1, <4>2 DEF AnswerOf
    <3>3. CASE wish \in FixedWishes /\ Len(wish.amounts) = Len(wish.ids)
      <4>1. wish.kind = "fixed"
        BY <3>3 DEF FixedWishes
      <4>2. FixedSound(wish, FixedAnswer(m, wish))
        BY <3>3, FixedIsSound
      <4> QED
        BY <4>1, <4>2 DEF AnswerOf
    <3>4. CASE wish \in RecommendWishes
      <4>1. wish.kind = "recommend"
        BY <3>4 DEF RecommendWishes
      <4>2. RecommendSound(m, wish, RecommendAnswer(m, wish))
        BY <2>1, <3>4, RecommendIsSound
      <4> QED
        BY <4>1, <4>2 DEF AnswerOf
    <3> QED
      BY <2>2, <3>1, <3>2, <3>3, <3>4
  <2> QED
    BY <2>4, <2>5 DEF BasketsSound, m, wish, a
<1> QED
  BY <1>1, GateInvHolds, PTL

-----------------------------------------------------------------------------
(* The coupons.                                                            *)

Day == [month : Int, day : 1 .. 31]

\* The coupon that is counted from the maturity.
MeantCoupon(t, n) == AddMonths(t.maturity, -t.step * n)

\* What is counted back from a coupon is a coupon that is meant, or earlier in
\* its month, where a short month has cost it days.
InStep(date, meant, maturity) ==
  date.month = meant.month /\ date.day =< meant.day /\ (maturity.day <= 28 => date = meant)

CouponInv(t) ==
  /\ t = [kind |-> "coupons", dates |-> t.dates, step |-> t.step, maturity |-> t.maturity, next |-> t.next]
  /\ t.step \in Nat /\ t.maturity \in Day /\ t.next \in Day /\ t.dates \in Seq(Day)
  /\ InStep(t.next, MeantCoupon(t, Len(t.dates)), t.maturity)
  /\ \A k \in 1 .. Len(t.dates) :
       InStep(t.dates[k], MeantCoupon(t, Len(t.dates) - k), t.maturity) /\ After(t.dates[k], AsOf)

LEMMA MonthDaysIs == ASSUME NEW m \in Int PROVE MonthDays(m) \in 28 .. 31
<1>1. (m - 1) % 12 \in 0 .. 11
  OBVIOUS
<1> DEFINE k == ((m - 1) % 12) + 1
<1>2. k \in 1 .. 12
  BY <1>1
<1> HIDE DEF k
<1>3. <<31, 28, 31, 30, 31, 30, 31, 31, 30, 31, 30, 31>>[k] \in 28 .. 31
  BY <1>2
<1> QED
  BY <1>3 DEF MonthDays, k

LEMMA AddMonthsIs ==
  ASSUME NEW d \in Day, NEW n \in Int
  PROVE  /\ AddMonths(d, n) \in Day /\ AddMonths(d, n).month = d.month + n
         /\ AddMonths(d, n).day = Least(d.day, MonthDays(d.month + n))
         /\ AddMonths(d, n).day =< d.day
         /\ d.day =< 28 => AddMonths(d, n).day = d.day
<1>1. d.month + n \in Int /\ d.day \in 1 .. 31
  BY DEF Day
<1>2. MonthDays(d.month + n) \in 28 .. 31
  BY <1>1, MonthDaysIs
<1> QED
  BY <1>1, <1>2 DEF AddMonths, Least, Day

LEMMA CouponRecord ==
  ASSUME NEW t, NEW a, NEW x,
         t = [kind |-> "coupons", dates |-> t.dates, step |-> t.step, maturity |-> t.maturity, next |-> t.next]
  PROVE  [t EXCEPT !.dates = a, !.next = x]
           = [kind |-> "coupons", dates |-> a, step |-> t.step, maturity |-> t.maturity, next |-> x]
<1>1. PICK d, s, m, n : t = [kind |-> "coupons", dates |-> d, step |-> s, maturity |-> m, next |-> n]
  OBVIOUS
<1>2. [t EXCEPT !.dates = a] = [kind |-> "coupons", dates |-> a, step |-> s, maturity |-> m, next |-> n]
  BY <1>1
<1> DEFINE u == [t EXCEPT !.dates = a]
<1>3. u = [kind |-> "coupons", dates |-> a, step |-> s, maturity |-> m, next |-> n]
  BY <1>2
<1> HIDE DEF u
<1>4. [u EXCEPT !.next = x] = [kind |-> "coupons", dates |-> a, step |-> s, maturity |-> m, next |-> x]
  BY <1>3
<1>5. t.step = s /\ t.maturity = m
  BY <1>1
<1> QED
  BY <1>4, <1>5 DEF u

\* One coupon further back.
LEMMA CouponStepsBack ==
  ASSUME NEW t, CouponInv(t), After(t.next, AsOf)
  PROVE  CouponInv([t EXCEPT !.dates = <<t.next>> \o @, !.next = AddMonths(@, -t.step)])
<1> DEFINE new == [t EXCEPT !.dates = <<t.next>> \o @, !.next = AddMonths(@, -t.step)]
           n == Len(t.dates)
<1>1. /\ t = [kind |-> "coupons", dates |-> t.dates, step |-> t.step, maturity |-> t.maturity, next |-> t.next]
      /\ t.step \in Nat /\ t.maturity \in Day /\ t.next \in Day /\ t.dates \in Seq(Day)
      /\ InStep(t.next, MeantCoupon(t, n), t.maturity)
      /\ \A k \in 1 .. n : InStep(t.dates[k], MeantCoupon(t, n - k), t.maturity) /\ After(t.dates[k], AsOf)
      /\ n \in Nat
  BY LenProperties DEF CouponInv
<1>2. /\ new = [kind |-> "coupons", dates |-> <<t.next>> \o t.dates, step |-> t.step, maturity |-> t.maturity,
                next |-> AddMonths(t.next, -t.step)]
  <2> DEFINE a == <<t.next>> \o t.dates
             x == AddMonths(t.next, -t.step)
  <2>1. new = [t EXCEPT !.dates = a, !.next = x]
    OBVIOUS
  <2>2. t = [kind |-> "coupons", dates |-> t.dates, step |-> t.step, maturity |-> t.maturity, next |-> t.next]
    BY <1>1
  <2> HIDE DEF a, x, new
  <2>3. [t EXCEPT !.dates = a, !.next = x]
           = [kind |-> "coupons", dates |-> a, step |-> t.step, maturity |-> t.maturity, next |-> x]
    BY <2>2, CouponRecord, Zenon
  <2> QED
    BY <2>1, <2>3 DEF a, x
<1>3. /\ new = [kind |-> "coupons", dates |-> new.dates, step |-> new.step, maturity |-> new.maturity, next |-> new.next]
      /\ new.step = t.step /\ new.maturity = t.maturity /\ new.dates = <<t.next>> \o t.dates
      /\ new.next = AddMonths(t.next, -t.step)
  BY <1>2
<1> HIDE DEF new, n
<1>4. <<t.next>> \in Seq(Day) /\ Len(<<t.next>>) = 1
  BY <1>1
<1>5. /\ new.dates \in Seq(Day) /\ Len(new.dates) = n + 1
      /\ new.dates[1] = t.next /\ \A k \in 2 .. (n + 1) : new.dates[k] = t.dates[k - 1]
  <2>1. /\ <<t.next>> \o t.dates \in Seq(Day) /\ Len(<<t.next>> \o t.dates) = 1 + n
        /\ \A i \in 1 .. (1 + n) : (<<t.next>> \o t.dates)[i] = IF i <= 1 THEN <<t.next>>[i] ELSE t.dates[i - 1]
    BY <1>1, <1>4, ConcatProperties DEF n
  <2> QED
    BY <1>1, <1>3, <2>1
<1>6. \A m \in Int : MeantCoupon(new, m) = MeantCoupon(t, m)
  BY <1>3 DEF MeantCoupon
<1>7. \A m \in Nat : -t.step * m \in Int /\ -t.step * (m + 1) = (-t.step * m) + (-t.step)
  BY <1>1
<1>8. InStep(new.next, MeantCoupon(t, n + 1), t.maturity) /\ new.next \in Day
  <2> DEFINE a == -t.step * n
             b == -t.step * (n + 1)
             old == MeantCoupon(t, n)
             meant == MeantCoupon(t, n + 1)
             s == -t.step
  <2>1. a \in Int /\ b \in Int /\ s \in Int /\ b = a + s
    BY <1>1, <1>7
  <2>2. /\ old \in Day /\ old.month = t.maturity.month + a /\ old.day =< t.maturity.day
        /\ t.maturity.day =< 28 => old.day = t.maturity.day
    BY <1>1, <2>1, AddMonthsIs DEF MeantCoupon
  <2>3. /\ meant \in Day /\ meant.month = t.maturity.month + b
        /\ meant.day = Least(t.maturity.day, MonthDays(t.maturity.month + b))
        /\ t.maturity.day =< 28 => meant.day = t.maturity.day
    BY <1>1, <2>1, AddMonthsIs DEF MeantCoupon
  <2>11. new.next = AddMonths(t.next, s)
    BY <1>3
  <2> HIDE DEF a, b, s, old, meant
  <2>12. t.next \in Day
    BY <1>1
  <2>4. /\ new.next \in Day /\ new.next.month = t.next.month + s
        /\ new.next.day = Least(t.next.day, MonthDays(t.next.month + s))
        /\ t.next.day =< 28 => new.next.day = t.next.day
    BY <2>1, <2>11, <2>12, AddMonthsIs
  <2>5. /\ t.next.month = old.month /\ t.next.day =< old.day /\ (t.maturity.day =< 28 => t.next = old)
    BY <1>1 DEF InStep, old
  <2>6. /\ t.maturity.month \in Int /\ t.maturity.day \in 1 .. 31 /\ t.next.day \in 1 .. 31 /\ old.day \in 1 .. 31
    BY <1>1, <2>2 DEF Day
  <2>7. new.next.month = meant.month
    BY <2>1, <2>2, <2>3, <2>4, <2>5, <2>6
  <2>8. t.next.month + s = t.maturity.month + b /\ MonthDays(t.maturity.month + b) \in 28 .. 31
    <3>1. t.next.month + s = t.maturity.month + b
      BY <2>1, <2>2, <2>5, <2>6
    <3> QED
      BY <3>1, <2>1, <2>6, MonthDaysIs
  <2>9. new.next.day =< meant.day
    <3>1. new.next.day = Least(t.next.day, MonthDays(t.maturity.month + b))
      BY <2>4, <2>8
    <3>2. t.next.day =< t.maturity.day
      BY <2>2, <2>5, <2>6
    <3> QED
      BY <2>3, <2>6, <2>8, <3>1, <3>2 DEF Least
  <2>10. ASSUME t.maturity.day =< 28 PROVE new.next = meant
    <3>1. new.next.day = meant.day
      BY <2>10, <2>2, <2>3, <2>4, <2>5, <2>6
    <3> QED
      BY <2>3, <2>4, <2>7, <3>1 DEF Day
  <2> QED
    BY <2>4, <2>7, <2>9, <2>10 DEF InStep, meant
<1>9. ASSUME NEW k \in 1 .. (n + 1)
      PROVE  InStep(new.dates[k], MeantCoupon(t, n + 1 - k), t.maturity) /\ After(new.dates[k], AsOf)
  <2>1. CASE k = 1
    BY <1>1, <1>5, <2>1
  <2>2. CASE k # 1
    <3>1. k - 1 \in 1 .. n /\ n - (k - 1) = n + 1 - k /\ k \in 2 .. (n + 1)
      BY <1>1, <2>2
    <3> QED
      BY <1>1, <1>5, <3>1
  <2> QED
    BY <2>1, <2>2
<1>10. \A k \in 1 .. (n + 1) : n + 1 - k \in Int
  BY <1>1
<1> QED
  <2>1. InStep(new.next, MeantCoupon(new, Len(new.dates)), new.maturity)
    <3>1. n + 1 \in Int
      BY <1>1
    <3>2. MeantCoupon(new, Len(new.dates)) = MeantCoupon(t, n + 1)
      BY <1>5, <1>6, <3>1
    <3> QED
      BY <1>3, <1>8, <3>2
  <2>2. \A k \in 1 .. Len(new.dates) :
           InStep(new.dates[k], MeantCoupon(new, Len(new.dates) - k), new.maturity) /\ After(new.dates[k], AsOf)
    BY <1>1, <1>3, <1>5, <1>6, <1>9, <1>10
  <2>3. CouponInv(new)
    BY <1>1, <1>3, <1>5, <1>8, <2>1, <2>2 DEF CouponInv
  <2> QED
    BY <2>3 DEF new

LEMMA CouponsStay == ASSUME NEW t, CouponInv(t) PROVE CouponsInStep(t)
<1>1. t.dates \in Seq(Day) /\ t.step \in Nat /\ t.maturity \in Day
      /\ \A k \in 1 .. Len(t.dates) :
           InStep(t.dates[k], MeantCoupon(t, Len(t.dates) - k), t.maturity) /\ After(t.dates[k], AsOf)
  BY DEF CouponInv
<1>2. DOMAIN t.dates = 1 .. Len(t.dates)
  BY <1>1, LenProperties
<1> QED
  BY <1>1, <1>2 DEF CouponsInStep, InStep, MeantCoupon

LEMMA CouponsStart ==
  ASSUME NEW step \in CouponSteps, NEW day \in CouponDays
  PROVE  CouponInv([kind |-> "coupons", dates |-> << >>, step |-> step, maturity |-> [month |-> 20, day |-> day],
                    next |-> [month |-> 20, day |-> day]])
<1> DEFINE d == [month |-> 20, day |-> day]
           t == [kind |-> "coupons", dates |-> << >>, step |-> step, maturity |-> d, next |-> d]
<1>1. step \in Nat /\ day \in 1 .. 31
  BY FiguresAssumption DEF FiguresAssumption
<1>2. d \in Day /\ -step * 0 = 0 /\ d.month = 20 /\ d.day = day
  BY <1>1 DEF Day
<1>3. MonthDays(20) = 31
  <2>1. ((20 - 1) % 12) + 1 = 8
    OBVIOUS
  <2> QED
    BY <2>1 DEF MonthDays
<1> HIDE DEF d
<1>4. AddMonths(d, -step * 0) = d
  <2> DEFINE z == -step * 0
  <2>1. z = 0 /\ z \in Int
    BY <1>2
  <2> HIDE DEF z
  <2>2. AddMonths(d, z) \in Day /\ AddMonths(d, z).month = d.month + z /\ AddMonths(d, z).day = Least(d.day, MonthDays(d.month + z))
    BY <1>2, <2>1, AddMonthsIs
  <2>3. d.month + z = 20
    BY <1>2, <2>1
  <2>4. AddMonths(d, z).day = d.day
    BY <1>1, <1>2, <1>3, <2>2, <2>3 DEF Least
  <2>5. AddMonths(d, z) = d
    BY <1>2, <2>2, <2>3, <2>4 DEF Day
  <2> QED
    BY <2>5 DEF z
<1>5. InStep(t.next, MeantCoupon(t, Len(t.dates)), t.maturity)
  BY <1>2, <1>4 DEF InStep, MeantCoupon, Day
<1>6. CouponInv(t)
  BY <1>1, <1>2, <1>5 DEF CouponInv
<1> QED
  BY <1>6 DEF d

-----------------------------------------------------------------------------
(* The lots of a basket.                                                   *)

\* A bond of which no further lot is bought: it is dearer than what is left, or
\* the capital was too small for any lot by weight, and it has its one.
Done(o, acc, i) == o.price[i] > acc.left \/ (acc.lots[i] = 1 /\ SumOf(LotsByWeight(o)) = 0)

LEMMA DivisionLeaves ==
  ASSUME NEW x \in Nat, NEW p \in Nat, p > 0
  PROVE  /\ x \div p \in Nat /\ x - (x \div p) * p \in 0 .. (p - 1)
         /\ x \div p = 0 => x < p
<1>1. x \div p \in Nat /\ p * (x \div p) =< x /\ x < p * (x \div p) + p
  OBVIOUS
<1> DEFINE q == x \div p
<1>2. p * q = q * p /\ q * p \in Int /\ (q = 0 => p * q = 0)
  <2> HIDE DEF q
  <2>1. q \in Nat
    BY <1>1 DEF q
  <2> QED
    BY <2>1
<1>3. q \in Nat /\ p * q =< x /\ x < p * q + p
  BY <1>1
<1>4. x - q * p \in 0 .. (p - 1) /\ (q = 0 => x < p)
  <2> HIDE DEF q
  <2> QED
    BY <1>2, <1>3
<1> QED
  BY <1>1, <1>4

LEMMA SpendingLess ==
  ASSUME NEW x \in Nat, NEW m \in Nat, NEW p \in Nat
  PROVE  m * p \in Nat /\ x - m * p \in Int /\ x - m * p =< x
<1>1. m * p \in Nat
  OBVIOUS
<1> QED
  BY <1>1

\* One bond more, and as many lots of it as the rest allows.
LEMMA BuyOneDone ==
  ASSUME NEW o, NEW n, Order(o, n), NEW acc, Bargain(o, n, acc), NEW i \in 1 .. n,
         SumOf(LotsByWeight(o)) = 0 => acc.lots[i] = 0,
         NEW b, b = Buy(o, acc, i, IF SumOf(LotsByWeight(o)) = 0 THEN Least(1, acc.left \div o.price[i])
                                   ELSE acc.left \div o.price[i])
  PROVE  /\ Done(o, b, i)
         /\ \A j \in 1 .. n : j # i /\ Done(o, acc, j) => Done(o, b, j)
         /\ \A j \in 1 .. n : j # i => b.lots[j] = acc.lots[j]
<1> DEFINE none == SumOf(LotsByWeight(o)) = 0
           most == acc.left \div o.price[i]
           more == IF none THEN Least(1, most) ELSE most
           p == o.price[i]
           lots == [acc.lots EXCEPT ![i] = @ + more]
           left == acc.left - more * p
<1>12. most = acc.left \div p /\ more = IF none THEN Least(1, most) ELSE most
  OBVIOUS
<1>13. none => acc.lots[i] = 0
  OBVIOUS
<1> HIDE DEF more, most
<1>1. /\ acc.lots \in [1 .. n -> Nat] /\ acc.left \in Nat /\ p \in Nat /\ p > 0 /\ \A j \in 1 .. n : o.price[j] \in Nat
  BY DEF Bargain, Order
<1>2. b = [left |-> left, lots |-> lots]
  BY DEF Buy, more, most
<1>3. lots[i] = acc.lots[i] + more /\ \A j \in 1 .. n : j # i => lots[j] = acc.lots[j]
  BY <1>1
<1>4. left = acc.left - more * p
  OBVIOUS
<1> HIDE DEF left
<1>5. most \in Nat /\ acc.left - most * p \in 0 .. (p - 1) /\ (most = 0 => acc.left < p)
  <2>1. acc.left \in Nat /\ p \in Nat /\ p > 0 /\ most = acc.left \div p
    BY <1>1, <1>12
  <2> HIDE DEF p
  <2> QED
    BY <2>1, DivisionLeaves
<1>6. more \in Nat /\ more * p \in Nat /\ left =< acc.left /\ left \in Int
  <2>1. more \in Nat
    BY <1>5, <1>12 DEF Least
  <2> HIDE DEF p
  <2>2. p \in Nat /\ acc.left \in Nat
    BY <1>1 DEF p
  <2>3. more * p \in Nat /\ acc.left - more * p \in Int /\ acc.left - more * p =< acc.left
    BY <2>1, <2>2, SpendingLess
  <2> QED
    BY <1>4, <2>1, <2>3
<1> HIDE DEF p, lots
<1>7. ASSUME ~none PROVE p > left
  <2>1. more = most
    BY <1>7, <1>12
  <2> QED
    BY <1>1, <1>4, <1>5, <2>1
<1>8. ASSUME none PROVE p > left \/ lots[i] = 1
  <2>1. CASE most = 0
    <3>1. more = 0
      BY <1>8, <1>12, <2>1 DEF Least
    <3> QED
      BY <1>1, <1>5, <1>6, <2>1
  <2>2. CASE most # 0
    <3>1. more = 1
      BY <1>5, <1>8, <1>12, <2>2 DEF Least
    <3>2. acc.lots[i] = 0
      BY <1>8, <1>13
    <3> QED
      BY <1>3, <3>1, <3>2
  <2> QED
    BY <2>1, <2>2
<1> DEFINE new == [left |-> left, lots |-> lots]
<1>9. new.left = left /\ new.lots = lots
  OBVIOUS
<1> HIDE DEF new
<1>10. Done(o, new, i)
  BY <1>7, <1>8, <1>9 DEF Done, p, none
<1>11. ASSUME NEW j \in 1 .. n, j # i, Done(o, acc, j) PROVE Done(o, new, j)
  <2>1. lots[j] = acc.lots[j] /\ o.price[j] \in Nat
    BY <1>1, <1>3, <1>11
  <2>2. CASE o.price[j] > acc.left
    <3>1. o.price[j] > new.left
      BY <1>1, <1>6, <1>9, <2>1, <2>2
    <3> QED
      BY <3>1 DEF Done
  <2>3. CASE acc.lots[j] = 1 /\ SumOf(LotsByWeight(o)) = 0
    BY <1>9, <2>1, <2>3 DEF Done
  <2> QED
    BY <1>11, <2>2, <2>3 DEF Done
<1> QED
  BY <1>2, <1>3, <1>9, <1>10, <1>11 DEF new

\* What is left after the whole purchase buys no further lot.
LEMMA BuyMoreIsDone ==
  ASSUME NEW o, NEW n, Order(o, n)
  PROVE  \A i \in Candidates(o) : Done(o, BuyMore(o), i)
<1> DEFINE order == ByWeight(o)
           K == Len(order)
           first == LotsByWeight(o)
           f == Purchase(o)
           none == SumOf(first) = 0
           P(k) == /\ Bargain(o, n, f[k])
                   /\ \A j \in 1 .. k : Done(o, f[k], order[j])
                   /\ none => \A j \in (k + 1) .. K : f[k].lots[order[j]] = 0
           Good == {k \in Nat : k =< K => P(k)}
<1>1. /\ K \in Nat /\ order \in [1 .. K -> Candidates(o)]
      /\ \A i \in Candidates(o) : \E k \in 1 .. K : order[k] = i
      /\ \A j, k \in 1 .. K : j < k => order[j] # order[k]
      /\ Candidates(o) = {i \in 1 .. n : o.weight[i] > 0}
  BY ByWeightOrders
<1>2. (\A k \in 0 .. K : f[k] = OneMore(o, first, order, f, k)) /\ BuyMore(o) = f[K]
  <2>1. f = [k \in 0 .. K |-> OneMore(o, first, order, f, k)] /\ BuyMore(o) = f[K]
    BY <1>1, PurchaseIs
  <2> HIDE DEF f, order, K, first
  <2> QED
    BY <2>1
<1>8. none => \A i \in 1 .. n : first[i] = 0
  <2>1. first \in [1 .. n -> Nat]
    BY FirstLots
  <2>2. IsFiniteSet(1 .. n)
    <3>1. first \in [1 .. n -> Int]
      BY <2>1
    <3> QED
      BY <3>1, CostIs
  <2>3. SumOf(first) = Sums(first)[1 .. n]
    BY <2>1, SumOfIsSum
  <2> HIDE DEF first
  <2>4. \A i \in 1 .. n : first[i] \in Nat /\ first[i] =< Sums(first)[1 .. n]
    <3>1. DOMAIN first = 1 .. n /\ \A i \in 1 .. n : first[i] \in Nat
      BY <2>1
    <3> QED
      BY <2>2, <3>1, SumsAreNat
  <2> QED
    BY <2>3, <2>4
<1> HIDE DEF f
<1>3. 0 \in Good
  <2>1. f[0] = [left |-> o.capital - Cost(o, first), lots |-> first]
    <3>1. 0 \in 0 .. K
      BY <1>1
    <3> QED
      BY <1>2, <3>1 DEF OneMore
  <2>2. /\ first \in [1 .. n -> Nat] /\ \A i \in 1 .. n : o.weight[i] = 0 => first[i] = 0
    BY FirstLots
  <2>3. Cost(o, first) \in Int /\ Cost(o, first) =< o.capital /\ o.capital \in Nat
    BY FirstLots DEF Order
  <2>6. \A j \in 1 .. K : order[j] \in 1 .. n
    BY <1>1
  <2> HIDE DEF first
  <2>4. o.capital - Cost(o, first) \in Nat /\ Cost(o, first) + (o.capital - Cost(o, first)) = o.capital
    BY <2>3
  <2>5. Bargain(o, n, f[0])
    BY <2>1, <2>2, <2>4 DEF Bargain
  <2>7. none => \A j \in (0 + 1) .. K : f[0].lots[order[j]] = 0
    <3> HIDE DEF none, order, K
    <3> QED
      BY <1>8, <2>1, <2>6
  <2> QED
    BY <2>5, <2>7
<1>4. ASSUME NEW k \in Good PROVE k + 1 \in Good
  <2> SUFFICES ASSUME k + 1 =< K PROVE P(k + 1)
    OBVIOUS
  <2>1. k \in Nat /\ k \in 0 .. K /\ k + 1 \in 0 .. K /\ k + 1 \in 1 .. K
    BY <1>1
  <2>2. P(k)
    BY <2>1
  <2> DEFINE i == order[k + 1]
             acc == f[k]
             most == acc.left \div o.price[i]
             more == IF none THEN Least(1, most) ELSE most
             new == Buy(o, acc, i, more)
  <2>3. i \in 1 .. n /\ o.weight[i] > 0
    BY <1>1, <2>1
  <2>4. f[k + 1] = new
    <3>1. f[k + 1] = OneMore(o, first, order, f, k + 1)
      BY <1>2, <2>1
    <3>2. (k + 1) - 1 = k /\ k + 1 # 0
      BY <2>1
    <3> QED
      BY <3>1, <3>2 DEF OneMore
  <2>5. more = most \/ more = Least(1, most)
    OBVIOUS
  <2>6. Bargain(o, n, acc) /\ (none => acc.lots[i] = 0)
    <3>1. k + 1 \in (k + 1) .. K
      BY <1>1, <2>1
    <3> QED
      BY <2>2, <3>1
  <2>7. most = acc.left \div o.price[i] /\ more = IF none THEN Least(1, most) ELSE most
    OBVIOUS
  <2>10. none \in BOOLEAN /\ none = (SumOf(LotsByWeight(o)) = 0)
    OBVIOUS
  <2>11. new = Buy(o, acc, i, more)
    OBVIOUS
  <2>16. none => acc.lots[i] = 0
    <3>1. k + 1 \in (k + 1) .. K
      BY <1>1, <2>1
    <3> QED
      BY <2>2, <3>1
  <2> HIDE DEF more, most, acc, i, none, new
  <2>8. Bargain(o, n, new)
    BY <2>3, <2>5, <2>6, <2>7, <2>11, BuyOne
  <2>12. /\ Done(o, new, i)
         /\ \A j \in 1 .. n : j # i /\ Done(o, acc, j) => Done(o, new, j)
         /\ \A j \in 1 .. n : j # i => new.lots[j] = acc.lots[j]
    <3>1. new = Buy(o, acc, i, IF SumOf(LotsByWeight(o)) = 0 THEN Least(1, acc.left \div o.price[i])
                                ELSE acc.left \div o.price[i])
      BY <2>7, <2>10, <2>11
    <3>2. SumOf(LotsByWeight(o)) = 0 => acc.lots[i] = 0
      BY <2>10, <2>16
    <3>3. i \in 1 .. n /\ Bargain(o, n, acc) /\ Order(o, n)
      BY <2>3, <2>6
    <3> HIDE DEF first, K, order, P, Good
    <3> QED
      BY <3>1, <3>2, <3>3, BuyOneDone
  <2>13. \A j \in 1 .. K : order[j] \in 1 .. n /\ (j # k + 1 => order[j] # i)
    <3>1. \A j \in 1 .. K : j # k + 1 => j < k + 1 \/ k + 1 < j
      BY <1>1, <2>1
    <3> QED
      BY <1>1, <2>1, <3>1 DEF i
  <2>9. ASSUME NEW j \in 1 .. (k + 1) PROVE Done(o, new, order[j])
    <3>1. CASE j = k + 1
      BY <2>12, <3>1 DEF i
    <3>2. CASE j # k + 1
      <4>1. j \in 1 .. k /\ j \in 1 .. K
        BY <1>1, <2>1, <3>2
      <4> QED
        BY <2>2, <2>12, <2>13, <4>1, <3>2 DEF acc
    <3> QED
      BY <3>1, <3>2
  <2>14. ASSUME none, NEW j \in (k + 2) .. K PROVE new.lots[order[j]] = 0
    <3>1. j \in (k + 1) .. K /\ j \in 1 .. K /\ j # k + 1
      BY <1>1, <2>1
    <3> QED
      BY <2>2, <2>12, <2>13, <2>14, <3>1 DEF acc
  <2>15. (k + 1) + 1 = k + 2
    BY <2>1
  <2> QED
    BY <2>4, <2>8, <2>9, <2>14, <2>15
<1> HIDE DEF P
<1>5. Good = Nat
  <2> HIDE DEF Good
  <2>1. Good \in SUBSET Nat
    BY DEF Good
  <2> QED
    BY <1>3, <1>4, <2>1, NatSetInduction
<1>6. P(K)
  BY <1>1, <1>5
<1>7. ASSUME NEW i \in Candidates(o) PROVE Done(o, BuyMore(o), i)
  <2>1. PICK k \in 1 .. K : order[k] = i
    BY <1>1, <1>7
  <2> QED
    BY <1>2, <1>6, <2>1 DEF P
<1> QED
  BY <1>7

\* Rounding gives a whole number.
LEMMA RoundedType == ASSUME NEW a \in Nat, NEW d \in Nat \ {0} PROVE Rounded(a, d) \in Int
<1>1. a \div d \in Int
  OBVIOUS
<1> QED
  BY <1>1 DEF Rounded

\* The shares by score are the capital.
LEMMA SplitIsWhole ==
  ASSUME NEW o, NEW n, Order(o, n), n # 0
  PROVE  SumOf(Split(o)) = o.capital
<1> DEFINE some == Candidates(o)
           kept == IF some = {} THEN DOMAIN o.weight ELSE some
           sum == IF some = {} THEN 1 ELSE SumOf(o.weight)
           items == [i \in kept |-> Rounded(o.capital * o.weight[i], sum)]
           m == Min(kept)
           gap == o.capital - SumOf(items)
           all == [items EXCEPT ![m] = @ + o.capital - SumOf(items)]
<1>1. /\ n \in Nat /\ o.capital \in Nat /\ DOMAIN o.weight = 1 .. n /\ (\A i \in 1 .. n : o.weight[i] \in Nat)
      /\ some = {i \in 1 .. n : o.weight[i] > 0}
  BY DEF Order, Candidates
<1>2. IsFiniteSet(1 .. n)
  BY <1>1, Segment
<1>3. sum \in Nat /\ sum # 0
  <2>1. CASE some = {}
    BY <2>1
  <2>2. CASE some # {}
    <3>1. PICK i \in 1 .. n : o.weight[i] > 0
      BY <1>1, <2>2
    <3>2. SumOf(o.weight) = Sums(o.weight)[1 .. n]
      BY <1>1, SumOfIsSum
    <3>3. Sums(o.weight)[1 .. n] \in Nat /\ o.weight[i] =< Sums(o.weight)[1 .. n]
      BY <1>1, <1>2, SumsAreNat
    <3> QED
      BY <1>1, <2>2, <3>1, <3>2, <3>3
  <2> QED
    BY <2>1, <2>2
<1>4. kept \in SUBSET (1 .. n) /\ kept # {} /\ kept \in SUBSET Nat
  <2>1. 1 \in 1 .. n
    BY <1>1
  <2> QED
    BY <1>1, <2>1
<1>5. m \in kept
  BY <1>4, MinOf
<1>6. IsFiniteSet(kept)
  BY <1>2, <1>4, FS_Subset
<1> HIDE DEF some, kept, sum, m
<1>7. items \in [kept -> Int]
  <2>1. ASSUME NEW i \in kept PROVE Rounded(o.capital * o.weight[i], sum) \in Int
    <3>1. o.capital * o.weight[i] \in Nat
      BY <1>1, <1>4, TimesPositive
    <3> QED
      BY <1>3, <3>1, RoundedType
  <2> QED
    BY <2>1
<1> HIDE DEF items
<1>8. SumOf(items) = Sums(items)[kept] /\ Sums(items)[kept] \in Int
  <2>1. DOMAIN items = kept /\ \A i \in kept : items[i] \in Int
    BY <1>7
  <2>2. SumOf(items) = Sums(items)[kept]
    BY <2>1, SumOfIsSum
  <2> QED
    BY <1>6, <2>1, <2>2, SumsAddUp DEF AddsUp
<1>9. all \in [kept -> Int] /\ all[m] = items[m] + o.capital - SumOf(items) /\ \A i \in kept \ {m} : all[i] = items[i]
  BY <1>1, <1>5, <1>7, <1>8
<1>10. Split(o) = all
  BY DEF Split, all, items, kept, some, sum, m
<1> HIDE DEF all
<1>11. SumOf(all) = Sums(all)[kept]
  BY <1>9, SumOfIsSum
<1>12. Sums(all)[kept] = Sums(items)[kept] + all[m] - items[m]
  <2>1. items \in Values(kept) /\ all \in Values(kept)
    BY <1>7, <1>9 DEF Values
  <2>2. \A x \in kept \ {m} : items[x] = all[x]
    BY <1>9
  <2> QED
    BY <1>5, <1>6, <2>1, <2>2, SumsChange
<1>13. items[m] \in Int
  BY <1>5, <1>7
<1> QED
  BY <1>1, <1>8, <1>9, <1>10, <1>11, <1>12, <1>13

\* What is bought for a basket.
LEMMA BasketIsFilled ==
  ASSUME NEW o \in Baskets, NEW t, t.basket = o, t.lots = BuyMore(o).lots, t.left = BuyMore(o).left,
         t.split = Split(o), t.lots # << >>
  PROVE  BasketFits(t)
<1> DEFINE n == Len(o.weight)
<1>1. Order(o, n) /\ n \in Nat
  <2>1. o.capital \in Nat /\ o.weight \in Seq(Nat) /\ o.price \in Seq(Nat \ {0}) /\ Len(o.weight) = Len(o.price)
    BY FiguresAssumption DEF FiguresAssumption
  <2>2. n \in Nat /\ o.weight \in [1 .. n -> Nat] /\ o.price \in [1 .. n -> Nat \ {0}]
    BY <2>1, LenProperties
  <2> QED
    BY <2>1, <2>2 DEF Order
<1> HIDE DEF n
<1>2. Bargain(o, n, BuyMore(o)) /\ \A i \in Candidates(o) : Done(o, BuyMore(o), i)
  BY <1>1, BuyMoreIsBargain, BuyMoreIsDone
<1>3. n # 0
  <2> SUFFICES ASSUME n = 0 PROVE FALSE
    OBVIOUS
  <2>1. t.lots \in [1 .. 0 -> Nat]
    BY <1>2 DEF Bargain
  <2>2. t.lots = << >>
    BY <2>1
  <2> QED
    BY <2>2
<1>4. SumOf(Split(o)) = o.capital
  BY <1>1, <1>3, SplitIsWhole
<1> QED
  BY <1>2, <1>4 DEF BasketFits, Bargain, Done

-----------------------------------------------------------------------------
(* The backtest.                                                           *)

QuotedRow == [price : Nat \ {0}, ytm : Nat] \cup {NoRow}

\* A study of n bonds over so many days.
Typed(s, n, days) ==
  /\ n \in Nat /\ days \in Nat
  /\ \A i \in 1 .. 2 :
       /\ DOMAIN s.today[i] = 1 .. n /\ DOMAIN s.rows[i] = 1 .. n
       /\ \A b \in 1 .. n : /\ s.today[i][b] \in Int
                            /\ DOMAIN s.rows[i][b] = 1 .. days
                            /\ \A d \in 1 .. days : s.rows[i][b][d] \in QuotedRow

LEMMA RowIs ==
  /\ \A r \in QuotedRow : r.price \in Nat /\ r.ytm \in Nat /\ (r # NoRow => r.price > 0)
  /\ NoRow.price = 0 /\ NoRow \in QuotedRow
BY DEF QuotedRow, NoRow

\* What is known of a bond on a day is its last row.
LEMMA SnapshotIs ==
  ASSUME NEW s, NEW n, NEW days, Typed(s, n, days), NEW i \in 1 .. 2, NEW b \in 1 .. n, NEW day \in Nat,
         NEW known, known = Rows(s.rows[i], b, day), NEW row, row = Snapshot(s.rows[i], b, day)
  PROVE  /\ known = {d \in 1 .. days : d =< day /\ s.rows[i][b][d] # NoRow}
         /\ row \in QuotedRow
         /\ known = {} => row = NoRow
         /\ known # {} => row # NoRow /\ \E d \in known : row = s.rows[i][b][d]
<1>1. /\ DOMAIN s.rows[i][b] = 1 .. days /\ days \in Nat
      /\ \A d \in 1 .. days : s.rows[i][b][d] \in QuotedRow
  BY DEF Typed
<1>2. known = {d \in 1 .. days : d =< day /\ s.rows[i][b][d] # NoRow}
  BY <1>1 DEF Rows
<1>3. row = IF known = {} THEN NoRow ELSE s.rows[i][b][CHOOSE d \in known : \A e \in known : e =< d]
  BY DEF Snapshot
<1>4. ASSUME known # {} PROVE row # NoRow /\ row \in QuotedRow /\ \E d \in known : row = s.rows[i][b][d]
  <2>1. \E d \in known : \A e \in known : e =< d
    <3>1. IsFiniteSet(known)
      <4>1. IsFiniteSet(1 .. days)
        BY <1>1, Segment
      <4> QED
        BY <1>2, <4>1, FS_Subset
    <3> DEFINE p == [e \in known |-> e]
    <3>2. \A e \in known : p[e] \in Int /\ p[e] = e
      BY <1>2
    <3> HIDE DEF p
    <3>3. \E x \in known : \A e \in known : p[e] =< p[x]
      BY <1>4, <3>1, <3>2, ExtremeValues
    <3> QED
      BY <3>2, <3>3
  <2>2. (CHOOSE d \in known : \A e \in known : e =< d) \in known
    BY <2>1
  <2> QED
    BY <1>1, <1>2, <1>3, <1>4, <2>2
<1> QED
  BY <1>2, <1>3, <1>4, RowIs

\* Two histories that agree up to a day give one snapshot of it.
LEMMA SameSnapshots ==
  ASSUME NEW s, NEW n, NEW days, Typed(s, n, days), NEW day \in 0 .. days, SameSoFar(s, day), NEW b \in 1 .. n
  PROVE  /\ Rows(s.rows[1], b, day) = Rows(s.rows[2], b, day)
         /\ Snapshot(s.rows[1], b, day) = Snapshot(s.rows[2], b, day)
<1>1. /\ days \in Nat /\ 1 \in 1 .. 2 /\ 2 \in 1 .. 2 /\ day \in Nat /\ DOMAIN s.today[1] = 1 .. n
  BY DEF Typed
<1>2. \A d \in 1 .. day : s.rows[1][b][d] = s.rows[2][b][d]
  BY <1>1 DEF SameSoFar
<1>3. /\ Rows(s.rows[1], b, day) = {d \in 1 .. days : d =< day /\ s.rows[1][b][d] # NoRow}
      /\ Rows(s.rows[2], b, day) = {d \in 1 .. days : d =< day /\ s.rows[2][b][d] # NoRow}
  BY <1>1, SnapshotIs
<1>4. \A d \in 1 .. days : d =< day => d \in 1 .. day
  BY <1>1
<1>5. Rows(s.rows[1], b, day) = Rows(s.rows[2], b, day)
  BY <1>2, <1>3, <1>4
<1> DEFINE known == Rows(s.rows[1], b, day)
<1>6. \A d \in known : s.rows[1][b][d] = s.rows[2][b][d]
  BY <1>2, <1>3, <1>4
<1>7. ASSUME known # {} PROVE Snapshot(s.rows[1], b, day) = Snapshot(s.rows[2], b, day)
  <2> DEFINE m == CHOOSE d \in known : \A e \in known : e =< d
  <2>1. Snapshot(s.rows[1], b, day) = s.rows[1][b][m] /\ Snapshot(s.rows[2], b, day) = s.rows[2][b][m]
    BY <1>5, <1>7 DEF Snapshot
  <2>2. m \in known
    <3>1. \E d \in known : \A e \in known : e =< d
      <4>1. IsFiniteSet(known)
        <5>1. IsFiniteSet(1 .. days)
          BY <1>1, Segment
        <5> QED
          BY <1>3, <5>1, FS_Subset
      <4> DEFINE p == [e \in known |-> e]
      <4>2. \A e \in known : p[e] \in Int /\ p[e] = e
        BY <1>3
      <4> HIDE DEF p, known
      <4>3. \E x \in known : \A e \in known : p[e] =< p[x]
        BY <1>7, <4>1, <4>2, ExtremeValues
      <4> QED
        BY <4>2, <4>3
    <3> QED
      BY <3>1
  <2> QED
    BY <1>6, <2>1, <2>2
<1> QED
  BY <1>5, <1>7 DEF Snapshot

\* What was the same up to a day was the same up to the day before.
LEMMA SameBefore ==
  ASSUME NEW s, NEW n, NEW days, Typed(s, n, days), NEW day \in Nat, day < days, SameSoFar(s, day + 1)
  PROVE  SameSoFar(s, day)
<1>1. days \in Nat /\ DOMAIN s.today[1] = 1 .. n /\ 1 \in 1 .. 2
  BY DEF Typed
<1>2. \A d \in 1 .. day : d \in 1 .. (day + 1)
  OBVIOUS
<1>3. ASSUME NEW b \in Unquoted(s, 1, day) PROVE b \in Unquoted(s, 1, day + 1)
  <2>1. /\ b \in 1 .. n /\ Snapshot(s.rows[1], b, day) # NoRow
        /\ \E d \in 1 .. day : d \in Rows(s.rows[1], b, day) /\ s.rows[1][b][d].ytm = 0
    BY <1>1 DEF Unquoted, Scored
  <2>2. /\ Rows(s.rows[1], b, day) = {d \in 1 .. days : d =< day /\ s.rows[1][b][d] # NoRow}
        /\ Rows(s.rows[1], b, day + 1) = {d \in 1 .. days : d =< day + 1 /\ s.rows[1][b][d] # NoRow}
        /\ Rows(s.rows[1], b, day + 1) # {} => Snapshot(s.rows[1], b, day + 1) # NoRow
    <3> DEFINE more == day + 1
               later == Rows(s.rows[1], b, more)
               next == Snapshot(s.rows[1], b, more)
    <3>1. more \in Nat /\ DOMAIN s.rows[1][b] = 1 .. days /\ b \in 1 .. n
      BY <1>1, <2>1 DEF Typed
    <3>2. /\ Rows(s.rows[1], b, day) = {d \in 1 .. days : d =< day /\ s.rows[1][b][d] # NoRow}
          /\ later = {d \in 1 .. days : d =< more /\ s.rows[1][b][d] # NoRow}
      BY <3>1 DEF Rows
    <3>3. later = Rows(s.rows[1], b, more) /\ next = Snapshot(s.rows[1], b, more)
      OBVIOUS
    <3> HIDE DEF more, later, next
    <3>4. later # {} => next # NoRow
      BY <1>1, <3>1, <3>3, SnapshotIs, SMTT(30)
    <3> QED
      BY <3>2, <3>4 DEF later, next, more
  <2>3. PICK d \in 1 .. day : d \in Rows(s.rows[1], b, day) /\ s.rows[1][b][d].ytm = 0
    BY <2>1
  <2>4. d \in Rows(s.rows[1], b, day + 1) /\ d \in 1 .. (day + 1)
    BY <1>1, <2>2, <2>3
  <2> QED
    BY <1>1, <2>1, <2>2, <2>3, <2>4 DEF Unquoted, Scored
<1> QED
  BY <1>1, <1>2, <1>3 DEF SameSoFar

\* Studies that agree up to a day choose the same bonds on it.
LEMMA SameChoice ==
  ASSUME NEW s, NEW n, NEW days, Typed(s, n, days), NEW day \in 0 .. days, SameSoFar(s, day)
  PROVE  Selected(s, 1, day) = Selected(s, 2, day)
<1>1. days \in Nat /\ day \in Nat /\ DOMAIN s.today[1] = 1 .. n /\ DOMAIN s.today[2] = 1 .. n /\ 1 \in 1 .. 2
  BY DEF Typed
<1>2. \A b \in 1 .. n : Snapshot(s.rows[1], b, day) = Snapshot(s.rows[2], b, day)
  BY SameSnapshots
<1>3. Scored(s, 1, day) = Scored(s, 2, day) /\ Scored(s, 1, day) \subseteq 1 .. n
  BY <1>1, <1>2 DEF Scored
<1>4. ASSUME NEW b \in Scored(s, 1, day) PROVE Score(s, 1, b, day) = Score(s, 2, b, day)
  <2> DEFINE row == Snapshot(s.rows[1], b, day)
  <2>1. b \in 1 .. n /\ row # NoRow
    BY <1>1 DEF Scored
  <2>2. row.ytm = 0 => b \in Unquoted(s, 1, day)
    <3>1. /\ Rows(s.rows[1], b, day) = {d \in 1 .. days : d =< day /\ s.rows[1][b][d] # NoRow}
          /\ Rows(s.rows[1], b, day) = {} => row = NoRow
          /\ Rows(s.rows[1], b, day) # {} => \E d \in Rows(s.rows[1], b, day) : row = s.rows[1][b][d]
      <4> DEFINE known == Rows(s.rows[1], b, day)
      <4>1. row = Snapshot(s.rows[1], b, day) /\ known = Rows(s.rows[1], b, day) /\ b \in 1 .. n
        BY <2>1
      <4> HIDE DEF row, known
      <4>2. /\ known = {d \in 1 .. days : d =< day /\ s.rows[1][b][d] # NoRow}
            /\ known = {} => row = NoRow
            /\ known # {} => row # NoRow /\ \E d \in known : row = s.rows[1][b][d]
        BY <1>1, <4>1, SnapshotIs
      <4> QED
        BY <4>2 DEF known
    <3>2. PICK d \in Rows(s.rows[1], b, day) : row = s.rows[1][b][d]
      BY <2>1, <3>1
    <3>3. d \in 1 .. day
      BY <1>1, <3>1, <3>2
    <3> HIDE DEF row
    <3> QED
      BY <3>2, <3>3 DEF Unquoted
  <2>3. row.ytm = 0 => s.today[1][b] = s.today[2][b]
    BY <2>2 DEF SameSoFar
  <2>4. row = Snapshot(s.rows[2], b, day)
    BY <1>2, <2>1
  <2> QED
    BY <2>3, <2>4 DEF Score
<1>5. Selected(s, 1, day) = Selected(s, 2, day)
  <2> DEFINE A == Scored(s, 1, day)
             f(b) == Score(s, 1, b, day)
             g(b) == Score(s, 2, b, day)
             Better(b) == {c \in A : f(c) > f(b) \/ (f(c) = f(b) /\ c < b)}
             Worse(b) == {c \in A : g(c) > g(b) \/ (g(c) = g(b) /\ c < b)}
  <2>1. \A b \in A : f(b) = g(b)
    BY <1>4
  <2>2. Selected(s, 1, day) = {b \in A : Cardinality(Better(b)) < TopN}
    BY DEF Selected
  <2>3. Selected(s, 2, day) = {b \in A : Cardinality(Worse(b)) < TopN}
    BY <1>3 DEF Selected
  <2>4. \A b \in A : Better(b) = Worse(b)
    <3> HIDE DEF f, g, A
    <3> QED
      BY <2>1
  <2> HIDE DEF Better, Worse, A
  <2> QED
    BY <2>2, <2>3, <2>4
<1> QED
  BY <1>5

\* And they rebalance alike.
LEMMA SameStep ==
  ASSUME NEW s, NEW n, NEW days, Typed(s, n, days), NEW day \in 1 .. days, SameSoFar(s, day), s.sim[1] = s.sim[2]
  PROVE  Simulated(s, 1, day) = Simulated(s, 2, day)
<1>1. /\ days \in Nat /\ day \in 0 .. days /\ day \in 1 .. day /\ 1 \in 1 .. 2 /\ 2 \in 1 .. 2
      /\ DOMAIN s.today[1] = 1 .. n /\ DOMAIN s.today[2] = 1 .. n
      /\ DOMAIN s.rows[1] = 1 .. n /\ DOMAIN s.rows[2] = 1 .. n
  BY DEF Typed
<1>2. \A b \in 1 .. n : Snapshot(s.rows[1], b, day) = Snapshot(s.rows[2], b, day)
  BY <1>1, SameSnapshots
<1>3. Selected(s, 1, day) = Selected(s, 2, day)
  BY <1>1, SameChoice
<1>4. \A b \in 1 .. n : s.rows[1][b][day] = s.rows[2][b][day]
  BY <1>1 DEF SameSoFar
<1>5. Worth(s, 1, day) = Worth(s, 2, day)
  <2>1. [b \in DOMAIN s.today[1] |-> s.sim[1].held[b] * Snapshot(s.rows[1], b, day).price]
          = [b \in DOMAIN s.today[2] |-> s.sim[2].held[b] * Snapshot(s.rows[2], b, day).price]
    BY <1>1, <1>2
  <2> QED
    BY <2>1 DEF Worth
<1>6. Rebalanced(s, 1, day) = Rebalanced(s, 2, day)
  <2> DEFINE all == Worth(s, 1, day)
             chosen == Selected(s, 1, day)
             p(b) == Snapshot(s.rows[1], b, day).price
             q(b) == Snapshot(s.rows[2], b, day).price
             held == [b \in 1 .. n |-> IF b \in chosen /\ all > 0 THEN Rounded(all, Cardinality(chosen) * p(b)) ELSE 0]
             same == [b \in 1 .. n |-> IF b \in chosen /\ all > 0 THEN Rounded(all, Cardinality(chosen) * q(b)) ELSE 0]
  <2>1. \A b \in 1 .. n : p(b) = q(b)
    BY <1>2
  <2>2. Rebalanced(s, 1, day) = [cash |-> all - SumOf([b \in DOMAIN held |-> held[b] * p(b)]), held |-> held, last |-> day]
    BY <1>1 DEF Rebalanced
  <2>3. Rebalanced(s, 2, day) = [cash |-> all - SumOf([b \in DOMAIN same |-> same[b] * q(b)]), held |-> same, last |-> day]
    BY <1>1, <1>3, <1>5 DEF Rebalanced
  <2>4. held = same
    <3> HIDE DEF p, q, all, chosen
    <3> QED
      BY <2>1
  <2>5. DOMAIN held = 1 .. n
    OBVIOUS
  <2> HIDE DEF held, same, p, q
  <2>6. [b \in DOMAIN held |-> held[b] * p(b)] = [b \in DOMAIN same |-> same[b] * q(b)]
    BY <2>1, <2>4, <2>5
  <2> QED
    BY <2>2, <2>3, <2>4, <2>6
<1> QED
  BY <1>1, <1>4, <1>6 DEF Simulated

-----------------------------------------------------------------------------

\* Rounding adds half of the divisor at most.
LEMMA RoundedIs ==
  ASSUME NEW a \in Nat, NEW d \in Nat, d > 0
  PROVE  Rounded(a, d) \in Nat /\ 2 * (Rounded(a, d) * d) =< 2 * a + d
<1> DEFINE q == a \div d
           m == a % d
<1>1. q \in Nat /\ m \in 0 .. (d - 1) /\ a = d * q + m
  OBVIOUS
<1>2. Rounded(a, d) = IF 2 * m > d \/ (2 * m = d /\ q % 2 = 1) THEN q + 1 ELSE q
  BY DEF Rounded
<1> HIDE DEF q, m
<1>3. d * q = q * d /\ (q + 1) * d = q * d + d /\ q * d \in Nat
  BY <1>1
<1>4. CASE Rounded(a, d) = q
  <2>1. 2 * (q * d) =< 2 * a + d
    BY <1>1, <1>3
  <2> QED
    BY <1>1, <1>4, <2>1
<1>5. CASE Rounded(a, d) = q + 1 /\ 2 * m >= d
  <2>1. 2 * ((q + 1) * d) =< 2 * a + d
    BY <1>1, <1>3, <1>5
  <2> QED
    BY <1>1, <1>5, <2>1
<1> QED
  BY <1>1, <1>2, <1>4, <1>5

\* Values that take away from one another, one by one and in sum.
LEMMA SumsDiffer ==
  ASSUME NEW D, IsFiniteSet(D), NEW a \in Values(D), NEW c \in Values(D), NEW w \in Values(D),
         \A x \in D : w[x] = 2 * a[x] - c[x]
  PROVE  /\ Sums(a)[D] \in Int /\ Sums(c)[D] \in Int /\ Sums(w)[D] \in Int
         /\ Sums(w)[D] = 2 * Sums(a)[D] - Sums(c)[D]
<1>1. /\ DOMAIN a = D /\ DOMAIN c = D /\ DOMAIN w = D
      /\ \A x \in D : a[x] \in Int /\ c[x] \in Int /\ w[x] \in Int /\ w[x] = 2 * a[x] - c[x]
  BY DEF Values
<1>2. AddsUp(Sums(a), a, D) /\ AddsUp(Sums(c), c, D) /\ AddsUp(Sums(w), w, D)
  BY <1>1, SumsAddUp
<1> DEFINE G == {T \in SUBSET D : Sums(w)[T] = 2 * Sums(a)[T] - Sums(c)[T]}
<1>3. {} \in G
  BY <1>2 DEF AddsUp
<1>4. ASSUME NEW T \in SUBSET D, NEW x \in T, T \ {x} \in G PROVE T \in G
  <2> DEFINE U == T \ {x}
  <2>1. U \in SUBSET D /\ Sums(w)[U] = 2 * Sums(a)[U] - Sums(c)[U]
    BY <1>4
  <2>2. Sums(a)[U] \in Int /\ Sums(c)[U] \in Int
    BY <1>2, <2>1 DEF AddsUp
  <2>3. Sums(a)[T] = a[x] + Sums(a)[U] /\ Sums(c)[T] = c[x] + Sums(c)[U] /\ Sums(w)[T] = w[x] + Sums(w)[U]
    BY <1>2 DEF AddsUp
  <2> HIDE DEF U
  <2> QED
    BY <1>1, <2>1, <2>2, <2>3
<1> HIDE DEF G
<1>5. D \in G
  BY <1>3, <1>4, SubsetInduction
<1>6. Sums(a)[D] \in Int /\ Sums(c)[D] \in Int /\ Sums(w)[D] \in Int
  BY <1>2 DEF AddsUp
<1> QED
  BY <1>5, <1>6 DEF G

\* If each of N values is an Nth of A at most, their sum is A at most.
LEMMA SharesAreBounded ==
  ASSUME NEW D, IsFiniteSet(D), NEW w \in Values(D), NEW T \in SUBSET D, NEW A \in Nat,
         \A x \in T : Cardinality(T) * w[x] =< A, \A x \in D \ T : w[x] = 0
  PROVE  Sums(w)[D] =< A
<1> DEFINE N == Cardinality(T)
<1>1. DOMAIN w = D /\ \A x \in D : w[x] \in Int
  BY DEF Values
<1>2. AddsUp(Sums(w), w, D) /\ Sums(w)[T] = Sums(w)[D]
  BY <1>1, SumsAddUp, ZeroesDoNotCount
<1>3. IsFiniteSet(T) /\ N \in Nat
  BY FS_Subset, FS_CardinalityType
<1>4. CASE T = {}
  BY <1>2, <1>4 DEF AddsUp
<1>5. CASE T # {}
  <2> DEFINE G == {U \in SUBSET T : N * Sums(w)[U] =< A * Cardinality(U)}
  <2>7. N > 0
    BY <1>3, <1>5, FS_EmptySet
  <2>8. \A x \in T : N * w[x] =< A
    OBVIOUS
  <2> HIDE DEF N
  <2>1. {} \in G
    <3>1. Sums(w)[{}] = 0 /\ Cardinality({}) = 0
      BY <1>2, FS_EmptySet DEF AddsUp
    <3> QED
      BY <1>3, <3>1
  <2>2. ASSUME NEW U \in SUBSET T, NEW x \in U, U \ {x} \in G PROVE U \in G
    <3> DEFINE V == U \ {x}
               k == Cardinality(V)
               S == Sums(w)[V]
               y == w[x]
    <3>1. Cardinality(U) = k + 1 /\ k \in Nat
      <4>1. IsFiniteSet(U) /\ Cardinality(U) \in Nat /\ Cardinality(U \ {x}) \in Nat
        BY <1>3, PartIsFewer
      <4>2. Cardinality(U \ {x}) = Cardinality(U) - 1
        BY <4>1, FS_RemoveElement
      <4> QED
        BY <4>1, <4>2
    <3>2. S \in Int /\ Sums(w)[U] = y + S
      BY <1>2 DEF AddsUp
    <3>3. N * S =< A * k
      BY <2>2
    <3>4. y \in Int /\ N * y =< A
      BY <1>1, <2>8
    <3> HIDE DEF k, S, V, y
    <3>5. N * (y + S) = N * y + N * S /\ A * (k + 1) = A * k + A
      BY <1>3, <3>1, <3>2, <3>4
    <3>6. N * y \in Int /\ N * S \in Int /\ A * k \in Int
      BY <1>3, <3>1, <3>2, <3>4
    <3> QED
      BY <3>1, <3>2, <3>3, <3>4, <3>5, <3>6
  <2> HIDE DEF G
  <2>3. T \in G
    BY <1>3, <2>1, <2>2, SubsetInduction
  <2>4. N * Sums(w)[T] =< A * N
    BY <2>3 DEF G, N
  <2>5. Sums(w)[T] \in Int
    BY <1>2 DEF AddsUp
  <2> DEFINE z == Sums(w)[T]
  <2>6. z =< A
    <3>1. z \in Int /\ N * z =< A * N
      BY <2>4, <2>5
    <3> HIDE DEF z
    <3> SUFFICES ASSUME z > A PROVE FALSE
      BY <3>1
    <3>2. z - A \in Nat /\ z - A > 0
      BY <3>1
    <3> DEFINE e == z - A
    <3>3. N * z = N * A + N * e
      BY <1>3, <3>1
    <3> HIDE DEF e
    <3>4. N * e > 0
      BY <1>3, <2>7, <3>2, TimesPositive DEF e
    <3>5. N * A = A * N /\ N * A \in Int /\ N * e \in Int
      BY <1>3, <3>2 DEF e
    <3> QED
      BY <3>1, <3>3, <3>4, <3>5
  <2> QED
    BY <1>2, <2>6
<1> QED
  BY <1>4, <1>5

-----------------------------------------------------------------------------

SimType(n) == [cash : Int, held : [1 .. n -> Int], last : Int]

\* The price of what is held, 0 for what is not.
HeldPrice(s, i, n, held, day) ==
  [b \in 1 .. n |-> IF held[b] = 0 THEN 0 ELSE Snapshot(s.rows[i], b, day).price]

\* What a rebalance leaves: with something held, the cash is below zero by
\* half of the prices of what is held at most.
LEMMA RebalanceIs ==
  ASSUME NEW s, NEW n, NEW days, Typed(s, n, days), NEW i \in 1 .. 2, NEW day \in 1 .. days,
         s.sim[i] \in SimType(n), NEW new, new = Rebalanced(s, i, day)
  PROVE  /\ new \in SimType(n) /\ new.last = day
         /\ \/ \A b \in 1 .. n : new.held[b] = 0
            \/ 2 * new.cash >= -SumOf(HeldPrice(s, i, n, new.held, day))
<1> DEFINE all == Worth(s, i, day)
           chosen == Selected(s, i, day)
           N == Cardinality(chosen)
           price == [b \in 1 .. n |-> Snapshot(s.rows[i], b, day).price]
           held == [b \in 1 .. n |-> IF b \in chosen /\ all > 0 THEN Rounded(all, N * price[b]) ELSE 0]
           D == 1 .. n
           a == [b \in D |-> held[b] * price[b]]
           c == [b \in D |-> IF held[b] = 0 THEN 0 ELSE price[b]]
           w == [b \in D |-> 2 * a[b] - c[b]]
<1>1. /\ n \in Nat /\ days \in Nat /\ day \in Nat /\ DOMAIN s.today[i] = D
      /\ s.sim[i].cash \in Int /\ \A b \in D : s.sim[i].held[b] \in Int
  BY DEF Typed, SimType
<1>2. IsFiniteSet(D)
  BY <1>1, Segment
<1>3. \A b \in D : /\ price[b] \in Nat /\ price[b] = Snapshot(s.rows[i], b, day).price
                   /\ Snapshot(s.rows[i], b, day) # NoRow => price[b] > 0
  <2> SUFFICES ASSUME NEW b \in D
               PROVE  LET row == Snapshot(s.rows[i], b, day)
                      IN row.price \in Nat /\ (row # NoRow => row.price > 0)
    OBVIOUS
  <2> DEFINE row == Snapshot(s.rows[i], b, day)
             known == Rows(s.rows[i], b, day)
  <2>1. row = Snapshot(s.rows[i], b, day) /\ known = Rows(s.rows[i], b, day)
    OBVIOUS
  <2> HIDE DEF row, known
  <2>2. row \in QuotedRow
    BY <1>1, <2>1, SnapshotIs
  <2> QED
    BY <2>2, RowIs DEF row
<1>4. chosen \in SUBSET D /\ \A b \in chosen : price[b] > 0
  BY <1>1, <1>3 DEF Selected, Scored
<1>5. all \in Int
  <2> DEFINE v == [b \in D |-> s.sim[i].held[b] * Snapshot(s.rows[i], b, day).price]
  <2>1. all = s.sim[i].cash + SumOf(v)
    BY <1>1 DEF Worth
  <2>2. DOMAIN v = D /\ \A b \in D : v[b] \in Int
    <3> SUFFICES ASSUME NEW b \in D PROVE s.sim[i].held[b] * Snapshot(s.rows[i], b, day).price \in Int
      OBVIOUS
    <3>1. s.sim[i].held[b] \in Int /\ Snapshot(s.rows[i], b, day).price \in Int
      BY <1>1, <1>3
    <3> QED
      BY <3>1
  <2> HIDE DEF v, D
  <2>3. SumOf(v) = Sums(v)[D] /\ Sums(v)[D] \in Int
    BY <1>2, <2>2, SumOfIsSum, SumsAddUp DEF AddsUp
  <2> QED
    BY <1>1, <2>1, <2>3
<1>6. N \in Nat /\ (chosen # {} => N > 0)
  <2>1. IsFiniteSet(chosen)
    BY <1>2, <1>4, FS_Subset
  <2> HIDE DEF chosen
  <2> QED
    BY <2>1, FS_CardinalityType, FS_EmptySet
<1>7. new = [cash |-> all - SumOf(a), held |-> held, last |-> day]
  <2>1. held = [b \in DOMAIN s.today[i] |-> IF b \in chosen /\ all > 0
                                              THEN Rounded(all, N * Snapshot(s.rows[i], b, day).price) ELSE 0]
    <3> HIDE DEF all, chosen, N
    <3> QED
      BY <1>1
  <2>2. DOMAIN held = D
    OBVIOUS
  <2>3. a = [b \in DOMAIN held |-> held[b] * Snapshot(s.rows[i], b, day).price]
    <3> HIDE DEF held
    <3> QED
      BY <2>2
  <2> QED
    BY <2>1, <2>3 DEF Rebalanced
<1>18. \A b \in D : held[b] = IF b \in chosen /\ all > 0 THEN Rounded(all, N * price[b]) ELSE 0
  OBVIOUS
<1>19. held \in [D -> Int] => DOMAIN held = D
  OBVIOUS
<1>20. DOMAIN held = D /\ held = [b \in D |-> held[b]]
  OBVIOUS
<1> HIDE DEF all, chosen, N, price, held
<1>8. ASSUME NEW b \in D
      PROVE  /\ held[b] \in Nat /\ (b \notin chosen => held[b] = 0)
             /\ all > 0 /\ b \in chosen => 2 * (held[b] * (N * price[b])) =< 2 * all + N * price[b]
             /\ ~(all > 0) => held[b] = 0
  <2>1. CASE b \in chosen /\ all > 0
    <3> DEFINE d == N * price[b]
    <3>1. d \in Nat /\ d > 0
      <4>1. price[b] \in Nat /\ price[b] > 0 /\ N \in Nat /\ N > 0
        BY <1>3, <1>4, <1>6, <2>1
      <4> QED
        BY <4>1, TimesPositive
    <3>2. held[b] = Rounded(all, d) /\ all \in Nat
      BY <1>5, <1>18, <2>1
    <3> HIDE DEF d
    <3>3. Rounded(all, d) \in Nat /\ 2 * (Rounded(all, d) * d) =< 2 * all + d
      BY <3>1, <3>2, RoundedIs
    <3> QED
      BY <2>1, <3>2, <3>3 DEF d
  <2>2. CASE ~(b \in chosen /\ all > 0)
    BY <1>18, <2>2
  <2> QED
    BY <2>1, <2>2
<1>9. held \in [D -> Nat]
  BY <1>8, <1>20
<1>10. a \in Values(D) /\ c \in Values(D) /\ w \in Values(D)
       /\ \A x \in D : w[x] = 2 * a[x] - c[x] /\ a[x] = held[x] * price[x] /\ c[x] = IF held[x] = 0 THEN 0 ELSE price[x]
  <2>1. \A x \in D : held[x] * price[x] \in Int /\ price[x] \in Int
    <3> SUFFICES ASSUME NEW x \in D PROVE held[x] * price[x] \in Int /\ price[x] \in Int
      OBVIOUS
    <3>1. held[x] \in Int /\ price[x] \in Int
      BY <1>3, <1>9
    <3> QED
      BY <3>1
  <2> HIDE DEF D
  <2>2. a \in [D -> Int] /\ \A x \in D : a[x] = held[x] * price[x]
    BY <2>1
  <2>3. c \in [D -> Int] /\ \A x \in D : c[x] = IF held[x] = 0 THEN 0 ELSE price[x]
    BY <2>1
  <2> HIDE DEF a, c
  <2>4. w \in [D -> Int] /\ \A x \in D : w[x] = 2 * a[x] - c[x]
    BY <2>2, <2>3
  <2> QED
    BY <2>2, <2>3, <2>4 DEF Values
<1>11. c = HeldPrice(s, i, n, held, day)
  BY <1>3 DEF HeldPrice
<1>21. DOMAIN a = D /\ DOMAIN c = D
  OBVIOUS
<1> HIDE DEF a, c, w
<1>12. /\ Sums(a)[D] \in Int /\ Sums(c)[D] \in Int /\ Sums(w)[D] \in Int
       /\ Sums(w)[D] = 2 * Sums(a)[D] - Sums(c)[D]
  <2> HIDE DEF D
  <2> QED
    BY <1>2, <1>10, SumsDiffer
<1>13. SumOf(a) = Sums(a)[D] /\ SumOf(c) = Sums(c)[D]
  BY <1>21, SumOfIsSum
<1>14. new \in SimType(n) /\ new.last = day /\ new.held = held /\ new.cash = all - Sums(a)[D]
  <2>1. held \in [D -> Int] /\ all - SumOf(a) \in Int /\ day \in Int
    BY <1>1, <1>5, <1>9, <1>12, <1>13
  <2> QED
    BY <1>7, <1>13, <2>1 DEF SimType
<1>15. CASE ~(all > 0)
  BY <1>8, <1>14, <1>15
<1>16. CASE all > 0
  <2> DEFINE A == 2 * all
  <2>1. A \in Nat
    BY <1>5, <1>16
  <2>2. ASSUME NEW x \in chosen PROVE Cardinality(chosen) * w[x] =< A
    <3> DEFINE h == held[x]
               p == price[x]
    <3>1. h \in Nat /\ p \in Nat /\ N \in Nat /\ x \in D
      BY <1>3, <1>4, <1>6, <1>9
    <3>2. 2 * (h * (N * p)) =< A + N * p
      BY <1>4, <1>8, <1>16
    <3>3. w[x] = 2 * (h * p) - IF h = 0 THEN 0 ELSE p
      BY <1>10, <3>1
    <3> HIDE DEF h, p, A
    <3>4. h * (N * p) = N * (h * p) /\ h * p \in Nat /\ N * p \in Nat /\ N * (h * p) \in Nat
      <4>1. h * (N * p) = (h * N) * p /\ (h * N) * p = (N * h) * p /\ (N * h) * p = N * (h * p)
        BY <3>1
      <4>2. h * p \in Nat /\ N * p \in Nat
        BY <3>1
      <4> QED
        BY <3>1, <4>1, <4>2
    <3>5. CASE h = 0
      <4>1. w[x] = 0
        BY <3>1, <3>3, <3>5
      <4> QED
        BY <2>1, <3>1, <4>1 DEF N
    <3>6. CASE h # 0
      <4> DEFINE m == h * p
      <4>1. w[x] = 2 * m - p /\ m \in Nat
        BY <3>3, <3>4, <3>6
      <4>2. 2 * (N * m) =< A + N * p /\ N * m \in Nat
        BY <3>2, <3>4
      <4> HIDE DEF m
      <4>3. N * (2 * m - p) = 2 * (N * m) - N * p
        BY <3>1, <4>1
      <4>4. N * (2 * m - p) =< A
        BY <2>1, <3>4, <4>2, <4>3
      <4> QED
        BY <4>1, <4>4 DEF N
    <3> QED
      BY <3>5, <3>6
  <2>3. \A x \in D \ chosen : w[x] = 0
    <3> SUFFICES ASSUME NEW x \in D \ chosen PROVE w[x] = 0
      OBVIOUS
    <3>1. held[x] = 0 /\ price[x] \in Nat
      BY <1>3, <1>8
    <3> QED
      BY <1>10, <3>1
  <2> HIDE DEF A, D
  <2>4. Sums(w)[D] =< A
    BY <1>2, <1>4, <1>10, <2>1, <2>2, <2>3, SharesAreBounded
  <2>5. 2 * new.cash >= -SumOf(c)
    BY <1>5, <1>12, <1>13, <1>14, <2>4 DEF A
  <2> QED
    BY <1>11, <1>14, <2>5
<1> QED
  BY <1>15, <1>16

\* The two backtests know the same while their inputs are the same, and each
\* has paid for what it holds.
Covered(f, n, i) ==
  f.sim[i].last >= 1 =>
    \/ \A b \in 1 .. n : f.sim[i].held[b] = 0
    \/ 2 * f.sim[i].cash >= -SumOf(HeldPrice(f, i, n, f.sim[i].held, f.sim[i].last))

LEMMA CoveredStill ==
  ASSUME NEW f, NEW g, NEW n, NEW i, g.rows = f.rows, g.sim[i] = f.sim[i], Covered(f, n, i)
  PROVE  Covered(g, n, i)
BY DEF Covered, HeldPrice

LEMMA CoveredAnew ==
  ASSUME NEW f, NEW g, NEW n, NEW i, g.rows = f.rows, NEW new, g.sim[i] = new, NEW day, new.last = day,
         \/ \A b \in 1 .. n : new.held[b] = 0
         \/ 2 * new.cash >= -SumOf(HeldPrice(f, i, n, new.held, day))
  PROVE  Covered(g, n, i)
<1>1. HeldPrice(g, i, n, new.held, new.last) = HeldPrice(f, i, n, new.held, day)
  BY DEF HeldPrice
<1> QED
  BY <1>1 DEF Covered

BacktestOf(f, n, days) ==
  /\ f = [kind |-> "backtest", day |-> f.day, rows |-> f.rows, today |-> f.today, sim |-> f.sim]
  /\ Typed(f, n, days) /\ LastDayOf(f) = days /\ f.day \in 0 .. days
  /\ f.sim \in [1 .. 2 -> SimType(n)]
  /\ SameSoFar(f, f.day) => f.sim[1] = f.sim[2]
  /\ \A i \in 1 .. 2 : Covered(f, n, i)

LEMMA BacktestRecord ==
  ASSUME NEW f, NEW x, NEW y,
         f = [kind |-> "backtest", day |-> f.day, rows |-> f.rows, today |-> f.today, sim |-> f.sim]
  PROVE  [f EXCEPT !.day = x, !.sim = y]
           = [kind |-> "backtest", day |-> x, rows |-> f.rows, today |-> f.today, sim |-> y]
<1>1. PICK d, r, t, s : f = [kind |-> "backtest", day |-> d, rows |-> r, today |-> t, sim |-> s]
  OBVIOUS
<1> DEFINE u == [f EXCEPT !.day = x]
<1>2. u = [kind |-> "backtest", day |-> x, rows |-> r, today |-> t, sim |-> s]
  BY <1>1
<1> HIDE DEF u
<1>3. [u EXCEPT !.sim = y] = [kind |-> "backtest", day |-> x, rows |-> r, today |-> t, sim |-> y]
  BY <1>2
<1>4. f.rows = r /\ f.today = t
  BY <1>1
<1> QED
  BY <1>3, <1>4 DEF u

\* A day of the backtest.
LEMMA BacktestGoesOn ==
  ASSUME NEW f, NEW n, NEW days, BacktestOf(f, n, days), f.day < LastDayOf(f),
         NEW g, g = [f EXCEPT !.day = @ + 1, !.sim = [i \in 1 .. 2 |-> Simulated(f, i, f.day + 1)]]
  PROVE  BacktestOf(g, n, days)
<1> DEFINE day == f.day + 1
           sim == [i \in 1 .. 2 |-> Simulated(f, i, day)]
<1>1. /\ f = [kind |-> "backtest", day |-> f.day, rows |-> f.rows, today |-> f.today, sim |-> f.sim]
      /\ Typed(f, n, days) /\ LastDayOf(f) = days /\ f.day \in 0 .. days
      /\ f.sim \in [1 .. 2 -> SimType(n)]
      /\ SameSoFar(f, f.day) => f.sim[1] = f.sim[2]
      /\ \A i \in 1 .. 2 : Covered(f, n, i)
  BY DEF BacktestOf
<1>2. days \in Nat /\ n \in Nat /\ f.day \in Nat /\ f.day < days /\ day \in 1 .. days
  BY <1>1 DEF Typed
<1>3. g = [kind |-> "backtest", day |-> day, rows |-> f.rows, today |-> f.today, sim |-> sim]
  <2> DEFINE x == f.day + 1
  <2>1. g = [f EXCEPT !.day = x, !.sim = sim]
    OBVIOUS
  <2> HIDE DEF x, sim
  <2>2. [f EXCEPT !.day = x, !.sim = sim]
          = [kind |-> "backtest", day |-> x, rows |-> f.rows, today |-> f.today, sim |-> sim]
    BY <1>1, BacktestRecord, Zenon
  <2> QED
    BY <2>1, <2>2 DEF x
<1>4. /\ g = [kind |-> "backtest", day |-> g.day, rows |-> g.rows, today |-> g.today, sim |-> g.sim]
      /\ g.day = day /\ g.rows = f.rows /\ g.today = f.today /\ g.sim = sim
  BY <1>3
<1>5. DOMAIN sim = 1 .. 2 /\ \A i \in 1 .. 2 : sim[i] = Simulated(f, i, day)
  OBVIOUS
<1> HIDE DEF sim, day
<1>6. Typed(g, n, days) /\ LastDayOf(g) = days
  BY <1>1, <1>4 DEF Typed, LastDayOf
<1>7. ASSUME NEW i \in 1 .. 2
      PROVE  sim[i] \in SimType(n) /\ Covered(g, n, i)
  <2> DEFINE new == Rebalanced(f, i, day)
  <2>1. f.sim[i] \in SimType(n)
    BY <1>1
  <2>2. /\ new \in SimType(n) /\ new.last = day
        /\ \/ \A b \in 1 .. n : new.held[b] = 0
           \/ 2 * new.cash >= -SumOf(HeldPrice(f, i, n, new.held, day))
    <3>1. new = Rebalanced(f, i, day)
      OBVIOUS
    <3> HIDE DEF new
    <3> QED
      BY <1>1, <1>2, <2>1, <3>1, RebalanceIs
  <2>3. sim[i] = new \/ sim[i] = f.sim[i]
    BY <1>5 DEF Simulated
  <2> HIDE DEF new
  <2>5. g.sim[i] = sim[i]
    BY <1>4
  <2>6. CASE sim[i] = new
    BY <1>4, <2>2, <2>5, <2>6, CoveredAnew
  <2>7. CASE sim[i] = f.sim[i]
    <3>1. Covered(f, n, i)
      BY <1>1
    <3>2. Covered(g, n, i)
      BY <1>4, <2>5, <2>7, <3>1, CoveredStill
    <3> QED
      BY <2>1, <2>7, <3>2
  <2> QED
    BY <2>3, <2>6, <2>7
<1>8. SameSoFar(g, day) => g.sim[1] = g.sim[2]
  <2> SUFFICES ASSUME SameSoFar(g, day) PROVE g.sim[1] = g.sim[2]
    OBVIOUS
  <2>1. SameSoFar(f, day)
    BY <1>4 DEF SameSoFar, Unquoted, Scored
  <2>2. SameSoFar(f, f.day)
    BY <1>1, <1>2, <2>1, SameBefore DEF day
  <2>3. Simulated(f, 1, day) = Simulated(f, 2, day)
    BY <1>1, <1>2, <2>1, <2>2, SameStep
  <2> QED
    BY <1>4, <1>5, <2>3
<1>9. sim \in [1 .. 2 -> SimType(n)]
  <2>1. sim = [i \in 1 .. 2 |-> sim[i]]
    BY DEF sim
  <2> QED
    BY <1>7, <2>1
<1>10. g.day \in 0 .. days
  BY <1>2, <1>4
<1> QED
  BY <1>4, <1>6, <1>7, <1>8, <1>9, <1>10 DEF BacktestOf

LEMMA BacktestIsBlind ==
  ASSUME NEW f, NEW n, NEW days, BacktestOf(f, n, days)
  PROVE  NoLookahead(f)
<1>1. \A i \in 1 .. 2 : DOMAIN f.today[i] = 1 .. n
  BY DEF BacktestOf, Typed
<1> QED
  BY <1>1 DEF BacktestOf, NoLookahead, Covered, HeldPrice

LEMMA BacktestStarts ==
  ASSUME NEW s \in Studies
  PROVE  \E n, days : BacktestOf(s, n, days)
<1> DEFINE n == Len(s.today[1])
           days == Len(s.rows[1][1])
<1>1. /\ s = Study(s.rows, s.today) /\ DOMAIN s.rows = 1 .. 2 /\ DOMAIN s.today = 1 .. 2 /\ n > 0
      /\ \A i \in 1 .. 2 :
           /\ s.today[i] \in Seq(Int) /\ Len(s.today[i]) = n
           /\ s.rows[i] \in Seq(Seq(QuotedRow)) /\ Len(s.rows[i]) = n
           /\ \A b \in DOMAIN s.rows[i] : Len(s.rows[i][b]) = days
  BY StudiesAssumption DEF QuotedRow
<1>2. n \in Nat /\ days \in Nat
  <2>1. 1 \in 1 .. 2 /\ s.today[1] \in Seq(Int) /\ s.rows[1] \in Seq(Seq(QuotedRow)) /\ Len(s.rows[1]) = n
    BY <1>1
  <2>2. n \in Nat
    BY <2>1, LenProperties
  <2>3. s.rows[1][1] \in Seq(QuotedRow)
    BY <1>1, <2>1, <2>2, ElementOfSeq
  <2> QED
    BY <2>2, <2>3, LenProperties
<1>3. Typed(s, n, days)
  <2> SUFFICES ASSUME NEW i \in 1 .. 2
               PROVE  /\ DOMAIN s.today[i] = 1 .. n /\ DOMAIN s.rows[i] = 1 .. n
                      /\ \A b \in 1 .. n : /\ s.today[i][b] \in Int
                                           /\ DOMAIN s.rows[i][b] = 1 .. days
                                           /\ \A d \in 1 .. days : s.rows[i][b][d] \in QuotedRow
    BY <1>2 DEF Typed
  <2>1. /\ s.today[i] \in Seq(Int) /\ Len(s.today[i]) = n /\ s.rows[i] \in Seq(Seq(QuotedRow)) /\ Len(s.rows[i]) = n
        /\ \A b \in DOMAIN s.rows[i] : Len(s.rows[i][b]) = days
    BY <1>1
  <2> HIDE DEF n, days
  <2>2. DOMAIN s.today[i] = 1 .. n /\ DOMAIN s.rows[i] = 1 .. n
    BY <2>1, LenProperties
  <2>3. ASSUME NEW b \in 1 .. n
        PROVE  /\ s.today[i][b] \in Int /\ DOMAIN s.rows[i][b] = 1 .. days
               /\ \A d \in 1 .. days : s.rows[i][b][d] \in QuotedRow
    <3>1. s.today[i][b] \in Int /\ s.rows[i][b] \in Seq(QuotedRow) /\ Len(s.rows[i][b]) = days
      BY <2>1, <2>2, ElementOfSeq
    <3> QED
      BY <3>1, LenProperties, ElementOfSeq
  <2> QED
    BY <2>2, <2>3
<1>4. RebalanceDays \in Nat \ {0}
  BY FiguresAssumption DEF FiguresAssumption
<1> DEFINE start == [cash |-> 100, held |-> [b \in DOMAIN s.today[1] |-> 0], last |-> 1 - RebalanceDays]
<1>5. s = [kind |-> "backtest", day |-> 0, rows |-> s.rows, today |-> s.today, sim |-> [i \in 1 .. 2 |-> start]]
  BY <1>1 DEF Study
<1>6. start \in SimType(n) /\ start.last < 1
  <2>1. DOMAIN s.today[1] = 1 .. n
    BY <1>3 DEF Typed
  <2> HIDE DEF n
  <2> QED
    BY <1>4, <2>1 DEF SimType
<1>7. days = LastDayOf(s)
  BY DEF LastDayOf
<1> HIDE DEF start, n, days
<1>8. /\ s = [kind |-> "backtest", day |-> s.day, rows |-> s.rows, today |-> s.today, sim |-> s.sim]
      /\ s.day = 0 /\ s.sim = [i \in 1 .. 2 |-> start]
  BY <1>5
<1>9. BacktestOf(s, n, days)
  <2>1. s.day \in 0 .. days /\ s.sim \in [1 .. 2 -> SimType(n)] /\ s.sim[1] = s.sim[2]
        /\ \A i \in 1 .. 2 : s.sim[i].last < 1
    BY <1>2, <1>6, <1>8
  <2>2. \A i \in 1 .. 2 : Covered(s, n, i)
    <3>1. \A i \in 1 .. 2 : s.sim[i].last \in Int /\ ~(s.sim[i].last >= 1)
      BY <1>6, <1>8, <2>1 DEF SimType
    <3> QED
      BY <3>1 DEF Covered
  <2> QED
    BY <1>3, <1>7, <1>8, <2>1, <2>2 DEF BacktestOf
<1> QED
  BY <1>9

-----------------------------------------------------------------------------
(* The ledger of profit and loss.                                          *)

\* One transaction in the reference of the ledger.
Units(t) == [u \in 1 .. t.face |-> t.price]

Book(acc, t) ==
  IF t.side = "buy" THEN [acc EXCEPT !.units = @ \o Units(t), !.paid = @ + t.face * t.price]
  ELSE LET n == Least(t.face, Len(acc.units))
       IN [acc EXCEPT !.units = SubSeq(@, n + 1, Len(@)), !.received = @ + n * t.price]

NoBook == [units |-> << >>, paid |-> 0, received |-> 0]

\* The ledger folds lots, and its reference transactions: both folds are
\* recursive functions of the sets of indices, the last index taken first.
Fold(kind, acc, x) == IF kind = "lots" THEN MatchLot(acc, x) ELSE Book(acc, x)

FoldStep(kind, base, seq, f, s) ==
  IF s = {} THEN base ELSE Fold(kind, f[s \ {Max(s)}], seq[Max(s)])

IsFold(kind, base, seq, f) == f = [s \in SUBSET DOMAIN seq |-> FoldStep(kind, base, seq, f, s)]

LEMMA MaxOf ==
  ASSUME NEW n \in Nat, NEW s \in SUBSET (1 .. n), s # {}
  PROVE  Max(s) \in s /\ \A y \in s : y =< Max(s)
<1>1. IsFiniteSet(s)
  BY Segment, FS_Subset
<1> DEFINE p == [e \in s |-> e]
<1>2. \A e \in s : p[e] \in Int /\ p[e] = e
  OBVIOUS
<1> HIDE DEF p
<1>3. \E x \in s : \A e \in s : p[e] =< p[x]
  BY <1>1, <1>2, ExtremeValues
<1>4. \E x \in s : \A y \in s : x >= y
  BY <1>2, <1>3
<1>5. Max(s) \in s /\ \A y \in s : Max(s) >= y
  BY <1>4, Zenon DEF Max
<1> QED
  BY <1>5

\* There is such a function.
LEMMA FoldExists ==
  ASSUME NEW kind, NEW base, NEW seq, NEW n \in Nat, DOMAIN seq = 1 .. n
  PROVE  \E f : IsFold(kind, base, seq, f)
<1> DEFINE D == 1 .. n
           Good == {k \in Nat : \E f : f = [s \in Below(D, k) |-> FoldStep(kind, base, seq, f, s)]}
<1>1. \A S \in SUBSET D : IsFiniteSet(S) /\ Cardinality(S) \in Nat
  BY Segment, FS_Subset, FS_CardinalityType
<1>2. 0 \in Good
  <2>1. Below(D, 0) = {{}}
    BY <1>1, FS_EmptySet DEF Below
  <2> DEFINE f == [s \in Below(D, 0) |-> base]
  <2>2. f = [s \in Below(D, 0) |-> FoldStep(kind, base, seq, f, s)]
    BY <2>1 DEF FoldStep
  <2> HIDE DEF f
  <2> QED
    BY <2>2
<1>3. ASSUME NEW k \in Good PROVE k + 1 \in Good
  <2>0. k \in Nat
    OBVIOUS
  <2>1. PICK g : g = [s \in Below(D, k) |-> FoldStep(kind, base, seq, g, s)]
    OBVIOUS
  <2>2. \A s \in Below(D, k + 1) : s # {} => s \ {Max(s)} \in Below(D, k)
    <3>1. SUFFICES ASSUME NEW s \in SUBSET D, Cardinality(s) <= k + 1, s # {}
                   PROVE  Cardinality(s \ {Max(s)}) <= k
      BY DEF Below
    <3>2. Max(s) \in s
      BY <3>1, MaxOf
    <3>3. Cardinality(s \ {Max(s)}) = Cardinality(s) - 1
      BY <3>2, <1>1, FS_RemoveElement
    <3> QED
      BY <2>0, <3>1, <3>3, <1>1
  <2> DEFINE h == [s \in Below(D, k + 1) |-> FoldStep(kind, base, seq, g, s)]
  <2>3. \A s \in Below(D, k) : s \in Below(D, k + 1) /\ h[s] = g[s]
    BY <2>0, <2>1, <1>1 DEF Below
  <2>4. h = [s \in Below(D, k + 1) |-> FoldStep(kind, base, seq, g, s)]
    OBVIOUS
  <2> HIDE DEF h
  <2>5. \A s \in Below(D, k + 1) : FoldStep(kind, base, seq, g, s) = FoldStep(kind, base, seq, h, s)
    BY <2>2, <2>3 DEF FoldStep
  <2>6. h = [s \in Below(D, k + 1) |-> FoldStep(kind, base, seq, h, s)]
    BY <2>4, <2>5
  <2> QED
    BY <2>0, <2>6
<1> HIDE DEF Good
<1>4. n \in Good
  BY <1>2, <1>3, NatSetInduction DEF Good
<1>5. Below(D, n) = SUBSET D
  <2>1. IsFiniteSet(D) /\ Cardinality(D) = n
    BY Segment
  <2>2. \A S \in SUBSET D : Cardinality(S) <= n
    BY <2>1, FS_Subset
  <2> QED
    BY <2>2 DEF Below
<1> QED
  BY <1>4, <1>5 DEF Good, IsFold

\* An element more is folded last.
LEMMA FoldMore ==
  ASSUME NEW kind, NEW base, NEW seq, NEW n \in Nat, DOMAIN seq = 1 .. n,
         NEW more, DOMAIN more = 1 .. (n + 1), \A i \in 1 .. n : more[i] = seq[i],
         NEW g, IsFold(kind, base, seq, g), NEW h, IsFold(kind, base, more, h)
  PROVE  h[1 .. (n + 1)] = Fold(kind, g[1 .. n], more[n + 1])
<1>1. /\ \A s \in SUBSET (1 .. n) : g[s] = FoldStep(kind, base, seq, g, s)
      /\ \A s \in SUBSET (1 .. (n + 1)) : h[s] = FoldStep(kind, base, more, h, s)
  <2>1. /\ g = [s \in SUBSET (1 .. n) |-> FoldStep(kind, base, seq, g, s)]
        /\ h = [s \in SUBSET (1 .. (n + 1)) |-> FoldStep(kind, base, more, h, s)]
    BY DEF IsFold
  <2>2. ASSUME NEW s \in SUBSET (1 .. n) PROVE g[s] = FoldStep(kind, base, seq, g, s)
    BY <2>1
  <2>3. ASSUME NEW s \in SUBSET (1 .. (n + 1)) PROVE h[s] = FoldStep(kind, base, more, h, s)
    BY <2>1
  <2> QED
    BY <2>2, <2>3
<1>2. \A k \in 1 .. (n + 1) : Max(1 .. k) = k /\ (1 .. k) \ {k} = 1 .. (k - 1) /\ 1 .. k # {}
  <2> SUFFICES ASSUME NEW k \in 1 .. (n + 1) PROVE Max(1 .. k) = k /\ (1 .. k) \ {k} = 1 .. (k - 1) /\ 1 .. k # {}
    OBVIOUS
  <2>1. k \in Nat /\ k \in 1 .. k
    OBVIOUS
  <2>2. Max(1 .. k) \in 1 .. k /\ k =< Max(1 .. k)
    BY <2>1, MaxOf
  <2> QED
    BY <2>1, <2>2
<1> DEFINE G == {k \in Nat : k =< n => h[1 .. k] = g[1 .. k]}
<1>3. 0 \in G
  <2>1. 1 .. 0 = {} /\ {} \in SUBSET (1 .. n) /\ {} \in SUBSET (1 .. (n + 1))
    OBVIOUS
  <2>2. h[{}] = base /\ g[{}] = base
    BY <1>1, <2>1 DEF FoldStep
  <2> QED
    BY <2>1, <2>2
<1>4. ASSUME NEW k \in G PROVE k + 1 \in G
  <2> SUFFICES ASSUME k + 1 =< n PROVE h[1 .. (k + 1)] = g[1 .. (k + 1)]
    OBVIOUS
  <2>1. /\ k \in Nat /\ h[1 .. k] = g[1 .. k] /\ k + 1 \in 1 .. n /\ k + 1 \in 1 .. (n + 1)
        /\ 1 .. (k + 1) \in SUBSET (1 .. n) /\ 1 .. (k + 1) \in SUBSET (1 .. (n + 1)) /\ (k + 1) - 1 = k
    OBVIOUS
  <2>2. Max(1 .. (k + 1)) = k + 1 /\ (1 .. (k + 1)) \ {k + 1} = 1 .. k /\ 1 .. (k + 1) # {}
    BY <1>2, <2>1
  <2>3. /\ h[1 .. (k + 1)] = Fold(kind, h[1 .. k], more[k + 1])
        /\ g[1 .. (k + 1)] = Fold(kind, g[1 .. k], seq[k + 1])
    BY <1>1, <2>1, <2>2 DEF FoldStep
  <2> QED
    BY <2>1, <2>3
<1> HIDE DEF G
<1>5. G = Nat
  <2>1. G \in SUBSET Nat
    BY DEF G
  <2> QED
    BY <1>3, <1>4, <2>1, NatSetInduction
<1>6. h[1 .. n] = g[1 .. n]
  BY <1>5 DEF G
<1>7. h[1 .. (n + 1)] = Fold(kind, h[1 .. n], more[n + 1])
  <2>1. n + 1 \in 1 .. (n + 1) /\ 1 .. (n + 1) \in SUBSET (1 .. (n + 1)) /\ (n + 1) - 1 = n
    OBVIOUS
  <2>2. Max(1 .. (n + 1)) = n + 1 /\ (1 .. (n + 1)) \ {n + 1} = 1 .. n /\ 1 .. (n + 1) # {}
    BY <1>2, <2>1
  <2> QED
    BY <1>1, <2>1, <2>2 DEF FoldStep
<1> QED
  BY <1>6, <1>7

\* What a sale matches, and what the reference has booked.
LotsFold(base, lots) ==
  CHOOSE f : f = [s \in SUBSET DOMAIN lots |->
                    IF s = {} THEN base ELSE MatchLot(f[s \ {Max(s)}], lots[Max(s)])]
BookFold(trades) ==
  CHOOSE f : f = [s \in SUBSET DOMAIN trades |->
                    IF s = {} THEN NoBook ELSE Book(f[s \ {Max(s)}], trades[Max(s)])]
Matched(base, lots) == FoldLeft(MatchLot, base, lots)

LEMMA MatchedIs == ASSUME NEW base, NEW lots PROVE Matched(base, lots) = LotsFold(base, lots)[DOMAIN lots]
BY DEF Matched, FoldLeft, MapThenFoldSet, LotsFold

LEMMA BookedIs == ASSUME NEW trades PROVE FaceByFace(trades) = BookFold(trades)[DOMAIN trades]
BY DEF FaceByFace, FoldLeft, MapThenFoldSet, BookFold, Book, NoBook, Units

LEMMA FoldsAre ==
  ASSUME NEW base, NEW seq, NEW n \in Nat, DOMAIN seq = 1 .. n
  PROVE  IsFold("lots", base, seq, LotsFold(base, seq)) /\ IsFold("trades", NoBook, seq, BookFold(seq))
<1>1. PICK f : IsFold("lots", base, seq, f)
  BY FoldExists
<1>2. PICK g : IsFold("trades", NoBook, seq, g)
  BY FoldExists
<1>3. \A h : IsFold("lots", base, seq, h)
        <=> h = [s \in SUBSET DOMAIN seq |-> IF s = {} THEN base ELSE MatchLot(h[s \ {Max(s)}], seq[Max(s)])]
  BY DEF IsFold, FoldStep, Fold
<1>4. \A h : IsFold("trades", NoBook, seq, h)
        <=> h = [s \in SUBSET DOMAIN seq |-> IF s = {} THEN NoBook ELSE Book(h[s \ {Max(s)}], seq[Max(s)])]
  BY DEF IsFold, FoldStep, Fold
<1>5. LotsFold(base, seq) = [s \in SUBSET DOMAIN seq |->
         IF s = {} THEN base ELSE MatchLot(LotsFold(base, seq)[s \ {Max(s)}], seq[Max(s)])]
  BY <1>1, <1>3, Zenon DEF LotsFold
<1>6. BookFold(seq) = [s \in SUBSET DOMAIN seq |->
         IF s = {} THEN NoBook ELSE Book(BookFold(seq)[s \ {Max(s)}], seq[Max(s)])]
  BY <1>2, <1>4, Zenon DEF BookFold
<1> QED
  BY <1>3, <1>4, <1>5, <1>6

LEMMA AppendIs ==
  ASSUME NEW S, NEW seq \in Seq(S), NEW x \in S
  PROVE  LET more == Append(seq, x)
             n == Len(seq)
         IN /\ n \in Nat /\ DOMAIN seq = 1 .. n /\ more \in Seq(S) /\ Len(more) = n + 1 /\ DOMAIN more = 1 .. (n + 1)
            /\ (\A i \in 1 .. n : more[i] = seq[i]) /\ more[n + 1] = x
<1> DEFINE more == Append(seq, x)
           n == Len(seq)
<1>1. /\ more \in Seq(S) /\ Len(more) = n + 1 /\ (\A i \in 1 .. n : more[i] = seq[i]) /\ more[n + 1] = x
  BY AppendProperties
<1>2. n \in Nat /\ DOMAIN seq = 1 .. n
  BY LenProperties
<1> HIDE DEF more, n
<1>3. DOMAIN more = 1 .. (n + 1)
  BY <1>1, LenProperties
<1> QED
  BY <1>1, <1>2, <1>3 DEF more, n

Lot == [face : Nat \ {0}, price : Nat]

LEMMA MatchedMore ==
  ASSUME NEW base
  PROVE  /\ Matched(base, << >>) = base
         /\ \A lots \in Seq(Lot) : \A lot \in Lot : Matched(base, Append(lots, lot)) = MatchLot(Matched(base, lots), lot)
<1>1. Matched(base, << >>) = base
  <2> DEFINE e == << >>
  <2>1. DOMAIN e = 1 .. 0 /\ DOMAIN e = {}
    OBVIOUS
  <2> HIDE DEF e
  <2>2. IsFold("lots", base, e, LotsFold(base, e))
    BY <2>1, FoldsAre
  <2>3. LotsFold(base, e) = [s \in SUBSET DOMAIN e |-> FoldStep("lots", base, e, LotsFold(base, e), s)]
    BY <2>2 DEF IsFold
  <2>4. {} \in SUBSET DOMAIN e
    OBVIOUS
  <2>5. LotsFold(base, e)[{}] = FoldStep("lots", base, e, LotsFold(base, e), {})
    BY <2>3, <2>4
  <2> QED
    BY <2>1, <2>5, MatchedIs DEF e, FoldStep
<1>2. ASSUME NEW lots \in Seq(Lot), NEW lot \in Lot
      PROVE  Matched(base, Append(lots, lot)) = MatchLot(Matched(base, lots), lot)
  <2> DEFINE more == Append(lots, lot)
             n == Len(lots)
  <2>1. /\ n \in Nat /\ DOMAIN lots = 1 .. n /\ DOMAIN more = 1 .. (n + 1)
        /\ (\A i \in 1 .. n : more[i] = lots[i]) /\ more[n + 1] = lot
    BY AppendIs
  <2> HIDE DEF more, n
  <2>2. IsFold("lots", base, lots, LotsFold(base, lots)) /\ IsFold("lots", base, more, LotsFold(base, more))
    <3>1. n + 1 \in Nat
      BY <2>1
    <3> QED
      BY <2>1, <3>1, FoldsAre
  <2>3. LotsFold(base, more)[1 .. (n + 1)] = Fold("lots", LotsFold(base, lots)[1 .. n], more[n + 1])
    <3> DEFINE g == LotsFold(base, lots)
               h == LotsFold(base, more)
    <3>1. IsFold("lots", base, lots, g) /\ IsFold("lots", base, more, h)
      BY <2>2
    <3> HIDE DEF g, h
    <3>2. h[1 .. (n + 1)] = Fold("lots", g[1 .. n], more[n + 1])
      BY <2>1, <3>1, FoldMore
    <3> QED
      BY <3>2 DEF g, h
  <2>4. Matched(base, more) = MatchLot(Matched(base, lots), lot)
    BY <2>1, <2>3, MatchedIs DEF Fold
  <2> QED
    BY <2>4 DEF more
<1> QED
  BY <1>1, <1>2

LEMMA BookedMore ==
  ASSUME NEW S
  PROVE  /\ FaceByFace(<< >>) = NoBook
         /\ \A trades \in Seq(S) : \A t \in S : FaceByFace(Append(trades, t)) = Book(FaceByFace(trades), t)
<1>1. FaceByFace(<< >>) = NoBook
  <2> DEFINE e == << >>
  <2>1. DOMAIN e = 1 .. 0 /\ DOMAIN e = {}
    OBVIOUS
  <2> HIDE DEF e
  <2>2. IsFold("trades", NoBook, e, BookFold(e))
    BY <2>1, FoldsAre
  <2>3. BookFold(e) = [s \in SUBSET DOMAIN e |-> FoldStep("trades", NoBook, e, BookFold(e), s)]
    BY <2>2 DEF IsFold
  <2>4. {} \in SUBSET DOMAIN e
    OBVIOUS
  <2>5. BookFold(e)[{}] = FoldStep("trades", NoBook, e, BookFold(e), {})
    BY <2>3, <2>4
  <2> QED
    BY <2>1, <2>5, BookedIs DEF e, FoldStep
<1>2. ASSUME NEW trades \in Seq(S), NEW t \in S
      PROVE  FaceByFace(Append(trades, t)) = Book(FaceByFace(trades), t)
  <2> DEFINE more == Append(trades, t)
             n == Len(trades)
  <2>1. /\ n \in Nat /\ DOMAIN trades = 1 .. n /\ DOMAIN more = 1 .. (n + 1)
        /\ (\A i \in 1 .. n : more[i] = trades[i]) /\ more[n + 1] = t
    BY AppendIs
  <2> HIDE DEF more, n
  <2>2. IsFold("trades", NoBook, trades, BookFold(trades)) /\ IsFold("trades", NoBook, more, BookFold(more))
    <3>1. n + 1 \in Nat
      BY <2>1
    <3> QED
      BY <2>1, <3>1, FoldsAre
  <2>3. BookFold(more)[1 .. (n + 1)] = Fold("trades", BookFold(trades)[1 .. n], more[n + 1])
    BY <2>1, <2>2, FoldMore
  <2>4. FaceByFace(more) = Book(FaceByFace(trades), t)
    BY <2>1, <2>3, BookedIs DEF Fold
  <2> QED
    BY <2>4 DEF more
<1> QED
  BY <1>1, <1>2

-----------------------------------------------------------------------------
(* What is held, face by face.                                             *)

FlatStep(seqs, f, i) == IF i = 1 THEN seqs[i] ELSE f[i - 1] \o seqs[i]
Flat(seqs) == CHOOSE f : f = [i \in 1 .. Len(seqs) |-> FlatStep(seqs, f, i)]

LEMMA FlatIs ==
  ASSUME NEW seqs
  PROVE  FlattenSeq(seqs) = IF Len(seqs) = 0 THEN seqs ELSE Flat(seqs)[Len(seqs)]
BY DEF FlattenSeq, Flat, FlatStep

LEMMA FlatExists ==
  ASSUME NEW seqs, NEW n \in Nat
  PROVE  \E f : f = [i \in 1 .. n |-> FlatStep(seqs, f, i)]
<1> DEFINE Good == {k \in Nat : \E f : f = [i \in 1 .. k |-> FlatStep(seqs, f, i)]}
<1>1. 0 \in Good
  <2> DEFINE f == [i \in 1 .. 0 |-> FlatStep(seqs, << >>, i)]
  <2>1. f = [i \in 1 .. 0 |-> FlatStep(seqs, f, i)]
    OBVIOUS
  <2> HIDE DEF f
  <2> QED
    BY <2>1
<1>2. ASSUME NEW k \in Good PROVE k + 1 \in Good
  <2>1. k \in Nat
    OBVIOUS
  <2>2. PICK f : f = [i \in 1 .. k |-> FlatStep(seqs, f, i)]
    OBVIOUS
  <2> DEFINE g == [i \in 1 .. (k + 1) |-> FlatStep(seqs, f, i)]
  <2>3. \A i \in 1 .. k : i \in 1 .. (k + 1) /\ g[i] = f[i]
    BY <2>1, <2>2
  <2>4. g = [i \in 1 .. (k + 1) |-> FlatStep(seqs, f, i)]
    OBVIOUS
  <2> HIDE DEF g
  <2>5. ASSUME NEW i \in 1 .. (k + 1) PROVE FlatStep(seqs, f, i) = FlatStep(seqs, g, i)
    <3>1. i # 1 => i - 1 \in 1 .. k
      BY <2>1
    <3> QED
      BY <2>3, <3>1 DEF FlatStep
  <2>6. g = [i \in 1 .. (k + 1) |-> FlatStep(seqs, g, i)]
    BY <2>4, <2>5
  <2> QED
    BY <2>1, <2>6
<1> HIDE DEF Good
<1>3. n \in Good
  BY <1>1, <1>2, NatSetInduction DEF Good
<1> QED
  BY <1>3 DEF Good

\* A sequence more is joined last.
LEMMA FlatMore ==
  ASSUME NEW seqs, NEW n \in Nat, Len(seqs) = n, NEW more, Len(more) = n + 1, \A i \in 1 .. n : more[i] = seqs[i],
         n = 0 => seqs = << >>, NEW S, more[n + 1] \in Seq(S)
  PROVE  FlattenSeq(more) = FlattenSeq(seqs) \o more[n + 1]
<1>1. /\ Flat(seqs) = [i \in 1 .. n |-> FlatStep(seqs, Flat(seqs), i)]
      /\ Flat(more) = [i \in 1 .. (n + 1) |-> FlatStep(more, Flat(more), i)]
  <2>1. n + 1 \in Nat
    OBVIOUS
  <2>2. (\E f : f = [i \in 1 .. n |-> FlatStep(seqs, f, i)]) /\ (\E f : f = [i \in 1 .. (n + 1) |-> FlatStep(more, f, i)])
    BY <2>1, FlatExists
  <2> QED
    BY <2>2, ZenonT(30) DEF Flat
<1> DEFINE f == Flat(seqs)
           g == Flat(more)
<1>2. /\ \A i \in 1 .. n : f[i] = FlatStep(seqs, f, i)
      /\ \A i \in 1 .. (n + 1) : g[i] = FlatStep(more, g, i)
  <2>1. f = [i \in 1 .. n |-> FlatStep(seqs, f, i)] /\ g = [i \in 1 .. (n + 1) |-> FlatStep(more, g, i)]
    BY <1>1
  <2> HIDE DEF f, g
  <2>2. ASSUME NEW i \in 1 .. n PROVE f[i] = FlatStep(seqs, f, i)
    BY <2>1
  <2>3. ASSUME NEW i \in 1 .. (n + 1) PROVE g[i] = FlatStep(more, g, i)
    BY <2>1
  <2> QED
    BY <2>2, <2>3
<1>3. FlattenSeq(more) = g[n + 1] /\ FlattenSeq(seqs) = IF n = 0 THEN seqs ELSE f[n]
  <2>1. n + 1 # 0
    OBVIOUS
  <2> QED
    BY <2>1, FlatIs
<1> HIDE DEF f, g
<1> DEFINE G == {k \in Nat : k + 1 =< n => g[k + 1] = f[k + 1]}
<1>4. 0 \in G
  <2> SUFFICES ASSUME 1 =< n PROVE g[1] = f[1]
    OBVIOUS
  <2>1. 1 \in 1 .. n /\ 1 \in 1 .. (n + 1)
    OBVIOUS
  <2> QED
    BY <1>2, <2>1 DEF FlatStep
<1>5. ASSUME NEW k \in G PROVE k + 1 \in G
  <2> SUFFICES ASSUME (k + 1) + 1 =< n PROVE g[(k + 1) + 1] = f[(k + 1) + 1]
    OBVIOUS
  <2>1. /\ (k + 1) + 1 \in 1 .. n /\ (k + 1) + 1 \in 1 .. (n + 1) /\ (k + 1) + 1 # 1 /\ ((k + 1) + 1) - 1 = k + 1
        /\ g[k + 1] = f[k + 1]
    OBVIOUS
  <2> QED
    BY <1>2, <2>1 DEF FlatStep
<1> HIDE DEF G
<1>6. G = Nat
  <2>1. G \in SUBSET Nat
    BY DEF G
  <2> QED
    BY <1>4, <1>5, <2>1, NatSetInduction
<1>7. CASE n = 0
  <2>1. 1 \in 1 .. (n + 1) /\ n + 1 = 1
    BY <1>7
  <2>2. g[n + 1] = more[n + 1]
    BY <1>2, <2>1 DEF FlatStep
  <2>3. << >> \o more[n + 1] = more[n + 1]
    BY ConcatEmptySeq
  <2> QED
    BY <1>3, <1>7, <2>2, <2>3
<1>8. CASE n # 0
  <2>1. /\ n - 1 \in Nat /\ (n - 1) + 1 = n /\ n + 1 \in 1 .. (n + 1) /\ n + 1 # 1 /\ (n + 1) - 1 = n
    BY <1>8
  <2>2. g[n] = f[n]
    <3>1. n - 1 \in G
      BY <1>6, <2>1
    <3> QED
      BY <2>1, <3>1 DEF G
  <2>3. g[n + 1] = g[n] \o more[n + 1]
    BY <1>2, <2>1 DEF FlatStep
  <2> QED
    BY <1>3, <1>8, <2>2, <2>3
<1> QED
  BY <1>7, <1>8

\* The faces of some lots, one after the other.
FaceOf(lots) == FlattenSeq([i \in DOMAIN lots |-> Units(lots[i])])

LEMMA UnitsAre ==
  ASSUME NEW face \in Nat, NEW price \in Nat, NEW t, t.face = face, t.price = price
  PROVE  /\ Units(t) \in Seq(Nat) /\ Len(Units(t)) = face
         /\ Units(t) = [u \in 1 .. face |-> price]
<1>1. Units(t) = [u \in 1 .. face |-> price]
  BY DEF Units
<1>2. Units(t) \in [1 .. face -> Nat]
  BY <1>1
<1> HIDE DEF Units
<1>3. Units(t) \in Seq(Nat)
  BY <1>2
<1>4. Len(Units(t)) = face
  BY <1>2
<1> QED
  BY <1>1, <1>3, <1>4

LEMMA FaceOfMore ==
  /\ FaceOf(<< >>) = << >>
  /\ \A lots \in Seq(Lot) : \A lot \in Lot : FaceOf(Append(lots, lot)) = FaceOf(lots) \o Units(lot)
<1>1. FaceOf(<< >>) = << >>
  <2>1. [i \in DOMAIN << >> |-> Units(<< >>[i])] = << >> /\ Len(<< >>) = 0
    OBVIOUS
  <2> QED
    BY <2>1, FlatIs DEF FaceOf
<1>2. ASSUME NEW lots \in Seq(Lot), NEW lot \in Lot
      PROVE  FaceOf(Append(lots, lot)) = FaceOf(lots) \o Units(lot)
  <2> DEFINE more == Append(lots, lot)
             n == Len(lots)
             seqs == [i \in DOMAIN lots |-> Units(lots[i])]
             all == [i \in DOMAIN more |-> Units(more[i])]
  <2>1. /\ n \in Nat /\ DOMAIN lots = 1 .. n /\ DOMAIN more = 1 .. (n + 1)
        /\ (\A i \in 1 .. n : more[i] = lots[i]) /\ more[n + 1] = lot
    BY AppendIs
  <2> HIDE DEF more, n
  <2>2. /\ seqs = [i \in 1 .. n |-> Units(lots[i])] /\ all = [i \in 1 .. (n + 1) |-> Units(more[i])]
    BY <2>1
  <2>3. Len(seqs) = n /\ Len(all) = n + 1 /\ (n = 0 => seqs = << >>)
    <3> HIDE DEF seqs, all
    <3>1. n + 1 \in Nat
      BY <2>1
    <3>2. DOMAIN seqs = 1 .. n /\ DOMAIN all = 1 .. (n + 1)
      BY <2>2
    <3>3. Len(seqs) = n /\ Len(all) = n + 1
      BY <2>1, <2>2, <3>1
    <3>4. n = 0 => seqs = << >>
      BY <2>2
    <3> QED
      BY <3>3, <3>4
  <2>4. (\A i \in 1 .. n : all[i] = seqs[i]) /\ all[n + 1] = Units(lot)
    BY <2>1, <2>2
  <2>5. Units(lot) \in Seq(Nat)
    BY UnitsAre DEF Lot
  <2> HIDE DEF seqs, all
  <2>6. FlattenSeq(all) = FlattenSeq(seqs) \o all[n + 1]
    BY <2>1, <2>3, <2>4, <2>5, FlatMore
  <2> QED
    BY <2>4, <2>6 DEF FaceOf, more, seqs, all
<1> QED
  BY <1>1, <1>2

\* What holds of the empty sequence, and of one with an element more, holds of
\* every sequence.
LEMMA AppendInduction ==
  ASSUME NEW S, NEW G, << >> \in G, \A s \in Seq(S) : \A x \in S : s \in G => Append(s, x) \in G
  PROVE  \A s \in Seq(S) : s \in G
<1> SUFFICES ASSUME NEW s \in Seq(S) PROVE s \in G
  OBVIOUS
<1> DEFINE n == Len(s)
           Good == {k \in Nat : k =< n => SubSeq(s, 1, k) \in G}
<1>1. n \in Nat /\ \A i \in 1 .. n : s[i] \in S
  BY LenProperties, ElementOfSeq
<1>2. 0 \in Good
  <2>1. SubSeq(s, 1, 0) = << >>
    BY SubSeqEmpty
  <2> QED
    BY <2>1
<1>3. ASSUME NEW k \in Good PROVE k + 1 \in Good
  <2> SUFFICES ASSUME k + 1 =< n PROVE SubSeq(s, 1, k + 1) \in G
    OBVIOUS
  <2>1. k \in Nat /\ k + 1 \in Nat /\ k + 1 \in 1 .. n
    BY <1>1
  <2>2. SubSeq(s, 1, k) \in G
    BY <1>1, <2>1
  <2> HIDE DEF n
  <2>3. /\ SubSeq(s, 1, k) \in Seq(S) /\ Len(SubSeq(s, 1, k)) = k
        /\ \A i \in 1 .. k : SubSeq(s, 1, k)[i] = s[i]
    <3>1. /\ \A i \in 1 .. k : s[i] \in S
      BY <1>1, <2>1
    <3>2. /\ SubSeq(s, 1, k) \in Seq(S) /\ Len(SubSeq(s, 1, k)) = (IF 1 =< k THEN k - 1 + 1 ELSE 0)
          /\ \A i \in 1 .. (k - 1 + 1) : SubSeq(s, 1, k)[i] = s[1 + i - 1]
      BY <2>1, <3>1, SubSeqProperties
    <3> QED
      BY <2>1, <3>2
  <2>4. /\ SubSeq(s, 1, k + 1) \in Seq(S) /\ Len(SubSeq(s, 1, k + 1)) = k + 1
        /\ \A i \in 1 .. (k + 1) : SubSeq(s, 1, k + 1)[i] = s[i]
    <3>1. /\ \A i \in 1 .. (k + 1) : s[i] \in S
      BY <1>1, <2>1
    <3>2. /\ SubSeq(s, 1, k + 1) \in Seq(S) /\ Len(SubSeq(s, 1, k + 1)) = (IF 1 =< k + 1 THEN (k + 1) - 1 + 1 ELSE 0)
          /\ \A i \in 1 .. ((k + 1) - 1 + 1) : SubSeq(s, 1, k + 1)[i] = s[1 + i - 1]
      BY <2>1, <3>1, SubSeqProperties
    <3> QED
      BY <2>1, <3>2
  <2> DEFINE a == SubSeq(s, 1, k)
             b == SubSeq(s, 1, k + 1)
             c == Append(a, s[k + 1])
  <2>5. s[k + 1] \in S
    BY <1>1, <2>1
  <2>6. /\ c \in Seq(S) /\ Len(c) = k + 1 /\ (\A i \in 1 .. k : c[i] = a[i]) /\ c[k + 1] = s[k + 1]
    BY <2>3, <2>5, AppendProperties
  <2>10. b \in Seq(S) /\ Len(b) = k + 1 /\ (\A i \in 1 .. (k + 1) : b[i] = s[i]) /\ (\A i \in 1 .. k : a[i] = s[i])
         /\ a \in Seq(S) /\ a \in G
    BY <2>2, <2>3, <2>4
  <2>11. a \in G => c \in G
    BY <2>5, <2>10
  <2> HIDE DEF a, b, c
  <2>7. \A i \in 1 .. (k + 1) : b[i] = c[i]
    <3> SUFFICES ASSUME NEW i \in 1 .. (k + 1) PROVE b[i] = c[i]
      OBVIOUS
    <3>1. i \in 1 .. k \/ i = k + 1
      BY <2>1
    <3> QED
      BY <2>1, <2>6, <2>10, <3>1
  <2>8. b = c
    BY <2>6, <2>7, <2>10, SeqEqual
  <2> QED
    BY <2>8, <2>10, <2>11 DEF b
<1> HIDE DEF Good
<1>4. n \in Good
  BY <1>1, <1>2, <1>3, NatSetInduction DEF Good
<1>5. SubSeq(s, 1, n) = s
  BY SubSeqFull
<1>6. SubSeq(s, 1, n) \in G
  <2> HIDE DEF n
  <2> QED
    BY <1>1, <1>4 DEF Good
<1> QED
  BY <1>5, <1>6

\* Sums over sequences.
LEMMA SumAppended ==
  ASSUME NEW s \in Seq(Int), NEW x \in Int
  PROVE  SumOf(s) \in Int /\ SumOf(Append(s, x)) = SumOf(s) + x
<1> DEFINE more == Append(s, x)
           n == Len(s)
<1>1. /\ n \in Nat /\ DOMAIN s = 1 .. n /\ more \in Seq(Int) /\ DOMAIN more = 1 .. (n + 1) /\ Len(more) = n + 1
      /\ (\A i \in 1 .. n : more[i] = s[i]) /\ more[n + 1] = x
  BY AppendIs
<1> HIDE DEF more, n
<1>2. (\A i \in 1 .. n : s[i] \in Int) /\ (\A i \in 1 .. (n + 1) : more[i] \in Int)
  BY <1>1, ElementOfSeq
<1>3. IsFiniteSet(1 .. n) /\ IsFiniteSet(1 .. (n + 1))
  <2>1. n + 1 \in Nat
    BY <1>1
  <2> QED
    BY <1>1, <2>1, Segment
<1>4. SumOf(s) = Sums(s)[1 .. n] /\ SumOf(more) = Sums(more)[1 .. (n + 1)]
  BY <1>1, SumOfIsSum
<1>5. AddsUp(Sums(more), more, 1 .. (n + 1))
  BY <1>1, <1>2, <1>3, SumsAddUp
<1>6. n + 1 \in 1 .. (n + 1) /\ (1 .. (n + 1)) \ {n + 1} = 1 .. n /\ 1 .. n \subseteq 1 .. (n + 1)
  BY <1>1
<1>7. Sums(more)[1 .. (n + 1)] = more[n + 1] + Sums(more)[1 .. n]
  <2> DEFINE E == 1 .. (n + 1)
             g == Sums(more)
  <2>1. AddsUp(g, more, E) /\ E \in SUBSET E /\ n + 1 \in E /\ E \ {n + 1} = 1 .. n
    BY <1>5, <1>6
  <2> HIDE DEF E, g
  <2>2. g[E] = more[n + 1] + g[E \ {n + 1}]
    BY <2>1 DEF AddsUp
  <2> QED
    BY <2>1, <2>2 DEF E, g
<1>8. Sums(s)[1 .. n] = Sums(more)[1 .. n] /\ Sums(s)[1 .. n] \in Int
  <2> DEFINE R == 1 .. n
             E == 1 .. (n + 1)
  <2>1. R = DOMAIN s /\ E = DOMAIN more /\ IsFiniteSet(R) /\ IsFiniteSet(E) /\ R \subseteq R /\ R \subseteq E
        /\ (\A i \in R : s[i] \in Int) /\ (\A i \in E : more[i] \in Int) /\ \A i \in R : s[i] = more[i]
    BY <1>1, <1>2, <1>3, <1>6
  <2> HIDE DEF R, E
  <2>2. Sums(s)[R] = Sums(more)[R] /\ Sums(s)[R] \in Int
    BY <2>1, SumsAgree
  <2> QED
    BY <2>2 DEF R
<1> QED
  BY <1>1, <1>4, <1>7, <1>8 DEF more

LEMMA SumOfNothing == SumOf(<< >>) = 0
<1> DEFINE e == << >>
<1>1. DOMAIN e = {} /\ \A x \in {} : e[x] \in Int
  OBVIOUS
<1> HIDE DEF e
<1>2. SumOf(e) = Sums(e)[{}]
  BY <1>1, SumOfIsSum
<1>3. Sums(e)[{}] = 0
  BY <1>1, FS_EmptySet, SumsAddUp DEF AddsUp
<1> QED
  BY <1>2, <1>3 DEF e

LEMMA SumJoined ==
  ASSUME NEW u \in Seq(Int), NEW v \in Seq(Int)
  PROVE  SumOf(u) \in Int /\ SumOf(v) \in Int /\ SumOf(u \o v) = SumOf(u) + SumOf(v)
<1> DEFINE G == {w \in Seq(Int) : SumOf(u \o w) = SumOf(u) + SumOf(w)}
<1>1. \A w \in Seq(Int) : SumOf(w) \in Int
  BY SumAppended
<1>2. << >> \in G
  <2>1. << >> \in Seq(Int) /\ u \o << >> = u
    BY ConcatEmptySeq, EmptySeq
  <2> QED
    BY <1>1, <2>1, SumOfNothing
<1>3. ASSUME NEW s \in Seq(Int), NEW x \in Int, s \in G PROVE Append(s, x) \in G
  <2>1. u \o Append(s, x) = Append(u \o s, x)
    <3>1. Append(s, x) = s \o <<x>> /\ <<x>> \in Seq(Int) /\ u \o s \in Seq(Int)
      BY AppendIsConcat, ConcatProperties
    <3>2. Append(u \o s, x) = (u \o s) \o <<x>>
      BY <3>1, AppendIsConcat
    <3>3. (u \o s) \o <<x>> = u \o (s \o <<x>>)
      BY <3>1, ConcatAssociative, SMTT(30)
    <3> QED
      BY <3>1, <3>2, <3>3
  <2>2. u \o s \in Seq(Int) /\ Append(s, x) \in Seq(Int)
    BY ConcatProperties, AppendProperties
  <2>3. SumOf(Append(u \o s, x)) = SumOf(u \o s) + x /\ SumOf(Append(s, x)) = SumOf(s) + x
    BY <2>2, SumAppended
  <2>4. SumOf(u \o s) = SumOf(u) + SumOf(s)
    BY <1>3
  <2>5. SumOf(u) \in Int /\ SumOf(s) \in Int
    BY <1>1
  <2>6. SumOf(u \o Append(s, x)) = SumOf(u) + SumOf(Append(s, x))
    <3> DEFINE a == SumOf(u)
               b == SumOf(s)
    <3>1. SumOf(Append(u \o s, x)) = (a + b) + x /\ SumOf(Append(s, x)) = b + x /\ a \in Int /\ b \in Int
      BY <2>3, <2>4, <2>5
    <3>2. (a + b) + x = a + (b + x)
      <4> HIDE DEF a, b
      <4> QED
        BY <3>1
    <3> QED
      BY <2>1, <3>1, <3>2
  <2> QED
    BY <2>2, <2>6
<1> HIDE DEF G
<1>4. v \in G
  BY <1>2, <1>3, AppendInduction
<1> QED
  BY <1>1, <1>4 DEF G

Alike(n, p) == [u \in 1 .. n |-> p]

LEMMA AlikeIs ==
  ASSUME NEW n \in Nat, NEW p \in Nat
  PROVE  Alike(n, p) \in Seq(Nat) /\ Len(Alike(n, p)) = n /\ \A u \in 1 .. n : Alike(n, p)[u] = p
<1> DEFINE a == Alike(n, p)
<1>1. a \in [1 .. n -> Nat] /\ \A u \in 1 .. n : a[u] = p
  BY DEF Alike
<1> HIDE DEF a
<1>2. a \in Seq(Nat) /\ Len(a) = n
  BY <1>1
<1> QED
  BY <1>1, <1>2 DEF a

LEMMA AlikeJoin ==
  ASSUME NEW n \in Nat, NEW m \in Nat, NEW p \in Nat
  PROVE  Alike(n + m, p) = Alike(n, p) \o Alike(m, p)
<1> DEFINE a == Alike(n, p)
           b == Alike(m, p)
           c == Alike(n + m, p)
<1>1. n + m \in Nat
  OBVIOUS
<1>2. /\ a \in Seq(Nat) /\ Len(a) = n /\ (\A u \in 1 .. n : a[u] = p)
      /\ b \in Seq(Nat) /\ Len(b) = m /\ (\A u \in 1 .. m : b[u] = p)
      /\ c \in Seq(Nat) /\ Len(c) = n + m /\ (\A u \in 1 .. (n + m) : c[u] = p)
  BY <1>1, AlikeIs
<1> HIDE DEF a, b, c
<1>3. /\ a \o b \in Seq(Nat) /\ Len(a \o b) = n + m
      /\ \A i \in 1 .. (n + m) : (a \o b)[i] = IF i <= n THEN a[i] ELSE b[i - n]
  BY <1>2, ConcatProperties
<1>4. \A i \in 1 .. (n + m) : c[i] = (a \o b)[i]
  BY <1>2, <1>3
<1>5. c = a \o b
  BY <1>2, <1>3, <1>4, SeqEqual
<1> QED
  BY <1>5 DEF a, b, c

LEMMA SumAlike ==
  ASSUME NEW n \in Nat, NEW p \in Nat
  PROVE  SumOf(Alike(n, p)) = n * p
<1> DEFINE G == {k \in Nat : SumOf(Alike(k, p)) = k * p}
<1>1. 0 \in G
  <2>1. Alike(0, p) = << >>
    BY DEF Alike
  <2> QED
    BY <2>1, SumOfNothing
<1>2. ASSUME NEW k \in G PROVE k + 1 \in G
  <2>1. k \in Nat /\ SumOf(Alike(k, p)) = k * p
    OBVIOUS
  <2>2. Alike(k, p) \in Seq(Int)
    BY <2>1, AlikeIs, SeqMonotonic
  <2>3. Alike(k + 1, p) = Append(Alike(k, p), p)
    <3>1. Alike(k + 1, p) = Alike(k, p) \o Alike(1, p)
      BY <2>1, AlikeJoin
    <3>2. Alike(1, p) = <<p>>
      BY DEF Alike
    <3> DEFINE a == Alike(k, p)
    <3>3. a \in Seq(Int) /\ p \in Int
      BY <2>2
    <3> HIDE DEF a
    <3>4. Append(a, p) = a \o <<p>>
      BY <3>3, AppendIsConcat
    <3> QED
      BY <3>1, <3>2, <3>4 DEF a
  <2>4. SumOf(Append(Alike(k, p), p)) = SumOf(Alike(k, p)) + p
    BY <2>2, SumAppended
  <2>5. k * p + p = (k + 1) * p
    BY <2>1
  <2>6. SumOf(Alike(k + 1, p)) = (k + 1) * p
    BY <2>1, <2>3, <2>4, <2>5, Zenon
  <2> QED
    BY <2>1, <2>6
<1> HIDE DEF G
<1>3. n \in G
  BY <1>1, <1>2, NatSetInduction DEF G
<1> QED
  BY <1>3 DEF G

\* What is held is as many units as the faces of the lots add up to.
LEMMA FaceCount ==
  ASSUME NEW lots \in Seq(Lot)
  PROVE  /\ FaceOf(lots) \in Seq(Nat)
         /\ SumOf([i \in DOMAIN lots |-> lots[i].face]) = Len(FaceOf(lots))
<1> DEFINE Sizes(l) == [i \in DOMAIN l |-> l[i].face]
           G == {l \in Seq(Lot) : FaceOf(l) \in Seq(Nat) /\ Sizes(l) \in Seq(Int) /\ SumOf(Sizes(l)) = Len(FaceOf(l))}
<1>1. << >> \in G
  <2>1. Sizes(<< >>) = << >> /\ << >> \in Seq(Lot) /\ << >> \in Seq(Nat) /\ << >> \in Seq(Int) /\ Len(<< >>) = 0
    OBVIOUS
  <2> HIDE DEF Sizes
  <2> QED
    BY <2>1, FaceOfMore, SumOfNothing
<1>2. ASSUME NEW l \in Seq(Lot), NEW x \in Lot, l \in G PROVE Append(l, x) \in G
  <2> DEFINE more == Append(l, x)
             n == Len(l)
  <2>1. /\ n \in Nat /\ DOMAIN l = 1 .. n /\ DOMAIN more = 1 .. (n + 1) /\ more \in Seq(Lot)
        /\ (\A i \in 1 .. n : more[i] = l[i]) /\ more[n + 1] = x
    BY AppendIs
  <2>2. FaceOf(more) = FaceOf(l) \o Units(x)
    BY FaceOfMore
  <2>3. x.face \in Nat /\ x.price \in Nat /\ Units(x) \in Seq(Nat) /\ Len(Units(x)) = x.face
    BY UnitsAre DEF Lot
  <2>4. FaceOf(l) \in Seq(Nat) /\ Sizes(l) \in Seq(Int) /\ SumOf(Sizes(l)) = Len(FaceOf(l))
    BY <1>2
  <2>5. FaceOf(more) \in Seq(Nat) /\ Len(FaceOf(more)) = Len(FaceOf(l)) + x.face
    <3> DEFINE u == FaceOf(l)
               v == Units(x)
    <3>1. u \in Seq(Nat) /\ v \in Seq(Nat)
      BY <2>3, <2>4
    <3> HIDE DEF u, v
    <3>2. u \o v \in Seq(Nat) /\ Len(u \o v) = Len(u) + Len(v)
      BY <3>1, ConcatProperties
    <3> QED
      BY <2>2, <2>3, <3>2 DEF u, v
  <2>6. Sizes(more) = Append(Sizes(l), x.face) /\ Append(Sizes(l), x.face) \in Seq(Int)
    <3> DEFINE a == Sizes(l)
               b == Sizes(more)
               c == Append(a, x.face)
    <3> HIDE DEF more, n
    <3>1. /\ DOMAIN a = 1 .. n /\ (\A i \in 1 .. n : a[i] = l[i].face)
          /\ DOMAIN b = 1 .. (n + 1) /\ (\A i \in 1 .. (n + 1) : b[i] = more[i].face)
          /\ b = [i \in 1 .. (n + 1) |-> b[i]]
      BY <2>1
    <3>2. a \in Seq(Int) /\ x.face \in Int
      BY <2>3, <2>4
    <3> HIDE DEF a, b, c, Sizes
    <3>3. Len(a) = n
      BY <2>1, <3>1, <3>2, LenProperties
    <3>4. /\ c \in Seq(Int) /\ DOMAIN c = 1 .. (n + 1) /\ (\A i \in 1 .. n : c[i] = a[i]) /\ c[n + 1] = x.face
      BY <3>2, <3>3, AppendIs DEF c
    <3>5. \A i \in 1 .. (n + 1) : b[i] = c[i]
      <4> SUFFICES ASSUME NEW i \in 1 .. (n + 1) PROVE b[i] = c[i]
        OBVIOUS
      <4>1. i \in 1 .. n \/ i = n + 1
        BY <2>1
      <4> QED
        BY <2>1, <3>1, <3>4, <4>1
    <3>6. c = [i \in 1 .. (n + 1) |-> c[i]]
      BY <3>4
    <3>7. b = c
      BY <3>1, <3>5, <3>6
    <3> QED
      BY <3>4, <3>7 DEF a, b, c
  <2> HIDE DEF Sizes
  <2>7. SumOf(Append(Sizes(l), x.face)) = SumOf(Sizes(l)) + x.face
    <3> DEFINE a == Sizes(l)
               y == x.face
    <3>1. a \in Seq(Int) /\ y \in Int
      BY <2>3, <2>4
    <3> HIDE DEF a, y
    <3>2. SumOf(Append(a, y)) = SumOf(a) + y
      BY <3>1, SumAppended
    <3> QED
      BY <3>2 DEF a, y
  <2> QED
    BY <2>1, <2>4, <2>5, <2>6, <2>7
<1> HIDE DEF G, Sizes
<1>3. lots \in G
  BY <1>1, <1>2, AppendInduction
<1> QED
  BY <1>3 DEF G, Sizes

-----------------------------------------------------------------------------
(* A sale.                                                                 *)

MatchType == [remaining : Nat, cost : Int, sold : Nat, kept : Seq(Lot)]

\* `gone` is what a sale of so much face has taken from `all` so far.
Sold(m, gone, all, face) ==
  /\ m \in MatchType /\ gone \in Seq(Nat) /\ all = gone \o FaceOf(m.kept)
  /\ Len(gone) = m.sold /\ m.sold + m.remaining = face /\ m.cost = SumOf(gone)
  /\ m.remaining > 0 => m.kept = << >>

LEMMA NatsAreInts == \A s \in Seq(Nat) : s \in Seq(Int)
<1> SUFFICES ASSUME NEW s \in Seq(Nat) PROVE s \in Seq(Int)
  OBVIOUS
<1>1. Nat \subseteq Int
  OBVIOUS
<1> QED
  BY <1>1, SeqMonotonic

\* What is kept when so much of a lot has gone.
KeptIs(kept, old, lot, x) ==
  /\ x = lot.face => kept = old
  /\ x < lot.face => \E l \in Lot : kept = Append(old, l) /\ l.face = lot.face - x /\ l.price = lot.price

LEMMA MatchLotIs ==
  ASSUME NEW m \in MatchType, NEW lot \in Lot, NEW x, x = Least(m.remaining, lot.face),
         NEW new, new = MatchLot(m, lot)
  PROVE  /\ new \in MatchType
         /\ x \in Nat /\ x =< m.remaining /\ x =< lot.face /\ (x < lot.face => x = m.remaining)
         /\ new.remaining = m.remaining - x /\ new.cost = m.cost + x * lot.price /\ new.sold = m.sold + x
         /\ KeptIs(new.kept, m.kept, lot, x)
<1>1. /\ m.remaining \in Nat /\ m.cost \in Int /\ m.sold \in Nat /\ m.kept \in Seq(Lot)
      /\ lot.face \in Nat \ {0} /\ lot.price \in Nat
  BY DEF MatchType, Lot
<1>2. x \in Nat /\ x =< m.remaining /\ x =< lot.face /\ (x < lot.face => x = m.remaining)
  BY <1>1 DEF Least
<1> DEFINE l == [lot EXCEPT !.face = @ - x]
           kept == IF x = lot.face THEN m.kept ELSE Append(m.kept, l)
           cost == m.cost + x * lot.price
<1>3. new = [remaining |-> m.remaining - x, cost |-> cost, sold |-> m.sold + x, kept |-> kept]
  BY DEF MatchLot
<1>4. cost \in Int
  <2>1. x * lot.price \in Int
    BY <1>1, <1>2
  <2> QED
    BY <1>1, <2>1
<1>5. x < lot.face => l \in Lot /\ l.face = lot.face - x /\ l.price = lot.price
  BY <1>1, <1>2 DEF Lot
<1>6. kept \in Seq(Lot) /\ (x < lot.face => kept = Append(m.kept, l)) /\ (x = lot.face => kept = m.kept)
  BY <1>1, <1>2, <1>5, AppendProperties
<1>7. cost = m.cost + x * lot.price
  OBVIOUS
<1> HIDE DEF l, kept, cost
<1>8. m.remaining - x \in Nat /\ m.sold + x \in Nat
  BY <1>1, <1>2
<1>9. new \in MatchType
  BY <1>3, <1>4, <1>6, <1>8 DEF MatchType
<1>10. /\ new.remaining = m.remaining - x /\ new.cost = m.cost + x * lot.price
       /\ new.sold = m.sold + x /\ new.kept = kept
  BY <1>3, <1>7
<1>11. KeptIs(new.kept, m.kept, lot, x)
  BY <1>5, <1>6, <1>10 DEF KeptIs
<1> QED
  BY <1>2, <1>9, <1>10, <1>11

LEMMA Joined ==
  /\ \A s, t \in Seq(Nat) : s \o t \in Seq(Nat)
  /\ \A s, t, u \in Seq(Nat) : (s \o t) \o u = s \o (t \o u)
<1>1. ASSUME NEW s \in Seq(Nat), NEW t \in Seq(Nat) PROVE s \o t \in Seq(Nat)
  BY ConcatProperties
<1>2. ASSUME NEW s \in Seq(Nat), NEW t \in Seq(Nat), NEW u \in Seq(Nat)
      PROVE  (s \o t) \o u = s \o (t \o u)
  BY ConcatAssociative
<1> QED
  BY <1>1, <1>2

Join(s, t) == s \o t

LEMMA JoinIs ==
  /\ \A s, t \in Seq(Nat) : Join(s, t) \in Seq(Nat)
  /\ \A s, t, u \in Seq(Nat) : Join(Join(s, t), u) = Join(s, Join(t, u))
BY Joined DEF Join

\* Four sequences, and two of them that change places.
LEMMA Rearranged ==
  ASSUME NEW g \in Seq(Nat), NEW k \in Seq(Nat), NEW a \in Seq(Nat), NEW b \in Seq(Nat),
         Join(k, a) = Join(a, k)
  PROVE  Join(Join(g, k), Join(a, b)) = Join(Join(g, a), Join(k, b))
<1>1. Join(a, b) \in Seq(Nat) /\ Join(k, b) \in Seq(Nat)
  BY JoinIs
<1>2. Join(Join(g, k), Join(a, b)) = Join(g, Join(k, Join(a, b)))
  BY <1>1, JoinIs
<1>3. Join(k, Join(a, b)) = Join(Join(k, a), b) /\ Join(a, Join(k, b)) = Join(Join(a, k), b)
  BY JoinIs
<1>4. Join(Join(g, a), Join(k, b)) = Join(g, Join(a, Join(k, b)))
  BY <1>1, JoinIs
<1> QED
  BY <1>2, <1>3, <1>4

\* A lot more.
LEMMA SoldMore ==
  ASSUME NEW m, NEW gone, NEW all, NEW face \in Nat, Sold(m, gone, all, face), NEW lot \in Lot,
         NEW new, new = MatchLot(m, lot), NEW x, x = Least(m.remaining, lot.face),
         NEW f, f = lot.face, NEW p, p = lot.price
  PROVE  \E more : Sold(new, more, all \o Units(lot), face)
<1> DEFINE K == FaceOf(m.kept)
           a == Alike(x, p)
           b == Alike(f - x, p)
           more == gone \o a
<1>1. /\ m \in MatchType /\ gone \in Seq(Nat) /\ all = gone \o K
      /\ Len(gone) = m.sold /\ m.sold + m.remaining = face /\ m.cost = SumOf(gone)
      /\ m.remaining > 0 => m.kept = << >>
  BY DEF Sold
<1>2. /\ m.remaining \in Nat /\ m.cost \in Int /\ m.sold \in Nat /\ m.kept \in Seq(Lot)
      /\ f \in Nat \ {0} /\ p \in Nat
  BY <1>1 DEF MatchType, Lot
<1>3. /\ new \in MatchType
      /\ x \in Nat /\ x =< m.remaining /\ x =< f /\ (x < f => x = m.remaining)
      /\ new.remaining = m.remaining - x /\ new.cost = m.cost + x * p /\ new.sold = m.sold + x
      /\ x = f => new.kept = m.kept
      /\ x < f => \E l \in Lot : new.kept = Append(m.kept, l) /\ l.face = f - x /\ l.price = p
  <2>1. m \in MatchType
    BY <1>1
  <2>2. /\ new \in MatchType
        /\ x \in Nat /\ x =< m.remaining /\ x =< lot.face /\ (x < lot.face => x = m.remaining)
    BY <2>1, MatchLotIs
  <2>3. /\ new.remaining = m.remaining - x /\ new.cost = m.cost + x * lot.price /\ new.sold = m.sold + x
        /\ KeptIs(new.kept, m.kept, lot, x)
    BY <2>1, MatchLotIs
  <2> QED
    BY <2>2, <2>3 DEF KeptIs
<1>4. f - x \in Nat /\ f = x + (f - x)
  BY <1>2, <1>3
<1>5. K \in Seq(Nat)
  BY <1>2, FaceCount
<1>6. a \in Seq(Nat) /\ Len(a) = x /\ b \in Seq(Nat) /\ Len(b) = f - x
  BY <1>2, <1>3, <1>4, AlikeIs
<1>7. Units(lot) = a \o b
  <2>1. Units(lot) = Alike(f, p)
    BY DEF Units, Alike
  <2>2. Alike(x + (f - x), p) = a \o b
    <3> DEFINE y == f - x
    <3>1. x \in Nat /\ y \in Nat /\ p \in Nat
      BY <1>2, <1>3, <1>4
    <3> HIDE DEF y
    <3>2. Alike(x + y, p) = Alike(x, p) \o Alike(y, p)
      BY <3>1, AlikeJoin, ZenonT(30)
    <3> QED
      BY <3>2 DEF y
  <2> HIDE DEF a, b
  <2> QED
    BY <1>4, <2>1, <2>2
<1>8. FaceOf(new.kept) = K \o b
  <2>1. CASE x = f
    <3>1. b = << >>
      BY <2>1, <1>2, <1>3 DEF Alike
    <3> QED
      BY <1>3, <1>5, <2>1, <3>1, ConcatEmptySeq
  <2>2. CASE x < f
    <3>1. PICK l \in Lot : new.kept = Append(m.kept, l) /\ l.face = f - x /\ l.price = p
      BY <1>3, <2>2
    <3>2. FaceOf(new.kept) = K \o Units(l)
      BY <1>2, <3>1, FaceOfMore
    <3>3. Units(l) = b
      BY <3>1 DEF Units, Alike
    <3> QED
      BY <3>2, <3>3
  <2> QED
    BY <1>2, <1>3, <2>1, <2>2
<1>9. K \o a = a \o K
  <2>1. CASE x = 0
    <3>1. a = << >>
      BY <2>1 DEF Alike
    <3> QED
      BY <1>5, <3>1, ConcatEmptySeq
  <2>2. CASE x # 0
    <3>1. m.kept = << >>
      BY <1>1, <1>2, <1>3, <2>2
    <3>2. K = << >>
      BY <3>1, FaceOfMore
    <3> QED
      BY <1>6, <3>2, ConcatEmptySeq
  <2> QED
    BY <2>1, <2>2
<1> HIDE DEF K, a, b
<1>10. /\ more \in Seq(Nat) /\ Len(more) = Len(gone) + x
       /\ (gone \o K) \o (a \o b) = more \o (K \o b)
  <2>1. (gone \o K) \o (a \o b) = (gone \o a) \o (K \o b)
    <3>1. Join(K, a) = Join(a, K)
      BY <1>9 DEF Join
    <3>2. Join(Join(gone, K), Join(a, b)) = Join(Join(gone, a), Join(K, b))
      BY <1>1, <1>5, <1>6, <3>1, Rearranged
    <3> QED
      BY <3>2 DEF Join
  <2>2. gone \o a \in Seq(Nat) /\ Len(gone \o a) = Len(gone) + Len(a)
    <3>1. gone \in Seq(Nat) /\ a \in Seq(Nat)
      BY <1>1, <1>6
    <3> QED
      BY <3>1, ConcatProperties, Zenon
  <2> QED
    BY <1>6, <2>1, <2>2, Zenon
<1>11. all \o Units(lot) = more \o FaceOf(new.kept)
  BY <1>1, <1>7, <1>8, <1>10
<1>12. SumOf(more) = new.cost
  <2>1. gone \in Seq(Int) /\ a \in Seq(Int)
    BY <1>1, <1>6, NatsAreInts
  <2>2. SumOf(more) = SumOf(gone) + SumOf(a)
    BY <2>1, SumJoined
  <2>3. SumOf(a) = x * p
    BY <1>2, <1>3, SumAlike DEF a
  <2> QED
    BY <1>1, <1>3, <2>2, <2>3
<1>13. new.sold + new.remaining = face /\ (new.remaining > 0 => new.kept = << >>)
  BY <1>1, <1>2, <1>3
<1> HIDE DEF more
<1>14. Sold(new, more, all \o Units(lot), face)
  BY <1>1, <1>3, <1>10, <1>11, <1>12, <1>13 DEF Sold
<1> QED
  BY <1>14

\* The whole sale.
LEMMA SaleTakes ==
  ASSUME NEW lots \in Seq(Lot), NEW face \in Nat,
         NEW base, base = [remaining |-> face, cost |-> 0, sold |-> 0, kept |-> << >>]
  PROVE  \E gone : Sold(Matched(base, lots), gone, FaceOf(lots), face)
<1> DEFINE G == {l \in Seq(Lot) : \E gone : Sold(Matched(base, l), gone, FaceOf(l), face)}
<1>1. << >> \in G
  <2>1. << >> \in Seq(Lot) /\ << >> \in Seq(Nat) /\ Len(<< >>) = 0 /\ << >> = << >> \o << >>
    BY ConcatEmptySeq, EmptySeq
  <2>2. base \in MatchType
    BY <2>1 DEF MatchType
  <2>3. Matched(base, << >>) = base
    BY MatchedMore
  <2>4. Sold(base, << >>, FaceOf(<< >>), face)
    BY <2>1, <2>2, FaceOfMore, SumOfNothing DEF Sold
  <2> QED
    BY <2>1, <2>3, <2>4
<1>2. ASSUME NEW l \in Seq(Lot), NEW x \in Lot, l \in G PROVE Append(l, x) \in G
  <2>1. PICK gone : Sold(Matched(base, l), gone, FaceOf(l), face)
    BY <1>2
  <2>2. PICK more : Sold(MatchLot(Matched(base, l), x), more, FaceOf(l) \o Units(x), face)
    BY <2>1, SoldMore
  <2>3. Matched(base, Append(l, x)) = MatchLot(Matched(base, l), x) /\ FaceOf(Append(l, x)) = FaceOf(l) \o Units(x)
    <3>1. Matched(base, Append(l, x)) = MatchLot(Matched(base, l), x)
      BY MatchedMore
    <3>2. FaceOf(Append(l, x)) = FaceOf(l) \o Units(x)
      BY FaceOfMore
    <3> QED
      BY <3>1, <3>2
  <2>4. Append(l, x) \in Seq(Lot)
    BY AppendProperties
  <2>5. Sold(Matched(base, Append(l, x)), more, FaceOf(Append(l, x)), face)
    BY <2>2, <2>3
  <2> QED
    BY <2>4, <2>5
<1> HIDE DEF G
<1>3. lots \in G
  BY <1>1, <1>2, AppendInduction
<1> QED
  BY <1>3 DEF G

-----------------------------------------------------------------------------
(* The ledger and its reference.                                           *)

TradeType == [side : {"buy", "sell"}, face : Nat \ {0}, price : Nat \ {0}]
BookType == [units : Seq(Nat), paid : Int, received : Int]

Ledger(l, i, r, tr) == [kind |-> "ledger", lots |-> l, invested |-> i, realized |-> r, trades |-> tr]

\* What the ledger of some lots must hold, by its reference.
Agrees(lots, invested, realized, ref) ==
  /\ lots \in Seq(Lot) /\ ref \in BookType
  /\ FaceOf(lots) = ref.units /\ invested = SumOf(ref.units)
  /\ realized = ref.received - (ref.paid - invested)

LedgerOf(t) ==
  \E l, i, r, tr : t = Ledger(l, i, r, tr) /\ tr \in Seq(TradeType) /\ Agrees(l, i, r, FaceByFace(tr))

LEMMA BoughtAgrees ==
  ASSUME NEW l, NEW i, NEW r, NEW ref, Agrees(l, i, r, ref), NEW face \in Nat \ {0}, NEW price \in Nat \ {0},
         NEW t, t = [side |-> "buy", face |-> face, price |-> price],
         NEW lot, lot = [face |-> face, price |-> price]
  PROVE  Agrees(Append(l, lot), i + face * price, r, Book(ref, t))
<1> DEFINE u == ref.units
           v == Alike(face, price)
           new == Book(ref, t)
           cost == face * price
<1>1. /\ l \in Seq(Lot) /\ FaceOf(l) = u /\ i = SumOf(u) /\ r = ref.received - (ref.paid - i)
      /\ u \in Seq(Nat) /\ ref.paid \in Int /\ ref.received \in Int /\ ref \in BookType
  BY DEF Agrees, BookType
<1>2. lot \in Lot /\ Append(l, lot) \in Seq(Lot)
  <2>1. lot \in Lot
    BY DEF Lot
  <2> QED
    BY <1>1, <2>1, AppendProperties
<1>3. v \in Seq(Nat) /\ SumOf(v) = cost /\ cost \in Int
  BY AlikeIs, SumAlike
<1>4. Units(t) = v /\ Units(lot) = v
  BY DEF Units, Alike
<1>5. FaceOf(Append(l, lot)) = u \o v
  BY <1>1, <1>2, <1>4, FaceOfMore
<1>6. u \o v \in Seq(Nat) /\ SumOf(u \o v) = SumOf(u) + SumOf(v) /\ SumOf(u) \in Int
  <2>1. u \in Seq(Nat) /\ v \in Seq(Nat) /\ u \in Seq(Int) /\ v \in Seq(Int)
    BY <1>1, <1>3, NatsAreInts
  <2> HIDE DEF u, v
  <2> QED
    BY <2>1, ConcatProperties, SumJoined
<1>7. new = [units |-> u \o v, paid |-> ref.paid + cost, received |-> ref.received]
  <2>1. t.side = "buy" /\ t.face = face /\ t.price = price
    OBVIOUS
  <2>2. new = [ref EXCEPT !.units = @ \o Units(t), !.paid = @ + t.face * t.price]
    BY <2>1 DEF Book
  <2>3. PICK a, b, c : ref = [units |-> a, paid |-> b, received |-> c]
    BY <1>1 DEF BookType
  <2> DEFINE x == ref.units \o Units(t)
             y == ref.paid + t.face * t.price
             one == [ref EXCEPT !.units = x]
  <2>4. new = [one EXCEPT !.paid = y]
    BY <2>2, <2>3
  <2> HIDE DEF x, y
  <2>5. one = [units |-> x, paid |-> b, received |-> c]
    BY <2>3
  <2> HIDE DEF one
  <2>6. [one EXCEPT !.paid = y] = [units |-> x, paid |-> y, received |-> c]
    BY <2>5
  <2>7. ref.received = c
    BY <2>3
  <2> HIDE DEF new
  <2> QED
    BY <1>4, <2>1, <2>4, <2>6, <2>7 DEF x, y
<1> HIDE DEF u, v, new, cost
<1>8. /\ new \in BookType /\ new.units = u \o v /\ new.paid = ref.paid + cost /\ new.received = ref.received
  <2>1. ref.paid + cost \in Int
    BY <1>1, <1>3
  <2> QED
    BY <1>1, <1>6, <1>7, <2>1 DEF BookType
<1>9. i + cost = SumOf(u \o v) /\ r = ref.received - ((ref.paid + cost) - (i + cost))
  BY <1>1, <1>3, <1>6
<1>10. Agrees(Append(l, lot), i + cost, r, new)
  BY <1>2, <1>5, <1>8, <1>9 DEF Agrees
<1> QED
  BY <1>10 DEF new, cost

LEMMA SoldAgrees ==
  ASSUME NEW l, NEW i, NEW r, NEW ref, Agrees(l, i, r, ref), NEW face \in Nat \ {0}, NEW price \in Nat \ {0},
         NEW t, t = [side |-> "sell", face |-> face, price |-> price],
         NEW base, base = [remaining |-> face, cost |-> 0, sold |-> 0, kept |-> << >>],
         NEW end, end = Matched(base, l)
  PROVE  Agrees(end.kept, i - end.cost, r + end.sold * price - end.cost, Book(ref, t))
<1> DEFINE u == ref.units
           new == Book(ref, t)
<1>1. /\ l \in Seq(Lot) /\ FaceOf(l) = u /\ i = SumOf(u) /\ r = ref.received - (ref.paid - i)
      /\ u \in Seq(Nat) /\ ref.paid \in Int /\ ref.received \in Int /\ ref \in BookType
  BY DEF Agrees, BookType
<1>2. PICK gone : Sold(end, gone, u, face)
  <2>1. \E gone : Sold(Matched(base, l), gone, FaceOf(l), face)
    BY <1>1, SaleTakes
  <2> QED
    BY <1>1, <2>1
<1> DEFINE rest == FaceOf(end.kept)
           n == end.sold
<1>3. /\ end.kept \in Seq(Lot) /\ n \in Nat /\ end.remaining \in Nat /\ end.cost \in Int
      /\ gone \in Seq(Nat) /\ u = gone \o rest /\ Len(gone) = n /\ n + end.remaining = face /\ end.cost = SumOf(gone)
      /\ end.remaining > 0 => end.kept = << >>
  BY <1>2 DEF Sold, MatchType
<1>4. rest \in Seq(Nat) /\ (end.remaining > 0 => rest = << >>)
  BY <1>3, FaceCount, FaceOfMore
<1> HIDE DEF rest, n
<1>5. Len(rest) \in Nat /\ Len(u) = n + Len(rest) /\ (rest = << >> => Len(rest) = 0)
  <2>1. Len(gone \o rest) = Len(gone) + Len(rest)
    BY <1>3, <1>4, ConcatProperties, ZenonT(30)
  <2>2. Len(rest) \in Nat
    BY <1>4, LenProperties
  <2>3. rest = << >> => Len(rest) = 0
    OBVIOUS
  <2> HIDE DEF u
  <2> QED
    BY <1>3, <2>1, <2>2, <2>3
<1>6. Least(face, Len(u)) = n
  BY <1>3, <1>4, <1>5 DEF Least
<1>7. SubSeq(u, n + 1, Len(u)) = rest
  <2> DEFINE s == SubSeq(u, n + 1, Len(u))
             m == Len(rest)
  <2>1. \A k \in 1 .. (n + m) : u[k] \in Nat /\ u[k] = IF k =< n THEN gone[k] ELSE rest[k - n]
    <3>1. \A k \in 1 .. (Len(gone) + Len(rest)) : (gone \o rest)[k] = IF k =< Len(gone) THEN gone[k] ELSE rest[k - Len(gone)]
      BY <1>3, <1>4, ConcatProperties
    <3>2. \A k \in 1 .. Len(u) : u[k] \in Nat
      BY <1>1, ElementOfSeq
    <3> HIDE DEF u
    <3> QED
      BY <1>3, <1>5, <3>1, <3>2
  <2>2. n + 1 \in Int /\ Len(u) = n + m /\ m \in Nat /\ n \in Nat
    BY <1>3, <1>5
  <2>3. \A k \in (n + 1) .. (n + m) : u[k] \in Nat
    BY <2>1, <2>2
  <2> HIDE DEF m, u
  <2>4. /\ s \in Seq(Nat) /\ Len(s) = (IF n + 1 =< n + m THEN (n + m) - (n + 1) + 1 ELSE 0)
        /\ \A k \in 1 .. ((n + m) - (n + 1) + 1) : s[k] = u[(n + 1) + k - 1]
    BY <2>2, <2>3, SubSeqProperties
  <2> HIDE DEF s
  <2>5. Len(s) = m /\ \A k \in 1 .. m : s[k] = rest[k]
    <3>1. Len(s) = m
      BY <2>2, <2>4
    <3>2. ASSUME NEW k \in 1 .. m PROVE s[k] = rest[k]
      <4>1. k \in 1 .. ((n + m) - (n + 1) + 1) /\ (n + 1) + k - 1 = n + k /\ n + k \in 1 .. (n + m) /\ ~(n + k =< n)
            /\ (n + k) - n = k
        BY <2>2
      <4> QED
        BY <2>1, <2>4, <4>1
    <3> QED
      BY <3>1, <3>2
  <2>6. s = rest
    BY <1>4, <2>4, <2>5, SeqEqual DEF m
  <2> QED
    BY <2>6 DEF s
<1>8. SumOf(gone) \in Int /\ SumOf(rest) \in Int /\ SumOf(u) = SumOf(gone) + SumOf(rest)
  <2>1. gone \in Seq(Int) /\ rest \in Seq(Int)
    BY <1>3, <1>4, NatsAreInts
  <2>2. SumOf(gone) \in Int /\ SumOf(rest) \in Int /\ SumOf(gone \o rest) = SumOf(gone) + SumOf(rest)
    BY <2>1, SumJoined
  <2> QED
    BY <1>3, <2>2
<1>9. new = [units |-> rest, paid |-> ref.paid, received |-> ref.received + n * price]
  <2>1. t.side # "buy" /\ t.face = face /\ t.price = price
    OBVIOUS
  <2>2. new = [ref EXCEPT !.units = SubSeq(@, n + 1, Len(@)), !.received = @ + n * price]
    BY <1>6, <2>1 DEF Book
  <2>3. PICK a, b, c : ref = [units |-> a, paid |-> b, received |-> c]
    BY <1>1 DEF BookType
  <2> DEFINE x == SubSeq(ref.units, n + 1, Len(ref.units))
             y == ref.received + n * price
             one == [ref EXCEPT !.units = x]
  <2>4. new = [one EXCEPT !.received = y]
    BY <2>2, <2>3
  <2>5. x = rest
    BY <1>7
  <2> HIDE DEF x, y
  <2>6. one = [units |-> x, paid |-> b, received |-> c]
    BY <2>3
  <2> HIDE DEF one
  <2>7. [one EXCEPT !.received = y] = [units |-> x, paid |-> b, received |-> y]
    BY <2>6
  <2>8. ref.paid = b
    BY <2>3
  <2> HIDE DEF new
  <2> QED
    BY <2>4, <2>5, <2>7, <2>8 DEF y
<1> HIDE DEF u, new
<1> DEFINE z == n * price
<1>10. z \in Int
  BY <1>3
<1>11. /\ new \in BookType /\ new.units = rest /\ new.paid = ref.paid /\ new.received = ref.received + z
  <2> HIDE DEF z
  <2>1. new = [units |-> rest, paid |-> ref.paid, received |-> ref.received + z]
    BY <1>9 DEF z
  <2>2. ref.received + z \in Int
    BY <1>1, <1>10
  <2> QED
    BY <1>1, <1>4, <2>1, <2>2 DEF BookType
<1>12. /\ i - end.cost = SumOf(rest)
       /\ r + z - end.cost = (ref.received + z) - (ref.paid - (i - end.cost))
  <2> HIDE DEF z
  <2> DEFINE g == SumOf(gone)
             h == SumOf(rest)
             p == ref.paid
             v == ref.received
  <2>1. /\ g \in Int /\ h \in Int /\ p \in Int /\ v \in Int /\ z \in Int
        /\ i = g + h /\ end.cost = g /\ r = v - (p - i)
    BY <1>1, <1>3, <1>8, <1>10
  <2> HIDE DEF g, h, p, v
  <2>2. i - end.cost = h
    BY <2>1
  <2>3. r + z - end.cost = (v + z) - (p - (i - end.cost))
    BY <2>1
  <2> QED
    BY <2>2, <2>3 DEF h, p, v
<1>13. Agrees(end.kept, i - end.cost, r + z - end.cost, new)
  <2> HIDE DEF z
  <2> QED
    BY <1>3, <1>11, <1>12 DEF Agrees, rest
<1> QED
  BY <1>13 DEF new, n

LEMMA LedgerFields ==
  ASSUME NEW l, NEW i, NEW r, NEW tr
  PROVE  /\ Ledger(l, i, r, tr).lots = l /\ Ledger(l, i, r, tr).invested = i
         /\ Ledger(l, i, r, tr).realized = r /\ Ledger(l, i, r, tr).trades = tr
         /\ Ledger(l, i, r, tr).kind = "ledger"
BY DEF Ledger

\* A ledger whose figures a trade replaces, and then its trades.
AfterBuy(t, l2, i2, tr2) == [[t EXCEPT !.lots = l2, !.invested = i2] EXCEPT !.trades = tr2]
AfterSale(t, l2, i2, r2, tr2) ==
  [[t EXCEPT !.lots = l2, !.invested = i2, !.realized = r2] EXCEPT !.trades = tr2]

LEMMA LedgerBought ==
  ASSUME NEW l, NEW i, NEW r, NEW tr, NEW l2, NEW i2, NEW tr2
  PROVE  AfterBuy(Ledger(l, i, r, tr), l2, i2, tr2) = Ledger(l2, i2, r, tr2)
<1> DEFINE a == [Ledger(l, i, r, tr) EXCEPT !.lots = l2]
           b == [a EXCEPT !.invested = i2]
<1>1. [Ledger(l, i, r, tr) EXCEPT !.lots = l2, !.invested = i2] = b
  OBVIOUS
<1>2. a = Ledger(l2, i, r, tr)
  BY DEF Ledger
<1> HIDE DEF a
<1>3. b = Ledger(l2, i2, r, tr)
  BY <1>2 DEF Ledger
<1> HIDE DEF b
<1>4. [b EXCEPT !.trades = tr2] = Ledger(l2, i2, r, tr2)
  BY <1>3 DEF Ledger
<1> QED
  BY <1>1, <1>4 DEF AfterBuy

LEMMA LedgerSold ==
  ASSUME NEW l, NEW i, NEW r, NEW tr, NEW l2, NEW i2, NEW r2, NEW tr2
  PROVE  AfterSale(Ledger(l, i, r, tr), l2, i2, r2, tr2) = Ledger(l2, i2, r2, tr2)
<1> DEFINE a == [Ledger(l, i, r, tr) EXCEPT !.lots = l2]
           b == [a EXCEPT !.invested = i2]
           c == [b EXCEPT !.realized = r2]
<1>1. [Ledger(l, i, r, tr) EXCEPT !.lots = l2, !.invested = i2, !.realized = r2] = c
  OBVIOUS
<1>2. a = Ledger(l2, i, r, tr)
  BY DEF Ledger
<1> HIDE DEF a
<1>3. b = Ledger(l2, i2, r, tr)
  BY <1>2 DEF Ledger
<1> HIDE DEF b
<1>4. c = Ledger(l2, i2, r2, tr)
  BY <1>3 DEF Ledger
<1> HIDE DEF c
<1>5. [c EXCEPT !.trades = tr2] = Ledger(l2, i2, r2, tr2)
  BY <1>4 DEF Ledger
<1> QED
  BY <1>1, <1>5 DEF AfterSale

LEMMA LedgerTrades ==
  ASSUME NEW t, LedgerOf(t), NEW side \in {"buy", "sell"}, NEW face \in Faces, NEW price \in TradePrices,
         NEW new, new = [IF side = "buy" THEN BuyLot(t, face, price) ELSE SellLots(t, face, price)
                         EXCEPT !.trades = Append(@, [side |-> side, face |-> face, price |-> price])]
  PROVE  LedgerOf(new)
<1>1. PICK l, i, r, tr : t = Ledger(l, i, r, tr) /\ tr \in Seq(TradeType) /\ Agrees(l, i, r, FaceByFace(tr))
  BY DEF LedgerOf
<1>2. face \in Nat \ {0} /\ price \in Nat \ {0}
  BY FiguresAssumption DEF FiguresAssumption
<1> DEFINE trade == [side |-> side, face |-> face, price |-> price]
           lot == [face |-> face, price |-> price]
           base == [remaining |-> face, cost |-> 0, sold |-> 0, kept |-> << >>]
           end == Matched(base, l)
           ref == FaceByFace(tr)
           more == Append(tr, trade)
<1>3. trade \in TradeType
  BY <1>2 DEF TradeType
<1>4. more \in Seq(TradeType) /\ FaceByFace(more) = Book(ref, trade)
  <2> HIDE DEF trade
  <2> QED
    BY <1>1, <1>3, AppendProperties, BookedMore
<1>5. t.lots = l /\ t.invested = i /\ t.realized = r /\ t.trades = tr
  BY <1>1, LedgerFields
<1>6. CASE side = "buy"
  <2> DEFINE l2 == Append(l, lot)
             i2 == i + face * price
  <2>1. BuyLot(t, face, price) = [t EXCEPT !.lots = l2, !.invested = i2]
    <3>1. BuyLot(t, face, price) = [t EXCEPT !.lots = Append(@, [face |-> face, price |-> price]),
                                             !.invested = @ + face * price]
      BY DEF BuyLot
    <3> QED
      BY <1>1, <1>5, <3>1 DEF Ledger
  <2>2. Agrees(l2, i2, r, Book(ref, trade))
    <3> HIDE DEF ref
    <3>1. trade = [side |-> "buy", face |-> face, price |-> price] /\ lot = [face |-> face, price |-> price]
      BY <1>6
    <3>2. Agrees(l, i, r, ref)
      BY <1>1 DEF ref
    <3> HIDE DEF trade, lot
    <3> QED
      BY <1>2, <3>1, <3>2, BoughtAgrees
  <2> HIDE DEF l2, i2, trade, more
  <2>3. new = [[t EXCEPT !.lots = l2, !.invested = i2] EXCEPT !.trades = more]
    <3>1. [t EXCEPT !.lots = l2, !.invested = i2].trades = tr
      BY <1>1 DEF Ledger
    <3> QED
      BY <1>6, <2>1, <3>1 DEF more, trade
  <2>4. new = Ledger(l2, i2, r, more)
    <3>1. AfterBuy(Ledger(l, i, r, tr), l2, i2, more) = Ledger(l2, i2, r, more)
      BY LedgerBought
    <3>2. new = AfterBuy(t, l2, i2, more)
      BY <2>3 DEF AfterBuy
    <3> QED
      BY <1>1, <3>1, <3>2
  <2> QED
    BY <1>4, <2>2, <2>4 DEF LedgerOf
<1>7. CASE side # "buy"
  <2> DEFINE l2 == end.kept
             i2 == i - end.cost
             r2 == r + end.sold * price - end.cost
  <2>1. SellLots(t, face, price) = [t EXCEPT !.lots = l2, !.invested = i2, !.realized = r2]
    <3>1. end = FoldLeft(MatchLot, [remaining |-> face, cost |-> 0, sold |-> 0, kept |-> << >>], FirstOut(t.lots))
      BY <1>5 DEF Matched, FirstOut
    <3> HIDE DEF end
    <3>2. SellLots(t, face, price) = [t EXCEPT !.lots = end.kept, !.invested = @ - end.cost,
                                               !.realized = @ + end.sold * price - end.cost]
      BY <3>1 DEF SellLots
    <3> QED
      BY <1>1, <1>5, <3>2 DEF Ledger
  <2>2. Agrees(l2, i2, r2, Book(ref, trade))
    <3> HIDE DEF ref
    <3>1. trade = [side |-> "sell", face |-> face, price |-> price]
          /\ base = [remaining |-> face, cost |-> 0, sold |-> 0, kept |-> << >>] /\ end = Matched(base, l)
      BY <1>7
    <3>2. Agrees(l, i, r, ref)
      BY <1>1 DEF ref
    <3> HIDE DEF trade, base, end
    <3> QED
      BY <1>2, <3>1, <3>2, SoldAgrees
  <2> HIDE DEF l2, i2, r2, trade, more
  <2>3. new = [[t EXCEPT !.lots = l2, !.invested = i2, !.realized = r2] EXCEPT !.trades = more]
    <3>1. [t EXCEPT !.lots = l2, !.invested = i2, !.realized = r2].trades = tr
      BY <1>1 DEF Ledger
    <3> QED
      BY <1>7, <2>1, <3>1 DEF more, trade
  <2>4. new = Ledger(l2, i2, r2, more)
    <3>1. AfterSale(Ledger(l, i, r, tr), l2, i2, r2, more) = Ledger(l2, i2, r2, more)
      BY LedgerSold
    <3>2. new = AfterSale(t, l2, i2, r2, more)
      BY <2>3 DEF AfterSale
    <3> QED
      BY <1>1, <3>1, <3>2
  <2> QED
    BY <1>4, <2>2, <2>4 DEF LedgerOf
<1> QED
  BY <1>6, <1>7

LEMMA LedgerStarts == LedgerOf(NoTrades)
<1>1. NoTrades = Ledger(<< >>, 0, 0, << >>)
  BY DEF NoTrades, Ledger
<1>2. << >> \in Seq(TradeType) /\ << >> \in Seq(Lot) /\ << >> \in Seq(Nat)
  OBVIOUS
<1>3. NoBook \in BookType /\ NoBook.units = << >> /\ NoBook.paid = 0 /\ NoBook.received = 0
  BY <1>2 DEF NoBook, BookType
<1>4. FaceByFace(<< >>) = NoBook
  BY BookedMore
<1>5. Agrees(<< >>, 0, 0, NoBook)
  BY <1>2, <1>3, FaceOfMore, SumOfNothing DEF Agrees
<1> QED
  BY <1>1, <1>2, <1>4, <1>5 DEF LedgerOf

LEMMA LedgerIsRight ==
  ASSUME NEW t, LedgerOf(t)
  PROVE  LedgerAddsUp(t)
<1>1. PICK l, i, r, tr : t = Ledger(l, i, r, tr) /\ tr \in Seq(TradeType) /\ Agrees(l, i, r, FaceByFace(tr))
  BY DEF LedgerOf
<1>2. t.lots = l /\ t.invested = i /\ t.realized = r /\ t.trades = tr
  BY <1>1, LedgerFields
<1> DEFINE ref == FaceByFace(tr)
           faces == SumOf([k \in DOMAIN l |-> l[k].face])
<1> HIDE DEF ref
<1>3. /\ l \in Seq(Lot) /\ FaceOf(l) = ref.units /\ i = SumOf(ref.units) /\ r = ref.received - (ref.paid - i)
      /\ ref.units \in Seq(Nat) /\ ref.paid \in Int /\ ref.received \in Int
  BY <1>1 DEF Agrees, BookType, ref
<1>4. i \in Int /\ Len(ref.units) \in Nat /\ faces = Len(ref.units)
  <2>1. ref.units \in Seq(Int)
    BY <1>3, NatsAreInts
  <2>2. SumOf(ref.units) \in Int
    BY <2>1, SumJoined
  <2>3. faces = Len(FaceOf(l))
    BY <1>3, FaceCount
  <2> QED
    BY <1>3, <2>2, <2>3, LenProperties
<1>5. FlattenSeq([k \in DOMAIN l |-> [u \in 1 .. l[k].face |-> l[k].price]]) = ref.units
  BY <1>3 DEF FaceOf, Units
<1>6. ASSUME NEW market \in TradePrices \cup {0}
      PROVE  r + Unrealized(t, market) = ref.received + Len(ref.units) * market - ref.paid
  <2>1. market \in Nat /\ market # NoPrice
    BY FiguresAssumption DEF FiguresAssumption, NoPrice
  <2>2. Unrealized(t, market) = faces * market - i
    BY <1>2, <2>1 DEF Unrealized, Value
  <2> HIDE DEF faces
  <2> DEFINE z == faces * market
  <2>3. z \in Int /\ Len(ref.units) * market = z
    BY <1>4, <2>1
  <2>4. Unrealized(t, market) = z - i
    BY <2>2
  <2> HIDE DEF z
  <2> QED
    BY <1>3, <1>4, <2>3, <2>4
<1>7. Unrealized(t, NoPrice) = 0
  BY <1>2, <1>4 DEF Unrealized, Value
<1> QED
  BY <1>2, <1>3, <1>5, <1>6, <1>7 DEF LedgerAddsUp, ref

-----------------------------------------------------------------------------
(* The figures.                                                            *)

BasketOf(f) ==
  /\ f = [kind |-> "basket", basket |-> f.basket, lots |-> f.lots, left |-> f.left, split |-> f.split]
  /\ f.basket \in Baskets
  /\ f.lots # << >> => BasketFits(f)

FigureInv ==
  \/ LedgerOf(figure)
  \/ \E n, days : BacktestOf(figure, n, days)
  \/ BasketOf(figure)
  \/ CouponInv(figure)

LEMMA LedgerKind ==
  ASSUME NEW t, LedgerOf(t)
  PROVE  t.kind = "ledger"
<1>1. PICK l, i, r, tr : t = Ledger(l, i, r, tr)
  BY DEF LedgerOf
<1> QED
  BY <1>1, LedgerFields

LEMMA BacktestKind ==
  ASSUME NEW f, NEW n, NEW days, BacktestOf(f, n, days)
  PROVE  f.kind = "backtest"
<1>1. f = [kind |-> "backtest", day |-> f.day, rows |-> f.rows, today |-> f.today, sim |-> f.sim]
  BY DEF BacktestOf
<1>2. PICK d, r, t, s : f = [kind |-> "backtest", day |-> d, rows |-> r, today |-> t, sim |-> s]
  BY <1>1
<1> QED
  BY <1>2

LEMMA BasketKind ==
  ASSUME NEW f, BasketOf(f)
  PROVE  f.kind = "basket"
<1>1. f = [kind |-> "basket", basket |-> f.basket, lots |-> f.lots, left |-> f.left, split |-> f.split]
  BY DEF BasketOf
<1>2. PICK b, l, e, s : f = [kind |-> "basket", basket |-> b, lots |-> l, left |-> e, split |-> s]
  BY <1>1
<1> QED
  BY <1>2

LEMMA CouponKind ==
  ASSUME NEW t, CouponInv(t)
  PROVE  t.kind = "coupons"
<1>1. t = [kind |-> "coupons", dates |-> t.dates, step |-> t.step, maturity |-> t.maturity, next |-> t.next]
  BY DEF CouponInv
<1>2. PICK d, s, m, x : t = [kind |-> "coupons", dates |-> d, step |-> s, maturity |-> m, next |-> x]
  BY <1>1
<1> QED
  BY <1>2

\* What is in progress is of one kind.
LEMMA FigureKinds ==
  ASSUME FigureInv
  PROVE  /\ figure.kind = "ledger" => LedgerOf(figure)
         /\ figure.kind = "backtest" => \E n, days : BacktestOf(figure, n, days)
         /\ figure.kind = "basket" => BasketOf(figure)
         /\ figure.kind = "coupons" => CouponInv(figure)
<1>1. CASE LedgerOf(figure)
  <2>1. figure.kind = "ledger"
    BY <1>1, LedgerKind
  <2> QED
    BY <1>1, <2>1
<1>2. CASE \E n, days : BacktestOf(figure, n, days)
  <2>1. figure.kind = "backtest"
    BY <1>2, BacktestKind
  <2> QED
    BY <1>2, <2>1
<1>3. CASE BasketOf(figure)
  <2>1. figure.kind = "basket"
    BY <1>3, BasketKind
  <2> QED
    BY <1>3, <2>1
<1>4. CASE CouponInv(figure)
  <2>1. figure.kind = "coupons"
    BY <1>4, CouponKind
  <2> QED
    BY <1>4, <2>1
<1> QED
  BY <1>1, <1>2, <1>3, <1>4 DEF FigureInv

\* A basket with what was bought for it.
BasketFilled(f, l, e, s) == [f EXCEPT !.lots = l, !.left = e, !.split = s]

LEMMA BasketRecord ==
  ASSUME NEW b, NEW l, NEW e, NEW s, NEW l2, NEW e2, NEW s2
  PROVE  BasketFilled([kind |-> "basket", basket |-> b, lots |-> l, left |-> e, split |-> s], l2, e2, s2)
         = [kind |-> "basket", basket |-> b, lots |-> l2, left |-> e2, split |-> s2]
<1> DEFINE f == [kind |-> "basket", basket |-> b, lots |-> l, left |-> e, split |-> s]
           f1 == [f EXCEPT !.lots = l2]
           f2 == [f1 EXCEPT !.left = e2]
<1>1. [f EXCEPT !.lots = l2, !.left = e2, !.split = s2] = [f2 EXCEPT !.split = s2]
  OBVIOUS
<1>2. f1 = [kind |-> "basket", basket |-> b, lots |-> l2, left |-> e, split |-> s]
  OBVIOUS
<1> HIDE DEF f1
<1>3. f2 = [kind |-> "basket", basket |-> b, lots |-> l2, left |-> e2, split |-> s]
  BY <1>2
<1> HIDE DEF f2
<1>4. [f2 EXCEPT !.split = s2] = [kind |-> "basket", basket |-> b, lots |-> l2, left |-> e2, split |-> s2]
  BY <1>3
<1> QED
  BY <1>1, <1>4 DEF BasketFilled

LEMMA FillsBasket ==
  ASSUME BasketOf(figure), FillBasket
  PROVE  BasketOf(figure')
<1> DEFINE o == figure.basket
           l == BuyMore(o).lots
           e == BuyMore(o).left
           s == Split(o)
           new == [kind |-> "basket", basket |-> o, lots |-> l, left |-> e, split |-> s]
<1>1. o \in Baskets
      /\ figure = [kind |-> "basket", basket |-> o, lots |-> figure.lots, left |-> figure.left, split |-> figure.split]
  BY DEF BasketOf
<1>2. figure' = BasketFilled(figure, l, e, s)
  BY DEF FillBasket, BasketFilled
<1> HIDE DEF l, e, s, o
<1>3. BasketFilled(figure, l, e, s) = new
  <2>1. PICK b0, l0, e0, s0 :
          figure = [kind |-> "basket", basket |-> b0, lots |-> l0, left |-> e0, split |-> s0]
    BY <1>1
  <2>2. o = b0
    BY <2>1 DEF o
  <2>3. BasketFilled([kind |-> "basket", basket |-> b0, lots |-> l0, left |-> e0, split |-> s0], l, e, s)
         = [kind |-> "basket", basket |-> b0, lots |-> l, left |-> e, split |-> s]
    BY BasketRecord
  <2> QED
    BY <2>1, <2>2, <2>3
<1>4. figure' = new
  BY <1>2, <1>3
<1> DEFINE t == figure'
<1>5. t.basket = o /\ t.lots = l /\ t.left = e /\ t.split = s
  BY <1>4
<1>6. t = [kind |-> "basket", basket |-> t.basket, lots |-> t.lots, left |-> t.left, split |-> t.split]
  BY <1>4, <1>5
<1> HIDE DEF t
<1>7. t.lots # << >> => BasketFits(t)
  BY <1>1, <1>5, BasketIsFilled DEF l, e, s
<1>8. BasketOf(t)
  BY <1>1, <1>5, <1>6, <1>7 DEF BasketOf
<1> QED
  BY <1>8 DEF t

LEMMA FiguresStart ==
  ASSUME FiguresInit
  PROVE  FigureInv
<1>1. CASE figure = NoTrades
  BY <1>1, LedgerStarts DEF FigureInv
<1>2. CASE figure \in Studies
  BY <1>2, BacktestStarts DEF FigureInv
<1>3. ASSUME NEW b \in Baskets,
             figure = [kind |-> "basket", basket |-> b, lots |-> << >>, left |-> 0, split |-> << >>]
      PROVE  FigureInv
  <2>1. BasketOf(figure)
    BY <1>3 DEF BasketOf
  <2> QED
    BY <2>1 DEF FigureInv
<1>4. ASSUME NEW step \in CouponSteps, NEW day \in CouponDays,
             figure = [kind |-> "coupons", dates |-> << >>, step |-> step, maturity |-> [month |-> 20, day |-> day],
                       next |-> [month |-> 20, day |-> day]]
      PROVE  FigureInv
  BY <1>4, CouponsStart DEF FigureInv
<1> QED
  BY <1>1, <1>2, <1>3, <1>4 DEF FiguresInit

LEMMA FiguresGoOn ==
  ASSUME FigureInv, [FiguresNext]_figure
  PROVE  FigureInv'
<1>1. ASSUME NEW side \in {"buy", "sell"}, NEW face \in Faces, NEW price \in TradePrices, Trade(side, face, price)
      PROVE  FigureInv'
  <2>1. LedgerOf(figure)
    BY <1>1, FigureKinds DEF Trade
  <2>2. figure' = [IF side = "buy" THEN BuyLot(figure, face, price) ELSE SellLots(figure, face, price)
                   EXCEPT !.trades = Append(@, [side |-> side, face |-> face, price |-> price])]
    BY <1>1 DEF Trade
  <2>3. LedgerOf(figure')
    BY <2>1, <2>2, LedgerTrades
  <2> QED
    BY <2>3 DEF FigureInv
<1>2. ASSUME SimulateDay
      PROVE  FigureInv'
  <2>1. PICK n, days : BacktestOf(figure, n, days)
    BY <1>2, FigureKinds DEF SimulateDay
  <2>2. /\ figure.day < LastDayOf(figure)
        /\ figure' = [figure EXCEPT !.day = @ + 1, !.sim = [i \in 1 .. 2 |-> Simulated(figure, i, figure.day + 1)]]
    BY <1>2 DEF SimulateDay
  <2>3. BacktestOf(figure', n, days)
    BY <2>1, <2>2, BacktestGoesOn
  <2> QED
    BY <2>3 DEF FigureInv
<1>3. ASSUME FillBasket
      PROVE  FigureInv'
  <2>1. BasketOf(figure)
    BY <1>3, FigureKinds DEF FillBasket
  <2>2. BasketOf(figure')
    BY <1>3, <2>1, FillsBasket
  <2> QED
    BY <2>2 DEF FigureInv
<1>4. ASSUME CouponBefore
      PROVE  FigureInv'
  <2>1. CouponInv(figure) /\ After(figure.next, AsOf)
    BY <1>4, FigureKinds DEF CouponBefore
  <2>2. figure' = [figure EXCEPT !.dates = <<figure.next>> \o @, !.next = AddMonths(@, -figure.step)]
    BY <1>4 DEF CouponBefore
  <2>3. CouponInv(figure')
    BY <2>1, <2>2, CouponStepsBack
  <2> QED
    BY <2>3 DEF FigureInv
<1>5. CASE UNCHANGED figure
  BY <1>5 DEF FigureInv
<1> QED
  BY <1>1, <1>2, <1>3, <1>4, <1>5 DEF FiguresNext

LEMMA FiguresAreRight ==
  ASSUME FigureInv
  PROVE  FiguresAddUp
<1>1. figure.kind = "ledger" => LedgerAddsUp(figure)
  BY FigureKinds, LedgerIsRight
<1>2. figure.kind = "backtest" => NoLookahead(figure)
  BY FigureKinds, BacktestIsBlind
<1>3. figure.kind = "basket" /\ figure.lots # << >> => BasketFits(figure)
  BY FigureKinds DEF BasketOf
<1>4. figure.kind = "coupons" => CouponsInStep(figure)
  BY FigureKinds, CouponsStay
<1> QED
  BY <1>1, <1>2, <1>3, <1>4 DEF FiguresAddUp

\* Whatever is bought and sold, the ledger gives what selling face by face
\* gives; whatever the history, the backtest looks at no later day and
\* while it holds a bond overdraws by no more than the rounding; whatever the capital,
\* a basket spends just that; whatever the day of the maturity, the coupons
\* keep their distance (portfolio/pnl.py, backtest.py, custom_optimizer.py,
\* optimizer.py, income.py).
THEOREM FiguresAlwaysAddUp == FiguresSpec => []FiguresAddUp
<1>1. FiguresInit => FigureInv
  BY FiguresStart
<1>2. FigureInv /\ [FiguresNext]_figure => FigureInv'
  BY FiguresGoOn
<1>3. FigureInv => FiguresAddUp
  BY FiguresAreRight
<1> QED
  BY <1>1, <1>2, <1>3, PTL DEF FiguresSpec
=============================================================================
