-------------------------- MODULE AnalyticsProofs --------------------------
(***************************************************************************)
(* The scores of bonds, the runs over the MOEX boards, and what the market *)
(* pages show, for any bonds, yields, curves, reports and quotes.          *)
(***************************************************************************)
EXTENDS DemoMarket, MarketRuns, FiniteSetTheorems, WellFoundedInduction, TLAPS

-----------------------------------------------------------------------------
(* Sums.                                                                   *)

\* Among subsets of a finite set one has no other beneath it.
LEMMA SmallestSubset ==
  ASSUME NEW D, IsFiniteSet(D), NEW B \in SUBSET (SUBSET D), B # {}
  PROVE  \E T \in B : \A U \in B : ~(U \subseteq T /\ U # T)
<1>1. IsWellFoundedOn(StrictSubsetOrdering(D), FiniteSubsetsOf(D))
  BY FS_StrictSubsetOrderingWellFounded
<1>2. B \subseteq FiniteSubsetsOf(D)
  BY FS_Subset DEF FiniteSubsetsOf
<1>3. PICK T \in B : \A U \in B : ~ (<<U, T>> \in StrictSubsetOrdering(D))
  BY <1>1, <1>2, WFMin, Zenon
<1>4. ASSUME NEW U \in B PROVE ~(U \subseteq T /\ U # T)
  <2>1. <<U, T>> \notin StrictSubsetOrdering(D)
    BY <1>3
  <2> QED
    BY <2>1, <1>2 DEF StrictSubsetOrdering
<1> QED
  BY <1>4

\* A set of natural numbers has a least one.
LEMMA LeastExists ==
  ASSUME NEW S \in SUBSET Nat, S # {}
  PROVE  \E x \in S : \A y \in S : x =< y
<1> DEFINE R == {ss \in Nat \X Nat : ss[1] < ss[2]}
<1>1. IsWellFoundedOn(R, Nat)
  BY NatLessThanWellFounded DEF OpToRel
<1> HIDE DEF R
<1>2. PICK x \in S : \A y \in S : ~ (<<y, x>> \in R)
  BY <1>1, WFMin, Zenon
<1>3. ASSUME NEW y \in S PROVE x =< y
  <2>1. <<y, x>> \notin R
    BY <1>2
  <2> QED
    BY <2>1 DEF R
<1> QED
  BY <1>3

\* A set that holds 0, and with each number the next, holds them all.
LEMMA NatSetInduction ==
  ASSUME NEW S \in SUBSET Nat, 0 \in S, \A n \in S : n + 1 \in S
  PROVE  S = Nat
<1> SUFFICES ASSUME Nat \ S # {} PROVE FALSE
  OBVIOUS
<1>1. PICK x \in Nat \ S : \A y \in Nat \ S : x =< y
  BY LeastExists
<1>2. x - 1 \in S
  BY <1>1
<1> QED
  BY <1>1, <1>2

\* A sum is computed by taking one element after the other: the sums of all the
\* subsets of the domain are one recursive function.
Taken(s) == CHOOSE x \in s : TRUE
OneStep(v, f, s) == IF s = {} THEN 0 ELSE v[Taken(s)] + f[s \ {Taken(s)}]
Sums(v) == CHOOSE f : f = [s \in SUBSET DOMAIN v |-> OneStep(v, f, s)]

\* What Scoring adds up is the last of these sums.
LEMMA TotalIsSum == ASSUME NEW v PROVE Total(v) = Sums(v)[DOMAIN v]
  BY DEF Total, MapThenSumSet, MapThenFoldSet, Sums, OneStep, Taken

\* The subsets of D with at most n elements.
Below(D, n) == {S \in SUBSET D : Cardinality(S) <= n}

\* The element that is taken is in the set.
LEMMA TakenIn == ASSUME NEW s, s # {} PROVE Taken(s) \in s
BY DEF Taken

\* There is such a function: it is built for ever larger subsets.
LEMMA SumsExist ==
  ASSUME NEW v, NEW D, D = DOMAIN v, IsFiniteSet(D), \A x \in D : v[x] \in Int
  PROVE  \E f \in [SUBSET D -> Int] : \A s \in SUBSET D : f[s] = OneStep(v, f, s)
<1> DEFINE Good == {n \in Nat : \E f \in [Below(D, n) -> Int] : \A s \in Below(D, n) : f[s] = OneStep(v, f, s)}
<1>1. \A S \in SUBSET D : IsFiniteSet(S) /\ Cardinality(S) \in Nat
  BY FS_Subset, FS_CardinalityType
<1>2. 0 \in Good
  <2>1. Below(D, 0) = {{}}
    BY <1>1, FS_EmptySet DEF Below
  <2> DEFINE f == [s \in Below(D, 0) |-> 0]
  <2>2. f \in [Below(D, 0) -> Int] /\ \A s \in Below(D, 0) : f[s] = OneStep(v, f, s)
    BY <2>1 DEF OneStep
  <2> QED
    BY <2>2
<1>3. ASSUME NEW n \in Good PROVE n + 1 \in Good
  <2>1. PICK g \in [Below(D, n) -> Int] : \A s \in Below(D, n) : g[s] = OneStep(v, g, s)
    OBVIOUS
  <2>2. \A s \in Below(D, n + 1) : s # {} => Taken(s) \in D /\ s \ {Taken(s)} \in Below(D, n)
    <3>1. SUFFICES ASSUME NEW s \in SUBSET D, Cardinality(s) <= n + 1, s # {}
                   PROVE  Taken(s) \in s /\ Cardinality(s \ {Taken(s)}) <= n
      BY DEF Below
    <3>2. Taken(s) \in s
      BY <3>1, TakenIn
    <3>3. Cardinality(s \ {Taken(s)}) = Cardinality(s) - 1
      BY <3>2, <1>1, FS_RemoveElement
    <3> QED
      BY <3>1, <3>2, <3>3, <1>1
  <2> DEFINE h == [s \in Below(D, n + 1) |-> OneStep(v, g, s)]
  <2>3. h \in [Below(D, n + 1) -> Int]
    BY <2>1, <2>2 DEF OneStep
  <2>4. \A s \in Below(D, n) : s \in Below(D, n + 1) /\ h[s] = g[s]
    BY <2>1, <1>1 DEF Below
  <2>5. \A s \in Below(D, n + 1) : h[s] = OneStep(v, h, s)
    BY <2>2, <2>4 DEF OneStep
  <2> HIDE DEF h
  <2>6. \E f \in [Below(D, n + 1) -> Int] : \A s \in Below(D, n + 1) : f[s] = OneStep(v, f, s)
    BY <2>3, <2>5
  <2> QED
    BY <2>6
<1> HIDE DEF Good
<1>4. Cardinality(D) \in Good
  BY <1>1, <1>2, <1>3, NatSetInduction DEF Good
<1>5. Below(D, Cardinality(D)) = SUBSET D
  BY FS_Subset, <1>1 DEF Below
<1> QED
  BY <1>4, <1>5 DEF Good

\* So the sums are integers and obey the recursion.
LEMMA SumsStep ==
  ASSUME NEW v, NEW D, D = DOMAIN v, IsFiniteSet(D), \A x \in D : v[x] \in Int
  PROVE  /\ Sums(v) \in [SUBSET D -> Int]
         /\ \A s \in SUBSET D : Sums(v)[s] = IF s = {} THEN 0 ELSE v[Taken(s)] + Sums(v)[s \ {Taken(s)}]
<1>1. PICK f \in [SUBSET D -> Int] : \A s \in SUBSET D : f[s] = OneStep(v, f, s)
  BY SumsExist
<1>2. f = [s \in SUBSET DOMAIN v |-> OneStep(v, f, s)]
  BY <1>1
<1>3. Sums(v) = [s \in SUBSET DOMAIN v |-> OneStep(v, Sums(v), s)]
  BY <1>2, Zenon DEF Sums
<1> DEFINE g == Sums(v)
<1>4. \A s \in SUBSET D : g[s] = IF s = {} THEN 0 ELSE v[Taken(s)] + g[s \ {Taken(s)}]
  BY <1>3 DEF OneStep
<1>5. g = [s \in SUBSET D |-> g[s]]
  BY <1>3
<1> HIDE DEF g
<1> DEFINE Odd == {s \in SUBSET D : g[s] \notin Int}
<1>6. Odd = {}
  <2> SUFFICES ASSUME Odd # {} PROVE FALSE
    OBVIOUS
  <2>1. PICK T \in Odd : \A U \in Odd : ~(U \subseteq T /\ U # T)
    <3>1. Odd \in SUBSET (SUBSET D)
      OBVIOUS
    <3> HIDE DEF Odd
    <3> QED
      BY <3>1, SmallestSubset
  <2>0. T \in SUBSET D /\ g[T] \notin Int
    OBVIOUS
  <2>2. T # {}
    <3>1. {} \in SUBSET D /\ g[{}] = 0
      BY <1>4
    <3>2. g[{}] \in Int
      BY <3>1
    <3> QED
      BY <3>2, <2>0, Zenon
  <2>3. Taken(T) \in T
    BY <2>2, TakenIn
  <2>4. T \ {Taken(T)} \in SUBSET D /\ T \ {Taken(T)} \notin Odd
    BY <2>1, <2>3
  <2>5. g[T \ {Taken(T)}] \in Int /\ v[Taken(T)] \in Int
    BY <2>4, <2>3
  <2>6. g[T] = v[Taken(T)] + g[T \ {Taken(T)}]
    BY <2>0, <2>2, <1>4
  <2> QED
    BY <2>5, <2>6, <2>0
<1> QED
  BY <1>4, <1>5, <1>6 DEF g


\* The order is immaterial: any element may be the one that is taken.
LEMMA SumsRemove ==
  ASSUME NEW v, NEW D, D = DOMAIN v, IsFiniteSet(D), \A x \in D : v[x] \in Int
  PROVE  \A s \in SUBSET D : \A x \in s : Sums(v)[s] = v[x] + Sums(v)[s \ {x}]
<1> DEFINE g == Sums(v)
<1>1. /\ \A s \in SUBSET D : g[s] \in Int
      /\ \A s \in SUBSET D : g[s] = IF s = {} THEN 0 ELSE v[Taken(s)] + g[s \ {Taken(s)}]
  BY SumsStep
<1> HIDE DEF g
<1> DEFINE Odd == {s \in SUBSET D : \E x \in s : g[s] # v[x] + g[s \ {x}]}
<1>2. Odd = {}
  <2> SUFFICES ASSUME Odd # {} PROVE FALSE
    OBVIOUS
  <2>1. PICK T \in Odd : \A U \in Odd : ~(U \subseteq T /\ U # T)
    <3>1. Odd \in SUBSET (SUBSET D)
      OBVIOUS
    <3> HIDE DEF Odd
    <3> QED
      BY <3>1, SmallestSubset
  <2>2. PICK x \in T : g[T] # v[x] + g[T \ {x}]
    OBVIOUS
  <2> DEFINE p == Taken(T)
  <2>3. p \in T
    BY <2>2, TakenIn
  <2> HIDE DEF p
  <2>4. g[T] = v[p] + g[T \ {p}]
    BY <1>1, <2>2 DEF p
  <2>5. x # p
    BY <2>2, <2>4
  <2> DEFINE R == T \ {p, x}
  <2>6. T \ {p} \notin Odd /\ T \ {x} \notin Odd
    BY <2>1, <2>2, <2>3
  <2>7. (T \ {p}) \ {x} = R /\ (T \ {x}) \ {p} = R
    OBVIOUS
  <2>8. g[T \ {p}] = v[x] + g[R] /\ g[T \ {x}] = v[p] + g[R]
    BY <2>2, <2>3, <2>5, <2>6, <2>7
  <2>9. v[p] \in Int /\ v[x] \in Int /\ g[R] \in Int
    BY <1>1, <2>2, <2>3
  <2> QED
    BY <2>2, <2>4, <2>8, <2>9
<1> QED
  BY <1>2 DEF g

\* g gives the sums of v over the parts of D.
AddsUp(g, v, D) ==
  /\ g[{}] = 0
  /\ \A T \in SUBSET D : g[T] \in Int
  /\ \A T \in SUBSET D : \A x \in T : g[T] = v[x] + g[T \ {x}]

LEMMA SumsAddUp ==
  ASSUME NEW v, NEW D, D = DOMAIN v, IsFiniteSet(D), \A x \in D : v[x] \in Int
  PROVE  AddsUp(Sums(v), v, D)
<1> DEFINE g == Sums(v)
<1>1. \A s \in SUBSET D : g[s] = IF s = {} THEN 0 ELSE v[Taken(s)] + g[s \ {Taken(s)}]
  BY SumsStep
<1>2. \A T \in SUBSET D : g[T] \in Int
  BY SumsStep
<1>3. ASSUME NEW T \in SUBSET D, NEW x \in T PROVE g[T] = v[x] + g[T \ {x}]
  BY SumsRemove
<1> HIDE DEF g
<1>4. g[{}] = 0
  BY <1>1
<1>5. AddsUp(g, v, D)
  BY <1>2, <1>3, <1>4 DEF AddsUp
<1> QED
  BY <1>5 DEF g

\* The sum over a part of a function is its sum over that part.
LEMMA TotalOfPart ==
  ASSUME NEW v, NEW D, D = DOMAIN v, IsFiniteSet(D), \A x \in D : v[x] \in Int,
         NEW S \in SUBSET D
  PROVE  Total([x \in S |-> v[x]]) = Sums(v)[S]
<1> DEFINE w == [x \in S |-> v[x]]
<1>0. IsFiniteSet(S)
  BY FS_Subset
<1>1. /\ \A s \in SUBSET D : Sums(v)[s] = IF s = {} THEN 0 ELSE v[Taken(s)] + Sums(v)[s \ {Taken(s)}]
      /\ \A s \in SUBSET S : Sums(w)[s] = IF s = {} THEN 0 ELSE w[Taken(s)] + Sums(w)[s \ {Taken(s)}]
  <2>1. S = DOMAIN w /\ \A x \in S : w[x] \in Int
    OBVIOUS
  <2> HIDE DEF w
  <2> QED
    BY <2>1, <1>0, SumsStep
<1>2. DOMAIN w = S /\ \A x \in S : w[x] = v[x]
  OBVIOUS
<1> HIDE DEF w
<1> DEFINE Odd == {s \in SUBSET S : Sums(w)[s] # Sums(v)[s]}
<1>3. Odd = {}
  <2> SUFFICES ASSUME Odd # {} PROVE FALSE
    OBVIOUS
  <2>1. PICK T \in Odd : \A U \in Odd : ~(U \subseteq T /\ U # T)
    <3>1. Odd \in SUBSET (SUBSET S)
      OBVIOUS
    <3> HIDE DEF Odd
    <3> QED
      BY <1>0, <3>1, SmallestSubset
  <2>0. T \in SUBSET S /\ T \in SUBSET D /\ Sums(w)[T] # Sums(v)[T]
    OBVIOUS
  <2>2. T # {}
    BY <2>0, <1>1
  <2>3. Taken(T) \in T
    BY <2>2, TakenIn
  <2>4. T \ {Taken(T)} \in SUBSET S /\ T \ {Taken(T)} \notin Odd
    BY <2>1, <2>3
  <2>5. Sums(w)[T \ {Taken(T)}] = Sums(v)[T \ {Taken(T)}]
    BY <2>4
  <2> QED
    BY <2>5, <2>0, <2>2, <2>3, <1>1, <1>2
<1>4. Total(w) = Sums(w)[S]
  BY <1>2, TotalIsSum
<1> QED
  BY <1>3, <1>4 DEF w

\* Elements at which the function is zero do not count.
LEMMA ZeroesDoNotCount ==
  ASSUME NEW v, NEW D, D = DOMAIN v, IsFiniteSet(D), \A x \in D : v[x] \in Int,
         NEW S \in SUBSET D, \A x \in D \ S : v[x] = 0
  PROVE  Sums(v)[S] = Sums(v)[D]
<1> DEFINE g == Sums(v)
<1>0. AddsUp(g, v, D)
  BY SumsAddUp
<1> HIDE DEF g
<1>1. /\ \A T \in SUBSET D : g[T] \in Int
      /\ \A T \in SUBSET D : \A x \in T : g[T] = v[x] + g[T \ {x}]
  BY <1>0 DEF AddsUp
<1> DEFINE Odd == {T \in SUBSET D : S \subseteq T /\ g[T] # g[S]}
<1>2. Odd = {}
  <2> SUFFICES ASSUME Odd # {} PROVE FALSE
    OBVIOUS
  <2>1. PICK T \in Odd : \A U \in Odd : ~(U \subseteq T /\ U # T)
    <3>1. Odd \in SUBSET (SUBSET D)
      OBVIOUS
    <3> HIDE DEF Odd
    <3> QED
      BY <3>1, SmallestSubset
  <2>2. PICK x \in T : x \notin S
    OBVIOUS
  <2>3. T \ {x} \in SUBSET D /\ S \subseteq T \ {x} /\ T \ {x} \notin Odd
    BY <2>1, <2>2
  <2>4. g[T \ {x}] = g[S]
    BY <2>3
  <2>5. g[T] = v[x] + g[T \ {x}] /\ v[x] = 0 /\ g[S] \in Int
    BY <1>1, <2>2
  <2> QED
    BY <2>4, <2>5
<1> QED
  BY <1>2 DEF g

-----------------------------------------------------------------------------
(* The breakdown of a score, added up.                                     *)

\* The breakdown has eleven parts.
LEMMA PartsFinite == IsFiniteSet(Parts)
<1> DEFINE f == <<"yield", "currency", "duration", "liquidity", "metal", "credit", "inflation",
                  "coupon", "volatility", "hist_vol", "peer">>
<1>1. f \in [1 .. 11 -> Parts]
  BY DEF Parts
<1>2. \A part \in Parts : \E i \in 1 .. 11 : f[i] = part
  <2>1. /\ f[1] = "yield" /\ f[2] = "currency" /\ f[3] = "duration" /\ f[4] = "liquidity" /\ f[5] = "metal"
        /\ f[6] = "credit" /\ f[7] = "inflation" /\ f[8] = "coupon" /\ f[9] = "volatility" /\ f[10] = "hist_vol"
        /\ f[11] = "peer"
    OBVIOUS
  <2> HIDE DEF f
  <2> QED
    BY <2>1 DEF Parts
<1>3. f \in Surjection(1 .. 11, Parts)
  BY <1>1, <1>2 DEF Surjection
<1> QED
  <2> HIDE DEF f
  <2>1. 1 \in Int /\ 11 \in Int
    OBVIOUS
  <2>2. IsFiniteSet(1 .. 11)
    BY <2>1, FS_Interval, Zenon
  <2> QED
    BY <1>3, <2>2, FS_Surjection

\* What the parts add up to.
LEMMA SumOfParts ==
  ASSUME NEW v, DOMAIN v = Parts, \A part \in Parts : v[part] \in Int
  PROVE  Total(v) = v["yield"] + v["currency"] + v["duration"] + v["liquidity"] + v["metal"] + v["credit"]
                    + v["inflation"] + v["coupon"] + v["volatility"] + v["hist_vol"] + v["peer"]
<1> DEFINE g == Sums(v)
<1>0. Total(v) = g[Parts]
  BY TotalIsSum
<1>a. AddsUp(g, v, Parts)
  BY PartsFinite, SumsAddUp
<1> HIDE DEF g
<1>1. /\ g[{}] = 0
      /\ \A T \in SUBSET Parts : \A x \in T : g[T] = v[x] + g[T \ {x}]
  BY <1>a DEF AddsUp
<1> DEFINE
  T1 == Parts \ {"yield"}
  T2 == T1 \ {"currency"}
  T3 == T2 \ {"duration"}
  T4 == T3 \ {"liquidity"}
  T5 == T4 \ {"metal"}
  T6 == T5 \ {"credit"}
  T7 == T6 \ {"inflation"}
  T8 == T7 \ {"coupon"}
  T9 == T8 \ {"volatility"}
  T10 == T9 \ {"hist_vol"}
<1>2. g[Parts] = v["yield"] + g[T1]
  BY <1>1 DEF Parts
<1>3. g[T1] = v["currency"] + g[T2]
  BY <1>1 DEF Parts
<1>4. g[T2] = v["duration"] + g[T3]
  BY <1>1 DEF Parts
<1>5. g[T3] = v["liquidity"] + g[T4]
  BY <1>1 DEF Parts
<1>6. g[T4] = v["metal"] + g[T5]
  BY <1>1 DEF Parts
<1>7. g[T5] = v["credit"] + g[T6]
  BY <1>1 DEF Parts
<1>8. g[T6] = v["inflation"] + g[T7]
  BY <1>1 DEF Parts
<1>9. g[T7] = v["coupon"] + g[T8]
  BY <1>1 DEF Parts
<1>10. g[T8] = v["volatility"] + g[T9]
  BY <1>1 DEF Parts
<1>11. g[T9] = v["hist_vol"] + g[T10]
  BY <1>1 DEF Parts
<1>12. g[T10] = v["peer"] + g[T10 \ {"peer"}]
  BY <1>1 DEF Parts
<1>13. T10 \ {"peer"} = {}
  BY DEF Parts
<1> HIDE DEF T1, T2, T3, T4, T5, T6, T7, T8, T9, T10
<1>14. g[T10] = v["peer"] + 0
  BY <1>1, <1>12, <1>13
<1>15. /\ v["yield"] \in Int /\ v["currency"] \in Int /\ v["duration"] \in Int /\ v["liquidity"] \in Int
       /\ v["metal"] \in Int /\ v["credit"] \in Int /\ v["inflation"] \in Int /\ v["coupon"] \in Int
       /\ v["volatility"] \in Int /\ v["hist_vol"] \in Int /\ v["peer"] \in Int
  BY DEF Parts
<1>16. g[T8] = v["volatility"] + v["hist_vol"] + v["peer"] /\ g[T8] \in Int
  BY <1>10, <1>11, <1>14, <1>15
<1>17. g[T5] = v["credit"] + v["inflation"] + v["coupon"] + g[T8] /\ g[T5] \in Int
  BY <1>7, <1>8, <1>9, <1>15, <1>16
<1>18. g[T2] = v["duration"] + v["liquidity"] + v["metal"] + g[T5] /\ g[T2] \in Int
  BY <1>4, <1>5, <1>6, <1>15, <1>17
<1> QED
  BY <1>0, <1>2, <1>3, <1>15, <1>16, <1>17, <1>18

\* Of a breakdown whose volatility costs or leaves alone, the score is the
\* reward less the risk.
LEMMA ScoreIsNet ==
  ASSUME NEW b \in [Parts -> Int], b["volatility"] =< 0
  PROVE  Total(b) = Reward(b) - Risk(b)
<1> DEFINE up == [part \in Parts |-> Larger(b[part], 0)]
           down == [part \in Parts |-> -Smaller(b[part], 0)]
           rest == Parts \ {"volatility"}
<1>1. /\ DOMAIN up = Parts /\ DOMAIN down = Parts
      /\ \A part \in Parts : up[part] \in Int /\ down[part] \in Int /\ b[part] = up[part] - down[part]
  BY DEF Larger, Smaller
<1>2. up["volatility"] = 0
  BY DEF Larger, Parts
<1>3. Reward(b) = Total([part \in rest |-> up[part]])
  <2>1. [part \in rest |-> up[part]] = [part \in Parts \ {"volatility"} |-> Larger(b[part], 0)]
    OBVIOUS
  <2> QED
    BY <2>1 DEF Reward
<1>4. Risk(b) = Total(down)
  BY DEF Risk
<1> HIDE DEF up, down
<1>5. Reward(b) = Sums(up)[rest]
  <2>1. rest \in SUBSET Parts
    OBVIOUS
  <2> QED
    BY <1>1, <1>3, <2>1, PartsFinite, TotalOfPart
<1>6. Sums(up)[rest] = Sums(up)[Parts]
  BY <1>1, <1>2, PartsFinite, ZeroesDoNotCount
<1>7. Reward(b) = Total(up)
  BY <1>1, <1>5, <1>6, TotalIsSum
<1>8. Total(b) = Total(up) - Total(down)
  <2>1. b["yield"] = up["yield"] - down["yield"] /\ up["yield"] \in Int /\ down["yield"] \in Int
    BY <1>1 DEF Parts
  <2>2. b["currency"] = up["currency"] - down["currency"] /\ up["currency"] \in Int /\ down["currency"] \in Int
    BY <1>1 DEF Parts
  <2>3. b["duration"] = up["duration"] - down["duration"] /\ up["duration"] \in Int /\ down["duration"] \in Int
    BY <1>1 DEF Parts
  <2>4. b["liquidity"] = up["liquidity"] - down["liquidity"] /\ up["liquidity"] \in Int /\ down["liquidity"] \in Int
    BY <1>1 DEF Parts
  <2>5. b["metal"] = up["metal"] - down["metal"] /\ up["metal"] \in Int /\ down["metal"] \in Int
    BY <1>1 DEF Parts
  <2>6. b["credit"] = up["credit"] - down["credit"] /\ up["credit"] \in Int /\ down["credit"] \in Int
    BY <1>1 DEF Parts
  <2>7. b["inflation"] = up["inflation"] - down["inflation"] /\ up["inflation"] \in Int /\ down["inflation"] \in Int
    BY <1>1 DEF Parts
  <2>8. b["coupon"] = up["coupon"] - down["coupon"] /\ up["coupon"] \in Int /\ down["coupon"] \in Int
    BY <1>1 DEF Parts
  <2>9. b["volatility"] = up["volatility"] - down["volatility"] /\ up["volatility"] \in Int /\ down["volatility"] \in Int
    BY <1>1 DEF Parts
  <2>10. b["hist_vol"] = up["hist_vol"] - down["hist_vol"] /\ up["hist_vol"] \in Int /\ down["hist_vol"] \in Int
    BY <1>1 DEF Parts
  <2>11. b["peer"] = up["peer"] - down["peer"] /\ up["peer"] \in Int /\ down["peer"] \in Int
    BY <1>1 DEF Parts
  <2>12. DOMAIN b = Parts /\ \A part \in Parts : b[part] \in Int
    OBVIOUS
  <2>13. Total(b) = b["yield"] + b["currency"] + b["duration"] + b["liquidity"] + b["metal"] + b["credit"]
                    + b["inflation"] + b["coupon"] + b["volatility"] + b["hist_vol"] + b["peer"]
    BY <2>12, SumOfParts
  <2>14. Total(up) = up["yield"] + up["currency"] + up["duration"] + up["liquidity"] + up["metal"] + up["credit"]
                    + up["inflation"] + up["coupon"] + up["volatility"] + up["hist_vol"] + up["peer"]
    BY <1>1, SumOfParts
  <2>15. Total(down) = down["yield"] + down["currency"] + down["duration"] + down["liquidity"] + down["metal"]
                    + down["credit"] + down["inflation"] + down["coupon"] + down["volatility"] + down["hist_vol"]
                    + down["peer"]
    BY <1>1, SumOfParts
  <2> QED
    BY <2>1, <2>2, <2>3, <2>4, <2>5, <2>6, <2>7, <2>8, <2>9, <2>10, <2>11, <2>13, <2>14, <2>15
<1> QED
  BY <1>4, <1>7, <1>8

\* The factors that are shown add up to the score: the parts left out are zero.
LEMMA FactorsAddUp ==
  ASSUME NEW b \in [Parts -> Int]
  PROVE  Total([f \in Factors(b) |-> b[f]]) = Total(b)
<1>1. Factors(b) \in SUBSET Parts /\ \A part \in Parts \ Factors(b) : b[part] = 0
  BY DEF Factors
<1>2. DOMAIN b = Parts /\ \A part \in Parts : b[part] \in Int
  OBVIOUS
<1>3. Total([f \in Factors(b) |-> b[f]]) = Sums(b)[Factors(b)]
  BY <1>1, <1>2, PartsFinite, TotalOfPart
<1>4. Sums(b)[Factors(b)] = Sums(b)[Parts]
  BY <1>1, <1>2, PartsFinite, ZeroesDoNotCount
<1> QED
  BY <1>2, <1>3, <1>4, TotalIsSum

-----------------------------------------------------------------------------
(* The components of a score.                                              *)

\* The least of a set of places.
LEMMA MinOf ==
  ASSUME NEW S \in SUBSET Nat, S # {}
  PROVE  Min(S) \in S /\ \A x \in S : Min(S) =< x
<1>1. \E x \in S : \A y \in S : x =< y
  BY LeastExists
<1> QED
  BY <1>1, Zenon DEF Min

\* A ladder answers with its first rung that the value reaches.
LEMMA RungReached ==
  ASSUME NEW value, NEW ladder, DOMAIN ladder \in SUBSET Nat, NEW otherwise
  PROVE  \/ /\ \A i \in DOMAIN ladder : ~(value >= ladder[i][1])
            /\ Rung(value, ladder, otherwise) = otherwise
         \/ \E i \in DOMAIN ladder :
              /\ value >= ladder[i][1] /\ Rung(value, ladder, otherwise) = ladder[i][2]
              /\ \A j \in DOMAIN ladder : value >= ladder[j][1] => i =< j
<1> DEFINE reached == {i \in DOMAIN ladder : value >= ladder[i][1]}
<1>1. CASE reached = {}
  BY <1>1, Zenon DEF Rung
<1>2. CASE reached # {}
  <2>1. Min(reached) \in reached /\ \A x \in reached : Min(reached) =< x
    BY <1>2, MinOf
  <2>2. Rung(value, ladder, otherwise) = ladder[Min(reached)][2]
    BY <1>2 DEF Rung
  <2> QED
    BY <2>1, <2>2
<1> QED
  BY <1>1, <1>2

\* So its points are those of a rung, or what it gives otherwise.
LEMMA RungIn ==
  ASSUME NEW value, NEW ladder, DOMAIN ladder \in SUBSET Nat, NEW otherwise, NEW S, otherwise \in S,
         \A i \in DOMAIN ladder : ladder[i][2] \in S
  PROVE  Rung(value, ladder, otherwise) \in S
BY RungReached

\* The like of the kinds of keywords.
LEMMA FirstNamedIn ==
  ASSUME NEW issuer, NEW list, DOMAIN list \in SUBSET Nat, NEW otherwise, NEW S, otherwise \in S,
         \A i \in DOMAIN list : list[i][2] \in S
  PROVE  FirstNamed(issuer, list, otherwise) \in S
<1> DEFINE held == {i \in DOMAIN list : list[i][1] \in issuer.words}
<1>1. CASE held = {}
  BY <1>1 DEF FirstNamed
<1>2. CASE held # {}
  <2>1. Min(held) \in held
    BY <1>2, MinOf
  <2>2. FirstNamed(issuer, list, otherwise) = list[Min(held)][2]
    BY <1>2 DEF FirstNamed
  <2> QED
    BY <2>1, <2>2
<1> QED
  BY <1>1, <1>2

\* What a credit profile gives.
LEMMA ProfileCreditType ==
  \A i \in 1 .. 20 : ProfileCredit[i] \in Int /\ -500 =< ProfileCredit[i] /\ ProfileCredit[i] =< 1200
BY DEF ProfileCredit

\* Profile is the number of one, or 0.
LEMMA ProfileType ==
  ASSUME NEW p \in Papers
  PROVE  Profile(p.issuer) \in 0 .. 20
<1>1. p.issuer.profiles \in SUBSET (1 .. 20)
  BY ScoringAssumption DEF ScoringAssumption, PaperType, ProfileCredit
<1>2. CASE p.issuer.profiles # {}
  <2>1. Min(p.issuer.profiles) \in p.issuer.profiles
    BY <1>1, <1>2, MinOf
  <2> QED
    BY <1>1, <1>2, <2>1 DEF Profile
<1> QED
  BY <1>2 DEF Profile

\* The tiers of issuers are those that have points.
TierNames == {"sovereign", "sub_sovereign", "state_corp", "bank_systemic", "bank", "corp", "unknown"}

LEMMA ClassifiedType == ASSUME NEW issuer PROVE Classified(issuer) \in TierNames
<1> DEFINE list == <<<<"state", "sovereign">>, <<"systemic", "bank_systemic">>, <<"bank", "bank">>,
                     <<"gas", "state_corp">>, <<"federal", "sub_sovereign">>>>
<1>1. DOMAIN list \in SUBSET Nat /\ \A i \in DOMAIN list : list[i][2] \in TierNames
  BY DEF TierNames
<1>2. Classified(issuer) = IF ~issuer.known THEN "unknown" ELSE FirstNamed(issuer, list, "corp")
  BY DEF Classified
<1>3. "corp" \in TierNames /\ "unknown" \in TierNames
  BY DEF TierNames
<1> HIDE DEF list
<1>4. FirstNamed(issuer, list, "corp") \in TierNames
  BY <1>1, <1>3, FirstNamedIn
<1> QED
  BY <1>2, <1>3, <1>4

LEMMA CreditType == ASSUME NEW p \in Papers PROVE CreditPoints(p) \in Int /\ -3500 =< CreditPoints(p) /\ CreditPoints(p) =< 1200
<1>1. Profile(p.issuer) \in 0 .. 20
  BY ProfileType
<1> DEFINE credit == ProfileCredit[Profile(p.issuer)]
<1>2. ASSUME Profile(p.issuer) # 0 PROVE credit \in Int /\ -500 =< credit /\ credit =< 1200
  <2>1. Profile(p.issuer) \in 1 .. 20
    BY <1>1, <1>2
  <2> QED
    BY <2>1, ProfileCreditType, Zenon
<1>3. TierPoints(Classified(p.issuer)) \in -300 .. 1200
  BY ClassifiedType DEF TierPoints, TierNames
<1>4. CASE p.status = "delisted"
  BY <1>4 DEF CreditPoints
<1>5. CASE p.status = "matured"
  BY <1>5 DEF CreditPoints
<1>6. CASE p.status = "defaulted"
  BY <1>6 DEF CreditPoints
<1>7. CASE p.status \notin {"delisted", "matured", "defaulted"}
  <2>1. CreditPoints(p) = IF Profile(p.issuer) # 0 THEN ProfileCredit[Profile(p.issuer)]
                          ELSE TierPoints(Classified(p.issuer))
    BY <1>7 DEF CreditPoints
  <2>2. CASE Profile(p.issuer) # 0
    BY <1>2, <2>1, <2>2
  <2>3. CASE Profile(p.issuer) = 0
    BY <1>3, <2>1, <2>3
  <2> QED
    BY <2>2, <2>3
<1> QED
  BY <1>4, <1>5, <1>6, <1>7

LEMMA InflationType == ASSUME NEW p, NEW y \in Int PROVE InflationPoints(p, y) \in -500 .. 600
<1> DEFINE S == -500 .. 600
           L1 == <<<<18, 500>>, <<14, 300>>, <<10, 0>>>>
           L2 == <<<<10, 200>>>>
           L3 == <<<<12, 500>>, <<8, 200>>, <<5, -100>>>>
           L4 == <<<<16, 400>>, <<12, 200>>>>
           L5 == <<<<10, 600>>, <<5, 400>>>>
           L6 == <<<<5, 100>>>>
           L7 == <<<<6, 200>>>>
           L8 == <<<<2, 0>>>>
<1>1. DOMAIN L1 \in SUBSET Nat /\ -200 \in S /\ \A i \in DOMAIN L1 : L1[i][2] \in S
  OBVIOUS
<1>2. DOMAIN L2 \in SUBSET Nat /\ -100 \in S /\ \A i \in DOMAIN L2 : L2[i][2] \in S
  OBVIOUS
<1>3. DOMAIN L3 \in SUBSET Nat /\ -500 \in S /\ \A i \in DOMAIN L3 : L3[i][2] \in S
  OBVIOUS
<1>4. DOMAIN L4 \in SUBSET Nat /\ -100 \in S /\ \A i \in DOMAIN L4 : L4[i][2] \in S
  OBVIOUS
<1>5. DOMAIN L5 \in SUBSET Nat /\ 300 \in S /\ \A i \in DOMAIN L5 : L5[i][2] \in S
  OBVIOUS
<1>6. DOMAIN L6 \in SUBSET Nat /\ -200 \in S /\ \A i \in DOMAIN L6 : L6[i][2] \in S
  OBVIOUS
<1>7. DOMAIN L7 \in SUBSET Nat /\ 0 \in S /\ \A i \in DOMAIN L7 : L7[i][2] \in S
  OBVIOUS
<1>8. DOMAIN L8 \in SUBSET Nat /\ -300 \in S /\ \A i \in DOMAIN L8 : L8[i][2] \in S
  OBVIOUS
<1> HIDE DEF S, L1, L2, L3, L4, L5, L6, L7, L8
<1>11. Rung(y, L1, -200) \in S
  BY <1>1, RungIn
<1>12. Rung(y, L2, -100) \in S
  BY <1>2, RungIn
<1>13. Rung(y, L3, -500) \in S
  BY <1>3, RungIn
<1>14. Rung(y, L4, -100) \in S
  BY <1>4, RungIn
<1>15. Rung(y, L5, 300) \in S
  BY <1>5, RungIn
<1>16. Rung(y, L6, -200) \in S
  BY <1>6, RungIn
<1>17. Rung(y, L7, 0) \in S
  BY <1>7, RungIn
<1>18. Rung(y, L8, -300) \in S
  BY <1>8, RungIn
<1>19. InflationPoints(p, y) \in S
  BY <1>11, <1>12, <1>13, <1>14, <1>15, <1>16, <1>17, <1>18 DEF InflationPoints, L1, L2, L3, L4, L5, L6, L7, L8
<1> QED
  BY <1>19 DEF S

LEMMA MetalType ==
  ASSUME NEW p PROVE MetalPoints(p) \in Int /\ 0 =< MetalPoints(p) /\ MetalPoints(p) =< 500
<1> DEFINE list == <<<<"gold", 300>>, <<"norilsk", 200>>, <<"steel", 100>>>>
<1>1. DOMAIN list \in SUBSET Nat /\ \A i \in DOMAIN list : list[i][2] \in 0 .. 500
  OBVIOUS
<1>2. FirstNamed(p.issuer, list, 0) \in 0 .. 500
  <2> DEFINE S == 0 .. 500
  <2>1. DOMAIN list \in SUBSET Nat /\ 0 \in S /\ \A i \in DOMAIN list : list[i][2] \in S
    BY <1>1
  <2> HIDE DEF list, S
  <2>2. FirstNamed(p.issuer, list, 0) \in S
    BY <2>1, FirstNamedIn
  <2> QED
    BY <2>2 DEF S
<1>3. FirstNamed(p.issuer, list, 0) \in Int /\ 0 =< FirstNamed(p.issuer, list, 0) /\ FirstNamed(p.issuer, list, 0) =< 500
  BY <1>2
<1> QED
  BY <1>3 DEF MetalPoints

\* The quote of a paper.
LEMMA QuoteType ==
  ASSUME NEW p \in Papers
  PROVE  /\ p.price \in Int /\ p.coupon \in Int /\ p.life \in Int /\ p.semi \in Int /\ p.own \in Int
         /\ p.discount \in Int /\ p.source \in Int /\ p.metal \in BOOLEAN
<1>1. PaperType(p)
  BY ScoringAssumption DEF ScoringAssumption
<1> QED
  BY <1>1 DEF PaperType

LEMMA DurationType == ASSUME NEW p \in Papers PROVE DurationPoints(p.life) \in -400 .. 800
<1>1. PaperType(p) /\ \A m \in DOMAIN Sigmoid : Sigmoid[m] \in -400 .. 800
  BY ScoringAssumption DEF ScoringAssumption
<1>2. p.life \in Int /\ (p.life > 6 => Sigmoid[p.life] \in -400 .. 800)
  BY <1>1 DEF PaperType
<1> QED
  BY <1>2 DEF DurationPoints, Absent

LEMMA LiquidityType == ASSUME NEW p \in Papers PROVE LiquidityPoints(p) \in -500 .. 1600
<1> DEFINE
  shown == IF p.price = Absent THEN 0 ELSE IF p.price \in 85 .. 115 THEN 700 ELSE 500
  stands == CASE p.status = "active" -> 400 [] p.status \in {"offer", "matured"} -> -500 [] OTHER -> 0
  near == IF p.life = Absent \/ p.life >= 12 THEN 0 ELSE IF p.life < 6 THEN 500 ELSE 300
<1>1. shown \in 0 .. 700
  OBVIOUS
<1>2. stands \in -500 .. 400
  <2>1. CASE p.status = "active"
    BY <2>1
  <2>2. CASE p.status \in {"offer", "matured"}
    BY <2>2
  <2>3. CASE p.status \notin {"active", "offer", "matured"}
    BY <2>3
  <2> QED
    BY <2>1, <2>2, <2>3
<1>3. near \in 0 .. 500
  OBVIOUS
<1>4. LiquidityPoints(p) = shown + stands + near
  BY DEF LiquidityPoints
<1> HIDE DEF shown, stands, near
<1> QED
  BY <1>1, <1>2, <1>3, <1>4

LEMMA CouponType == ASSUME NEW c \in Int, NEW y \in Int PROVE CouponPoints(c, y) \in -300 .. 700
BY DEF CouponPoints, Smaller, Absent

LEMMA CurrencyType == ASSUME NEW c PROVE CurrencyPoints(c) \in 1000 .. 1800
BY DEF CurrencyPoints

LEMMA VolatilityType ==
  ASSUME NEW p \in Papers, NEW y \in Int
  PROVE  /\ VolatilityPoints(p, y) \in -1800 .. 0
         /\ y > 35 => VolatilityPoints(p, y) =< -300
<1> DEFINE
  far == IF y > 60 THEN -700 ELSE IF y > 35 THEN -300 ELSE 0
  odd == CASE p.price = Absent -> 0 [] p.price # Absent /\ p.price \notin 30 .. 200 -> -400
           [] p.price \in (30 .. 49) \cup (151 .. 200) -> -100 [] OTHER -> 0
  halted == IF p.status \in {"delisted", "defaulted", "suspended"} THEN -500 ELSE 0
  idle == IF p.coupon # Absent /\ p.coupon <= 0 /\ y # Absent /\ y < 3 THEN -200 ELSE 0
<1>1. far \in -700 .. 0 /\ (y > 35 => far =< -300)
  OBVIOUS
<1>2. odd \in -400 .. 0
  <2>1. p.price \in Int /\ Absent \in Int /\ Absent \notin 30 .. 200
    BY QuoteType DEF Absent
  <2>2. CASE p.price = Absent
    BY <2>1, <2>2
  <2>3. CASE p.price # Absent /\ p.price \notin 30 .. 200
    BY <2>1, <2>3
  <2>4. CASE p.price \in (30 .. 49) \cup (151 .. 200)
    BY <2>1, <2>4
  <2>5. CASE p.price # Absent /\ p.price \in 50 .. 150
    BY <2>1, <2>5
  <2> QED
    BY <2>1, <2>2, <2>3, <2>4, <2>5
<1>3. halted \in -500 .. 0
  OBVIOUS
<1>4. idle \in -200 .. 0
  OBVIOUS
<1>5. VolatilityPoints(p, y) = far + odd + halted + idle
  BY DEF VolatilityPoints
<1> HIDE DEF far, odd, halted, idle
<1> QED
  BY <1>1, <1>2, <1>3, <1>4, <1>5

-----------------------------------------------------------------------------
(* The yield that counts, and the breakdown of a row.                      *)

\* A yield whose points are known.
YieldKnown(y) == y \in Int /\ (y > 40 => y - 39 \in DOMAIN Log)

\* What may stand in the row of a bond once it was recomputed.
KeptYields(p) == {Absent} \cup {y \in {p.own, p.source} : 0 < y /\ y =< 1000}

LEMMA KeptType ==
  ASSUME NEW p \in Papers, NEW y \in KeptYields(p)
  PROVE  y \in Int /\ (y = Absent \/ (0 < y /\ y =< 1000)) /\ YieldKnown(y)
<1>1. PaperType(p)
  BY ScoringAssumption DEF ScoringAssumption
<1>2. CASE y = Absent
  BY <1>2 DEF Absent, YieldKnown
<1>3. CASE y \in {p.own, p.source} /\ 0 < y /\ y =< 1000
  <2>1. y \in Int
    BY <1>1, <1>3 DEF PaperType
  <2>2. \A z \in {p.discount, p.own, p.source} : z > 40 /\ z =< 1000 => z - 39 \in DOMAIN Log
    BY <1>1 DEF PaperType
  <2> QED
    BY <1>3, <2>1, <2>2 DEF YieldKnown
<1> QED
  BY <1>2, <1>3 DEF KeptYields

LEMMA DerivedKnown ==
  ASSUME NEW p, PaperType(p), NEW given, YieldKnown(given)
  PROVE  YieldKnown(Derived(p, given))
<1>2. /\ p.price \in Int /\ p.coupon \in Int /\ p.semi \in Int /\ p.discount \in Int
      /\ YieldKnown(p.semi) /\ YieldKnown(p.coupon)
      /\ p.discount =< 1000 => YieldKnown(p.discount)
  <2>1. /\ p.price \in Int /\ p.coupon \in Int /\ p.semi \in Int /\ p.discount \in Int
    BY DEF PaperType
  <2>2. /\ p.semi > 40 => p.semi - 39 \in DOMAIN Log
        /\ p.coupon > 40 => p.coupon - 39 \in DOMAIN Log
        /\ p.discount > 40 /\ p.discount =< 1000 => p.discount - 39 \in DOMAIN Log
    BY DEF PaperType
  <2>3. YieldKnown(p.semi) /\ YieldKnown(p.coupon)
    BY <2>1, <2>2 DEF YieldKnown
  <2>4. p.discount =< 1000 => YieldKnown(p.discount)
    BY <2>1, <2>2 DEF YieldKnown
  <2> QED
    BY <2>1, <2>3, <2>4
<1>3. YieldKnown(Absent) /\ YieldKnown(given) /\ given \in Int
  BY DEF YieldKnown, Absent
<1> DEFINE solved == IF p.coupon > 0 /\ p.semi > 0 THEN p.semi
                     ELSE IF p.discount > 0 /\ p.discount < 1000 THEN p.discount ELSE Absent
<1>4. YieldKnown(solved)
  BY <1>2, <1>3
<1>5. CASE NoCouponMetal(p)
  <2>1. Derived(p, given) = Absent
    BY <1>5 DEF Derived
  <2> QED
    BY <2>1, <1>3
<1>6. CASE ~NoCouponMetal(p) /\ given > 0
  <2>1. Derived(p, given) = given
    BY <1>6 DEF Derived
  <2> QED
    BY <2>1, <1>3
<1>7. CASE ~NoCouponMetal(p) /\ ~(given > 0)
  <2>1. Derived(p, given) = IF solved = Absent /\ p.price = Absent /\ p.coupon > 0 THEN p.coupon ELSE solved
    BY <1>7 DEF Derived
  <2> HIDE DEF solved
  <2> QED
    BY <2>1, <1>2, <1>4
<1> QED
  BY <1>5, <1>6, <1>7

LEMMA YieldType == ASSUME NEW y, YieldKnown(y) PROVE YieldPoints(y) \in Nat
<1>1. \A n \in DOMAIN Log : Log[n] \in Nat
  BY ScoringAssumption DEF ScoringAssumption
<1>2. CASE y > 40
  BY <1>1, <1>2 DEF YieldKnown, YieldPoints
<1>3. CASE ~(y > 40)
  BY <1>3 DEF YieldKnown, YieldPoints
<1> QED
  BY <1>2, <1>3

\* A score is recomputed without a past and without peers.
LEMMA NoPast == HistoryPoints(<< >>) = 0 /\ \A y : PeerPoints(<< >>, y) = 0
<1>1. DOMAIN Positive(<< >>) = {}
  BY DEF Positive
<1>2. Number(Positive(<< >>)) = 0
  BY <1>1, FS_EmptySet DEF Number
<1> QED
  BY <1>2 DEF HistoryPoints, PeerPoints

\* How far the parts reach when there is no past and no peers.
PartsBounded(b) ==
  /\ b \in [Parts -> Int]
  /\ \A part \in Parts \ {"credit", "volatility"} : b[part] >= -500
  /\ b["currency"] =< 1800 /\ b["duration"] =< 800 /\ b["liquidity"] =< 1600 /\ b["metal"] =< 500
  /\ b["credit"] =< 1200 /\ b["inflation"] =< 600 /\ b["coupon"] =< 700 /\ b["volatility"] =< 0
  /\ b["hist_vol"] = 0 /\ b["peer"] = 0

\* And of a bond in distress.
CappedForDistress(b) == b["yield"] =< 2000 /\ b["volatility"] =< -2100

LEMMA BreakdownIs ==
  ASSUME NEW p \in Papers, NEW y, YieldKnown(y), NEW past, NEW peers, HistoryPoints(past) = 0,
         PeerPoints(peers, y) = 0, NEW b, b = Breakdown(p, y, past, peers)
  PROVE  PartsBounded(b) /\ (Distressed(p, y) => CappedForDistress(b))
<1>0. y \in Int
  BY DEF YieldKnown
<1>1. DOMAIN b = Parts
  BY DEF Breakdown
<1>2. b["yield"] \in Nat /\ (Distressed(p, y) => b["yield"] =< 2000)
  <2>1. b["yield"] = IF Distressed(p, y) THEN Smaller(YieldPoints(y), 2000) ELSE YieldPoints(y)
    BY DEF Breakdown, PointsOf, Parts
  <2> QED
    BY <2>1, YieldType DEF Smaller
<1>3. b["currency"] \in Int /\ 1000 =< b["currency"] /\ b["currency"] =< 1800
  <2>1. b["currency"] = CurrencyPoints(p.currency)
    BY DEF Breakdown, PointsOf, Parts
  <2> QED
    BY <2>1, CurrencyType
<1>4. b["duration"] \in Int /\ -400 =< b["duration"] /\ b["duration"] =< 800
  <2>1. b["duration"] = DurationPoints(p.life)
    BY DEF Breakdown, PointsOf, Parts
  <2> QED
    BY <2>1, DurationType
<1>5. b["liquidity"] \in Int /\ -500 =< b["liquidity"] /\ b["liquidity"] =< 1600
  <2>1. b["liquidity"] = LiquidityPoints(p)
    BY DEF Breakdown, PointsOf, Parts
  <2> QED
    <3>1. LiquidityPoints(p) \in Int /\ -500 =< LiquidityPoints(p) /\ LiquidityPoints(p) =< 1600
      <4>1. LiquidityPoints(p) \in -500 .. 1600
        BY LiquidityType
      <4> QED
        BY <4>1
    <3> QED
      BY <2>1, <3>1
<1>6. b["metal"] \in Int /\ 0 =< b["metal"] /\ b["metal"] =< 500
  <2>1. b["metal"] = MetalPoints(p)
    BY DEF Breakdown, PointsOf, Parts
  <2> QED
    <3>1. MetalPoints(p) \in Int /\ 0 =< MetalPoints(p) /\ MetalPoints(p) =< 500
      BY MetalType
    <3> QED
      BY <2>1, <3>1
<1>7. b["credit"] \in Int /\ b["credit"] =< 1200
  <2>1. b["credit"] = CreditPoints(p)
    BY DEF Breakdown, PointsOf, Parts
  <2> QED
    <3>1. CreditPoints(p) \in Int /\ -3500 =< CreditPoints(p) /\ CreditPoints(p) =< 1200
      BY CreditType
    <3> QED
      BY <2>1, <3>1
<1>8. b["inflation"] \in Int /\ -500 =< b["inflation"] /\ b["inflation"] =< 600
  <2>1. b["inflation"] = InflationPoints(p, y)
    BY DEF Breakdown, PointsOf, Parts
  <2> QED
    <3>1. InflationPoints(p, y) \in -500 .. 600
      BY <1>0, InflationType
    <3> QED
      BY <2>1, <3>1
<1>9. b["coupon"] \in Int /\ -300 =< b["coupon"] /\ b["coupon"] =< 700
  <2>1. b["coupon"] = CouponPoints(p.coupon, y)
    BY DEF Breakdown, PointsOf, Parts
  <2> QED
    <3>1. p.coupon \in Int
      BY QuoteType
    <3>2. CouponPoints(p.coupon, y) \in -300 .. 700
      BY <1>0, <3>1, CouponType
    <3> QED
      BY <2>1, <3>2
<1>10. b["volatility"] \in Int /\ b["volatility"] =< 0 /\ (Distressed(p, y) => b["volatility"] =< -2100)
  <2>1. b["volatility"] = VolatilityPoints(p, y) - (IF Distressed(p, y) THEN 1800 ELSE 0)
    BY DEF Breakdown, PointsOf, Parts
  <2>2. VolatilityPoints(p, y) \in -1800 .. 0 /\ (y > 35 => VolatilityPoints(p, y) =< -300)
    BY <1>0, VolatilityType
  <2>3. Distressed(p, y) => y > 35
    BY <1>0 DEF Distressed
  <2>4. CASE Distressed(p, y)
    BY <2>1, <2>2, <2>3, <2>4
  <2>5. CASE ~Distressed(p, y)
    BY <2>1, <2>2, <2>5
  <2> QED
    BY <2>4, <2>5
<1>11. b["hist_vol"] = 0
  <2>1. b["hist_vol"] = HistoryPoints(past)
    BY DEF Breakdown, PointsOf, Parts
  <2> QED
    BY <2>1
<1>12. b["peer"] = 0
  <2>1. b["peer"] = PeerPoints(peers, y)
    BY DEF Breakdown, PointsOf, Parts
  <2> QED
    BY <2>1
<1>13. ASSUME NEW part \in Parts PROVE b[part] \in Int
  <2>1. \/ part = "yield" \/ part = "currency" \/ part = "duration" \/ part = "liquidity" \/ part = "metal"
        \/ part = "credit" \/ part = "inflation" \/ part = "coupon" \/ part = "volatility" \/ part = "hist_vol"
        \/ part = "peer"
    BY DEF Parts
  <2>2. /\ b["yield"] \in Int /\ b["currency"] \in Int /\ b["duration"] \in Int /\ b["liquidity"] \in Int
        /\ b["metal"] \in Int /\ b["credit"] \in Int /\ b["inflation"] \in Int /\ b["coupon"] \in Int
        /\ b["volatility"] \in Int /\ b["hist_vol"] \in Int /\ b["peer"] \in Int
    BY <1>2, <1>3, <1>4, <1>5, <1>6, <1>7, <1>8, <1>9, <1>10, <1>11, <1>12
  <2> QED
    BY <2>1, <2>2
<1>14. b \in [Parts -> Int]
  <2>1. \A part \in Parts : PointsOf(part, p, y, past, peers) \in Int
    BY <1>13 DEF Breakdown
  <2> QED
    BY <2>1 DEF Breakdown
<1>15. ASSUME NEW part \in Parts \ {"credit", "volatility"} PROVE b[part] >= -500
  <2>1. \/ part = "yield" \/ part = "currency" \/ part = "duration" \/ part = "liquidity" \/ part = "metal"
        \/ part = "inflation" \/ part = "coupon" \/ part = "hist_vol" \/ part = "peer"
    BY DEF Parts
  <2>2. /\ b["yield"] >= -500 /\ b["currency"] >= -500 /\ b["duration"] >= -500 /\ b["liquidity"] >= -500
        /\ b["metal"] >= -500 /\ b["inflation"] >= -500 /\ b["coupon"] >= -500
        /\ b["hist_vol"] >= -500 /\ b["peer"] >= -500
    BY <1>2, <1>3, <1>4, <1>5, <1>6, <1>8, <1>9, <1>11, <1>12
  <2> QED
    BY <2>1, <2>2
<1>16. /\ b["currency"] =< 1800 /\ b["duration"] =< 800 /\ b["liquidity"] =< 1600 /\ b["metal"] =< 500
       /\ b["credit"] =< 1200 /\ b["inflation"] =< 600 /\ b["coupon"] =< 700 /\ b["volatility"] =< 0
       /\ b["hist_vol"] = 0 /\ b["peer"] = 0
  BY <1>3, <1>4, <1>5, <1>6, <1>7, <1>8, <1>9, <1>10, <1>11, <1>12
<1> QED
  BY <1>2, <1>10, <1>14, <1>15, <1>16 DEF PartsBounded, CappedForDistress

-----------------------------------------------------------------------------
(* A recomputation settles.                                                *)

\* What a recomputation puts into the row.
NewYield(p, y) == Sanitized(Solved(p, y))

LEMMA RowKept ==
  ASSUME NEW p \in Papers, NEW y \in Int, y = p.source \/ y \in KeptYields(p)
  PROVE  NewYield(p, y) \in KeptYields(p)
<1>1. p.own \in Int
  BY QuoteType
<1>2. y = Absent \/ y \in {p.own, p.source}
  BY DEF KeptYields
<1>5. /\ Absent \in KeptYields(p)
      /\ 0 < p.own /\ p.own =< 1000 => p.own \in KeptYields(p)
      /\ 0 < y /\ y =< 1000 => y \in KeptYields(p)
  BY <1>1, <1>2 DEF KeptYields, Absent
<1>3. CASE NoCouponMetal(p)
  BY <1>3 DEF NewYield, Sanitized, Solved, KeptYields, Absent
<1>4. CASE ~NoCouponMetal(p)
  <2>1. CASE y = Absent
    <3>1. NewYield(p, y) = Sanitized(IF p.own > 0 THEN p.own ELSE Absent)
      BY <1>4, <2>1 DEF NewYield, Solved
    <3>2. NewYield(p, y) = Absent \/ (NewYield(p, y) = p.own /\ 0 < p.own /\ p.own =< 1000)
      BY <1>1, <3>1 DEF Sanitized, Absent
    <3> QED
      BY <1>5, <3>2
  <2>2. CASE y # Absent
    <3>1. NewYield(p, y) = Sanitized(Validated(p, y))
      BY <1>4, <2>2 DEF NewYield, Solved
    <3>2. \/ NewYield(p, y) = Absent
          \/ NewYield(p, y) = p.own /\ 0 < p.own /\ p.own =< 1000
          \/ NewYield(p, y) = y /\ 0 < y /\ y =< 1000
      BY <1>1, <3>1 DEF Sanitized, Validated, Absent
    <3> QED
      BY <1>5, <3>2
  <2> QED
    BY <2>1, <2>2
<1> QED
  BY <1>3, <1>4

\* What is put there: what the price implies, where a yield was solved or
\* stored above 0; else a plausible yield that was stored.
LEMMA NewYieldIs ==
  ASSUME NEW p, p.own \in Int, NEW z \in Int, ~NoCouponMetal(p)
  PROVE  NewYield(p, z) = IF p.own > 0 THEN IF (z = Absent \/ z > 0) /\ p.own <= 1000 THEN p.own ELSE Absent
                          ELSE IF z \in 1 .. 99 THEN z ELSE Absent
<1>1. CASE z = Absent
  BY <1>1 DEF NewYield, Sanitized, Solved, Absent
<1>2. CASE z # Absent
  BY <1>2 DEF NewYield, Sanitized, Solved, Validated, Absent
<1> QED
  BY <1>1, <1>2

\* Recomputed twice, the yield of a row stays, whatever it was.
LEMMA RowSettles ==
  ASSUME NEW p \in Papers, NEW y \in Int
  PROVE  NewYield(p, NewYield(p, NewYield(p, y))) = NewYield(p, NewYield(p, y))
<1>1. p.own \in Int
  BY QuoteType
<1>2. CASE NoCouponMetal(p)
  BY <1>2 DEF NewYield, Solved
<1>3. ASSUME NEW z \in Int, ~NoCouponMetal(p)
      PROVE  NewYield(p, z) = IF p.own > 0 THEN IF (z = Absent \/ z > 0) /\ p.own <= 1000 THEN p.own ELSE Absent
                         ELSE IF z \in 1 .. 99 THEN z ELSE Absent
  BY <1>1, <1>3, NewYieldIs
<1>4. CASE ~NoCouponMetal(p)
  <2> DEFINE z == NewYield(p, y)
  <2>1. Absent \in Int /\ Absent < 0
    BY DEF Absent
  <2>2. CASE p.own > 0
    <3>1. z \in {p.own, Absent} /\ (z = p.own => p.own <= 1000)
      BY <1>1, <1>3, <1>4, <2>1, <2>2
    <3>2. NewYield(p, z) = IF p.own <= 1000 THEN p.own ELSE Absent
      BY <1>1, <1>3, <1>4, <2>1, <2>2, <3>1
    <3>3. NewYield(p, NewYield(p, z)) = IF p.own <= 1000 THEN p.own ELSE Absent
      BY <1>1, <1>3, <1>4, <2>1, <2>2, <3>2
    <3> QED
      BY <3>2, <3>3
  <2>3. CASE ~(p.own > 0)
    <3>1. z = Absent \/ z \in 1 .. 99
      BY <1>1, <1>3, <1>4, <2>1, <2>3
    <3>2. NewYield(p, z) = z
      BY <1>1, <1>3, <1>4, <2>1, <2>3, <3>1
    <3> QED
      BY <3>2
  <2> QED
    BY <2>2, <2>3
<1> QED
  BY <1>2, <1>4

\* The score of a row.
RowScore(p, y) == ScoreBond(p, y, << >>, << >>)

\* What the runs know of the row they recompute: its yield is one that is
\* kept, its score is that yield's, and after two runs the yield stays.
RatingInv ==
  /\ rating \in [paper : Papers, ytm : Int, score : {rating.score}, runs : 0 .. 3, before : {rating.before}]
  /\ rating.runs = 0 => rating.ytm = rating.paper.source
  /\ rating.runs > 0 => /\ rating.ytm \in KeptYields(rating.paper)
                        /\ rating.score = RowScore(rating.paper, rating.ytm)
  /\ rating.runs = 1 => \E y \in Int : rating.ytm = NewYield(rating.paper, y)
  /\ rating.runs = 2 => NewYield(rating.paper, rating.ytm) = rating.ytm
  /\ rating.runs = 3 => rating.before = [ytm |-> rating.ytm, score |-> rating.score]

LEMMA RatingInit == ScoringInit => RatingInv
<1> SUFFICES ASSUME ScoringInit PROVE RatingInv
  OBVIOUS
<1>1. PICK p \in Papers : rating = [paper |-> p, ytm |-> p.source, score |-> Unscored, runs |-> 0,
                                    before |-> [ytm |-> p.source, score |-> Unscored]]
  BY DEF ScoringInit
<1>2. p.source \in Int
  BY QuoteType
<1> QED
  BY <1>1, <1>2 DEF RatingInv

LEMMA RatingStep == RatingInv /\ [ScoringNext]_rating => RatingInv'
<1> SUFFICES ASSUME RatingInv, [ScoringNext]_rating PROVE RatingInv'
  OBVIOUS
<1> DEFINE p == rating.paper
           y == rating.ytm
<1>0. p \in Papers /\ y \in Int /\ rating.runs \in 0 .. 3 /\ (y = p.source \/ y \in KeptYields(p))
  BY DEF RatingInv
<1>1. CASE Recompute
  <2> DEFINE z == NewYield(p, y)
  <2>1. /\ rating.runs < 3
        /\ rating' = [rating EXCEPT !.ytm = z, !.score = RowScore(p, z), !.runs = @ + 1,
                                    !.before = [ytm |-> y, score |-> rating.score]]
    BY <1>1 DEF Recompute, RowScore, NewYield
  <2>2. z \in KeptYields(p)
    BY <1>0, RowKept
  <2>3. z \in Int
    BY <1>0, <2>2, KeptType
  <2>4. rating.runs = 1 => NewYield(p, z) = z
    BY <1>0, RowSettles DEF RatingInv
  <2>5. rating.runs = 2 => z = y /\ rating.score = RowScore(p, y)
    BY DEF RatingInv
  <2>6. rating = [paper |-> p, ytm |-> y, score |-> rating.score, runs |-> rating.runs, before |-> rating.before]
    BY DEF RatingInv
  <2>7. rating' = [paper |-> p, ytm |-> z, score |-> RowScore(p, z), runs |-> rating.runs + 1,
                   before |-> [ytm |-> y, score |-> rating.score]]
    BY <2>1, <2>6
  <2>8. z = NewYield(p, y)
    OBVIOUS
  <2> HIDE DEF p, y, z
  <2>9. /\ rating'.paper = p /\ rating'.ytm = z /\ rating'.score = RowScore(p, z)
        /\ rating'.runs = rating.runs + 1 /\ rating'.before = [ytm |-> y, score |-> rating.score]
    BY <2>7
  <2>10. rating' \in [paper : Papers, ytm : Int, score : {rating'.score}, runs : 0 .. 3, before : {rating'.before}]
    BY <1>0, <2>1, <2>3, <2>7, <2>9
  <2>11. rating'.runs = 1 => \E w \in Int : rating'.ytm = NewYield(rating'.paper, w)
    BY <1>0, <2>8, <2>9
  <2>12. rating'.runs = 2 => NewYield(rating'.paper, rating'.ytm) = rating'.ytm
    BY <1>0, <2>4, <2>9
  <2>13. rating'.runs = 3 => rating'.before = [ytm |-> rating'.ytm, score |-> rating'.score]
    BY <1>0, <2>5, <2>9
  <2> QED
    BY <1>0, <2>2, <2>9, <2>10, <2>11, <2>12, <2>13 DEF RatingInv
<1>2. CASE ScrapeAgain
  <2>1. rating' = [rating EXCEPT !.ytm = p.source, !.runs = 0]
    BY <1>2 DEF ScrapeAgain
  <2>2. rating = [paper |-> p, ytm |-> y, score |-> rating.score, runs |-> rating.runs, before |-> rating.before]
    BY DEF RatingInv
  <2>3. p.source \in Int
    BY <1>0, QuoteType
  <2>4. rating' = [paper |-> p, ytm |-> p.source, score |-> rating.score, runs |-> 0, before |-> rating.before]
    BY <2>1, <2>2
  <2> HIDE DEF p, y
  <2> QED
    BY <1>0, <2>3, <2>4 DEF RatingInv
<1>3. CASE UNCHANGED rating
  BY <1>3 DEF RatingInv
<1> QED
  BY <1>1, <1>2, <1>3 DEF ScoringNext

-----------------------------------------------------------------------------
(* A score explains itself, and distress tells.                            *)

\* The score of a row, by its parts.
LEMMA RowScoreIs ==
  ASSUME NEW p \in Papers, NEW y \in KeptYields(p)
  PROVE  \E b : /\ RowScore(p, y) = ScoreFrom(b) /\ PartsBounded(b)
                /\ Distressed(p, Derived(p, y)) => CappedForDistress(b)
<1> DEFINE d == Derived(p, y)
           past == << >>
           b == Breakdown(p, d, past, past)
<1>1. YieldKnown(d)
  <2>1. PaperType(p) /\ YieldKnown(y)
    BY ScoringAssumption, KeptType DEF ScoringAssumption
  <2> QED
    BY <2>1, DerivedKnown
<1>2. RowScore(p, y) = ScoreFrom(b)
  BY DEF RowScore, ScoreBond
<1>3. HistoryPoints(past) = 0 /\ PeerPoints(past, d) = 0
  BY NoPast
<1> HIDE DEF d, past
<1>4. PartsBounded(b) /\ (Distressed(p, d) => CappedForDistress(b))
  BY <1>1, <1>3, BreakdownIs
<1> QED
  BY <1>2, <1>4 DEF d

LEMMA RowExplained ==
  ASSUME NEW p \in Papers, NEW y \in KeptYields(p), NEW s, s = RowScore(p, y)
  PROVE  /\ s.score = s.reward - s.risk
         /\ s.score = Total([f \in Factors(s.breakdown) |-> s.breakdown[f]])
<1>0. PICK b : s = ScoreFrom(b) /\ PartsBounded(b)
  BY RowScoreIs
<1>1. s = ScoreFrom(b) /\ b \in [Parts -> Int] /\ b["volatility"] =< 0
  BY <1>0 DEF PartsBounded
<1>2. s.score = Total(b) /\ s.reward = Reward(b) /\ s.risk = Risk(b) /\ s.breakdown = b
  BY <1>1 DEF ScoreFrom
<1>3. Total(b) = Reward(b) - Risk(b)
  BY <1>1, ScoreIsNet
<1>4. Total([f \in Factors(b) |-> b[f]]) = Total(b)
  BY <1>1, FactorsAddUp
<1> QED
  BY <1>2, <1>3, <1>4

\* The lower tiers start below 7500.
LEMMA TierLow == ASSUME NEW n \in Int, n < 7500 PROVE Tier(n) \notin {"S", "A"}
<1> DEFINE ladder == <<<<8500, "S">>, <<7500, "A">>, <<6000, "B">>, <<4500, "C">>>>
<1>1. DOMAIN ladder = 1 .. 4 /\ DOMAIN ladder \in SUBSET Nat
  OBVIOUS
<1>2. \A i \in DOMAIN ladder : n >= ladder[i][1] => ladder[i][2] \notin {"S", "A"}
  OBVIOUS
<1>3. Tier(n) = Rung(n, ladder, "D")
  BY DEF Tier
<1> HIDE DEF ladder
<1>4. Rung(n, ladder, "D") = "D" \/ \E i \in DOMAIN ladder : n >= ladder[i][1] /\ Rung(n, ladder, "D") = ladder[i][2]
  BY <1>1, RungReached
<1> QED
  BY <1>2, <1>3, <1>4

LEMMA DistressShows ==
  ASSUME NEW p \in Papers, NEW y \in KeptYields(p), Distressed(p, Derived(p, y)),
         NEW s, s = RowScore(p, y)
  PROVE  s.tier \notin {"S", "A"} /\ "volatility" \in Weaknesses(s.breakdown)
<1>0. PICK b : s = ScoreFrom(b) /\ PartsBounded(b) /\ CappedForDistress(b)
  BY RowScoreIs
<1>1. /\ s = ScoreFrom(b)
      /\ b \in [Parts -> Int]
      /\ \A part \in Parts \ {"credit", "volatility"} : b[part] >= -500
      /\ b["yield"] =< 2000 /\ b["volatility"] =< -2100
  BY <1>0 DEF PartsBounded, CappedForDistress
<1>2. s.tier = Tier(Total(b)) /\ s.breakdown = b
  BY <1>1 DEF ScoreFrom
<1>3. /\ b["yield"] \in Int /\ b["currency"] \in Int /\ b["duration"] \in Int /\ b["liquidity"] \in Int
      /\ b["metal"] \in Int /\ b["credit"] \in Int /\ b["inflation"] \in Int /\ b["coupon"] \in Int
      /\ b["volatility"] \in Int /\ b["hist_vol"] \in Int /\ b["peer"] \in Int
  BY <1>1 DEF Parts
<1>4. Total(b) \in Int /\ Total(b) < 7500
  <2>1. DOMAIN b = Parts /\ \A part \in Parts : b[part] \in Int
    BY <1>1
  <2>2. Total(b) = b["yield"] + b["currency"] + b["duration"] + b["liquidity"] + b["metal"] + b["credit"]
                   + b["inflation"] + b["coupon"] + b["volatility"] + b["hist_vol"] + b["peer"]
    BY <2>1, SumOfParts
  <2>3. /\ b["yield"] =< 2000 /\ b["volatility"] =< -2100
        /\ b["currency"] =< 1800 /\ b["duration"] =< 800 /\ b["liquidity"] =< 1600 /\ b["metal"] =< 500
        /\ b["credit"] =< 1200 /\ b["inflation"] =< 600 /\ b["coupon"] =< 700
        /\ b["hist_vol"] = 0 /\ b["peer"] = 0
    BY <1>0, <1>1 DEF PartsBounded
  <2> QED
    BY <1>3, <2>2, <2>3
<1>5. s.tier \notin {"S", "A"}
  BY <1>2, <1>4, TierLow
<1> DEFINE negative == {f \in Factors(b) : b[f] < 0}
           heavier == {g \in negative : Weight(b, g) > Weight(b, "volatility")}
<1>6. "volatility" \in negative
  BY <1>1, <1>3 DEF Factors, Parts
<1>7. Weight(b, "volatility") \in Int /\ Weight(b, "volatility") >= 2100
  BY <1>1, <1>3 DEF Weight, Larger
<1>8. heavier \subseteq {"credit"}
  <2> SUFFICES ASSUME NEW g \in negative, Weight(b, g) > Weight(b, "volatility"), g # "credit" PROVE FALSE
    OBVIOUS
  <2>1. g \in Parts /\ b[g] < 0
    BY DEF Factors
  <2>2. g # "volatility"
    BY <1>7
  <2>4. b[g] \in Int /\ b[g] >= -500
    BY <1>1, <2>1, <2>2
  <2>5. Weight(b, g) \in Int /\ Weight(b, g) =< 500
    BY <2>1, <2>4 DEF Weight, Larger
  <2> QED
    BY <1>7, <2>5
<1>9. Cardinality(heavier) \in Nat /\ Cardinality(heavier) =< 1
  <2>1. IsFiniteSet({"credit"}) /\ Cardinality({"credit"}) = 1
    BY FS_Singleton
  <2> HIDE DEF heavier
  <2>2. IsFiniteSet(heavier) /\ Cardinality(heavier) =< Cardinality({"credit"})
    BY <1>8, <2>1, FS_Subset
  <2> QED
    BY <2>1, <2>2, FS_CardinalityType
<1>10. "volatility" \in Weaknesses(b)
  <2>1. Weaknesses(b) = {f \in negative : Cardinality({g \in negative : Weight(b, g) > Weight(b, f)}) < 3}
    BY DEF Weaknesses
  <2>2. Cardinality({g \in negative : Weight(b, g) > Weight(b, "volatility")}) < 3
    BY <1>9
  <2> HIDE DEF negative
  <2> QED
    BY <1>6, <2>1, <2>2
<1> QED
  BY <1>2, <1>5, <1>10

\* A distressed bond is not listed.
LEMMA DistressUnlisted ==
  ASSUME NEW p \in Papers, NEW y \in KeptYields(p), Distressed(p, Derived(p, y))
  PROVE  ~Listed(p, y)
<1>1. p.price \in Int /\ p.price # Absent /\ p.price < 70 /\ Derived(p, y) > 40
  BY QuoteType DEF Distressed
<1>2. y \in Int /\ (y = Absent \/ 0 < y)
  BY KeptType DEF Absent
<1>3. CASE y = Absent
  BY <1>1, <1>3 DEF Listed
<1>4. CASE y > 0
  <2>1. Derived(p, y) = Absent \/ Derived(p, y) = y
    BY <1>4 DEF Derived
  <2>2. y > 40
    BY <1>1, <2>1 DEF Absent
  <2> QED
    BY <1>1, <1>2, <2>2 DEF Listed
<1> QED
  BY <1>2, <1>3, <1>4

\* What is listed, and of ordinary terms, is not refused by the gate.
LEMMA ListedPasses ==
  ASSUME NEW p \in Papers, NEW y \in KeptYields(p), Listed(p, y), p.life =< 1200,
         p.coupon = Absent \/ p.coupon >= 0,
         NEW feed, feed.named = TRUE, feed.isin = "fits", feed.age = 1, feed.nominal = 1000
  PROVE  ScoreSafe(p, y, feed) # << >>
<1>1. /\ y \in Int /\ (y = Absent \/ (0 < y /\ y =< 100))
      /\ p.status \notin {"defaulted", "bankrupt", "suspended", "delisted", "matured"}
  BY KeptType DEF Listed, ExcludedStatuses, Absent
<1>2. p.life \in Int /\ p.coupon \in Int
  BY QuoteType
<1> DEFINE S == Severities(p, y, feed)
<1>3. 0 \in S /\ S \subseteq {0, 1}
  <2> DEFINE
    odd == IF feed.isin = "odd" \/ feed.age > 48 THEN {1} ELSE {}
    yields == IF y = Absent THEN {1} ELSE IF y < -10 \/ y > 100 THEN {2} ELSE {}
    lives == IF p.life # Absent /\ p.life < -12 THEN {1} ELSE IF p.life > 1200 THEN {2} ELSE {}
    priced == IF p.price # Absent /\ feed.nominal > 0 /\ p.price * 100 \notin feed.nominal .. (500 * feed.nominal)
              THEN {1} ELSE {}
    coupons == IF p.coupon # Absent /\ p.coupon < 0 THEN {2} ELSE IF p.coupon > 100 THEN {1} ELSE {}
    stands == IF p.status \in {"defaulted", "bankrupt", "suspended"} THEN {2}
              ELSE IF p.status \in {"delisted", "matured"} THEN {1} ELSE {}
    nominals == IF feed.nominal # Absent /\ feed.nominal <= 0 THEN {2} ELSE {}
  <2>1. odd \subseteq {1} /\ priced \subseteq {1}
    OBVIOUS
  <2>2. yields \subseteq {1}
    BY <1>1
  <2>3. lives \subseteq {1}
    BY <1>2
  <2>4. coupons \subseteq {1}
    BY <1>2
  <2>5. stands \subseteq {1}
    BY <1>1
  <2>6. nominals \subseteq {1}
    OBVIOUS
  <2>7. S = {0} \cup odd \cup yields \cup lives \cup priced \cup coupons \cup stands \cup nominals
    BY DEF Severities
  <2> HIDE DEF S, odd, yields, lives, priced, coupons, stands, nominals
  <2> QED
    BY <2>1, <2>2, <2>3, <2>4, <2>5, <2>6, <2>7
<1> HIDE DEF S
<1>4. Max(S) \in S
  <2>1. \E x \in S : \A z \in S : x >= z
    <3>1. CASE 1 \in S
      BY <1>3, <3>1
    <3>2. CASE 1 \notin S
      BY <1>3, <3>2
    <3> QED
      BY <3>1, <3>2
  <2> QED
    BY <2>1 DEF Max
<1>5. Max(S) # Unrated
  BY <1>3, <1>4 DEF Unrated
<1>6. ScoreSafe(p, y, feed) = Discounted(ScoreBond(p, y, << >>, << >>).score, Max(S))
  BY DEF ScoreSafe, S
<1> QED
  BY <1>5, <1>6 DEF Discounted

-----------------------------------------------------------------------------
(* What the card tells of issuers, and what reports and peers do.          *)

\* The card calls an issuer very safe only where its credit is that of the
\* state or of its parts.
LEMMA SafeIsCredited ==
  ASSUME NEW p \in Papers, Safety(p, CreditPoints(p)) >= 82, p.status # "matured"
  PROVE  CreditPoints(p) >= 800
<1>1. p.status \notin {"defaulted", "delisted"}
  BY DEF Safety
<1>2. CreditPoints(p) = IF Profile(p.issuer) # 0 THEN ProfileCredit[Profile(p.issuer)]
                        ELSE TierPoints(Classified(p.issuer))
  BY <1>1 DEF CreditPoints
<1>3. CASE Profile(p.issuer) # 0
  <2> DEFINE credit == ProfileCredit[Profile(p.issuer)]
  <2>1. Safety(p, CreditPoints(p)) = Ladder(credit)
    BY <1>1, <1>3 DEF Safety
  <2>2. credit \in Int
    BY <1>3, ProfileType, ProfileCreditType
  <2> HIDE DEF credit
  <2>3. ~(credit > -500 /\ credit < 0)
    BY <2>1, <2>2 DEF Ladder
  <2> DEFINE rungs == <<<<1000, 90>>, <<800, 82>>, <<600, 75>>, <<400, 68>>, <<200, 62>>, <<100, 58>>, <<0, 56>>>>
  <2>4. Ladder(credit) = Rung(credit, rungs, 36)
    BY <2>3 DEF Ladder
  <2>5. DOMAIN rungs \in SUBSET Nat /\ \A i \in DOMAIN rungs : credit >= rungs[i][1] /\ rungs[i][2] >= 82 => credit >= 800
    BY <2>2
  <2> HIDE DEF rungs
  <2>6. Rung(credit, rungs, 36) = 36 \/ \E i \in DOMAIN rungs : credit >= rungs[i][1] /\ Rung(credit, rungs, 36) = rungs[i][2]
    BY <2>5, RungReached
  <2>7. credit >= 800
    BY <2>1, <2>4, <2>5, <2>6
  <2> QED
    BY <1>2, <1>3, <2>7 DEF credit
<1>4. CASE Profile(p.issuer) = 0
  <2> DEFINE tier == Classified(p.issuer)
             credit == CreditPoints(p)
             Steps == <<<<"sovereign", 1000, 90>>, <<"sub_sovereign", 800, 82>>, <<"state_corp", 600, 75>>,
                        <<"bank_systemic", 400, 68>>, <<"bank", 200, 62>>, <<"corp", 0, 56>>>>
             fitting == {i \in DOMAIN Steps : Steps[i][1] = tier \/ credit >= Steps[i][2]}
  <2>1. credit = TierPoints(tier) /\ credit \in Int
    BY <1>2, <1>4, CreditType
  <2>2. Safety(p, credit) = IF fitting = {} THEN 36 ELSE Steps[Min(fitting)][3]
    BY <1>1, <1>4 DEF Safety
  <2>3. fitting # {}
    BY <2>2
  <2> DEFINE i == Min(fitting)
  <2>4. i \in fitting
    <3>1. fitting \in SUBSET Nat
      OBVIOUS
    <3> HIDE DEF fitting
    <3> QED
      BY <2>3, <3>1, MinOf
  <2>5. Steps[i][3] >= 82 /\ i \in DOMAIN Steps /\ (Steps[i][1] = tier \/ credit >= Steps[i][2])
    BY <2>2, <2>3, <2>4
  <2>6. \A j \in DOMAIN Steps :
          Steps[j][3] >= 82 => \/ (Steps[j][1] = "sovereign" /\ Steps[j][2] = 1000)
                               \/ (Steps[j][1] = "sub_sovereign" /\ Steps[j][2] = 800)
    OBVIOUS
  <2> DEFINE name == Steps[i][1]
             least == Steps[i][2]
  <2>7. (name = "sovereign" /\ least = 1000) \/ (name = "sub_sovereign" /\ least = 800)
    <3> HIDE DEF i, tier, credit, Steps, fitting
    <3> QED
      BY <2>5, <2>6
  <2>8. name = tier \/ credit >= least
    BY <2>5
  <2> HIDE DEF i, tier, credit, Steps, fitting, name, least
  <2>9. credit >= 800
    <3>1. CASE name = tier
      <4>1. TierPoints(tier) >= 800
        BY <2>7, <3>1 DEF TierPoints
      <4> QED
        BY <2>1, <4>1
    <3>2. CASE credit >= least
      BY <2>1, <2>7, <3>2
    <3> QED
      BY <2>8, <3>1, <3>2
  <2> QED
    BY <2>9 DEF credit
<1> QED
  BY <1>3, <1>4

\* A report gives at most four points, for or against.
LEMMA ReportPointsType ==
  ASSUME NEW r \in Reports
  PROVE  ReportPoints(r) \in Int /\ -400 =< ReportPoints(r) /\ ReportPoints(r) =< 400
<1> DEFINE
  debt == IF ~Given(r, {"debt", "assets"}) \/ r.assets = 0 THEN 0
          ELSE IF 5 * r.debt < r.assets THEN 200 ELSE IF 2 * r.debt < r.assets THEN 50
          ELSE IF 10 * r.debt > 8 * r.assets THEN -200 ELSE -50
  equity == IF ~Given(r, {"equity", "assets"}) \/ r.assets = 0 THEN 0
            ELSE IF 2 * r.equity > r.assets THEN 100 ELSE IF 5 * r.equity < r.assets THEN -150 ELSE 0
  liquid == IF ~Given(r, {"current", "due"}) \/ r.current = 0 \/ r.due = 0 THEN 0
            ELSE IF r.current < r.due THEN -150 ELSE IF 2 * r.current > 3 * r.due THEN 100 ELSE 0
  profit == IF ~Given(r, {"income", "revenue"}) \/ r.revenue = 0 THEN 0
            ELSE IF r.income < 0 THEN -150
            ELSE IF 10 * r.income > r.revenue THEN 150 ELSE IF 100 * r.income > 3 * r.revenue THEN 50 ELSE 0
<1>1. debt \in Int /\ equity \in Int /\ liquid \in Int /\ profit \in Int
  OBVIOUS
<1>2. ReportPoints(r) = Larger(-400, Smaller(400, debt + equity + liquid + profit))
  BY DEF ReportPoints
<1> HIDE DEF debt, equity, liquid, profit
<1> QED
  BY <1>1, <1>2 DEF Larger, Smaller

\* A report moves the credit no further than its own points.
LEMMA ReportMovesHalfWay ==
  ASSUME NEW p \in Papers, NEW r \in Reports,
         NEW base, base = IF Profile(p.issuer) = 0 THEN 0 ELSE ProfileCredit[Profile(p.issuer)]
  PROVE  CreditFor(p.issuer, r) \in (Smaller(base, ReportPoints(r)) .. Larger(base, ReportPoints(r)))
<1>1. base \in Int /\ -500 =< base /\ base =< 1200
  BY ProfileType, ProfileCreditType
<1> DEFINE told == ReportPoints(r)
<1>2. told \in Int /\ -400 =< told /\ told =< 400
  BY ReportPointsType
<1>3. CreditFor(p.issuer, r) = Larger(-600, Smaller(1200, (base + told) \div 2))
  BY DEF CreditFor
<1> HIDE DEF told
<1>4. (base + told) \div 2 \in Int /\ 2 * ((base + told) \div 2) =< base + told
      /\ base + told =< 2 * ((base + told) \div 2) + 1
  BY <1>1, <1>2
<1>5. CreditFor(p.issuer, r) = (base + told) \div 2
  BY <1>1, <1>2, <1>3, <1>4 DEF Larger, Smaller
<1>6. (base + told) \div 2 \in (Smaller(base, told) .. Larger(base, told))
  BY <1>1, <1>2, <1>4 DEF Larger, Smaller
<1> QED
  BY <1>5, <1>6 DEF told

\* A product of ordered numbers is ordered.
LEMMA ProductOrdered ==
  ASSUME NEW a \in Int, NEW b \in Int, NEW m \in Int, 0 =< a, a =< b, 0 =< m
  PROVE  a * m =< b * m
<1>1. (b - a) * m >= 0
  OBVIOUS
<1>2. (b - a) * m = b * m - a * m
  OBVIOUS
<1> QED
  BY <1>1, <1>2

\* The farther from the average, the larger the square.
LEMMA SquareOrdered ==
  ASSUME NEW a \in Int, NEW b \in Int, NEW m \in Int, 0 =< a, a =< b, 0 =< m
  PROVE  a * a * m =< b * b * m
<1>1. a * a =< b * a /\ a * b =< b * b
  BY ProductOrdered
<1>2. a * b = b * a
  OBVIOUS
<1>3. a * a =< b * b /\ a * a \in Int /\ b * b \in Int /\ 0 =< a * a
  BY <1>1, <1>2
<1> DEFINE aa == a * a
           bb == b * b
<1>4. aa \in Int /\ bb \in Int /\ 0 =< aa /\ aa =< bb
  BY <1>3
<1> HIDE DEF aa, bb
<1>5. aa * m =< bb * m
  BY <1>4, ProductOrdered
<1> QED
  BY <1>5 DEF aa, bb

\* The points of a distance from the average of the peers, by its square.
PointsAt(above, square, one, two) ==
  IF above >= 0 THEN IF square >= two THEN 500 ELSE IF square >= one THEN 300 ELSE 100
  ELSE IF square > two THEN -500 ELSE IF square > one THEN -300 ELSE -100

\* A ladder of two rungs.
LEMMA TwoRungs ==
  ASSUME NEW v \in Int, NEW one \in Int, NEW two \in Int, NEW a, NEW b, NEW c
  PROVE  Rung(v, <<<<two, a>>, <<one, b>>>>, c) = IF v >= two THEN a ELSE IF v >= one THEN b ELSE c
<1> DEFINE ladder == <<<<two, a>>, <<one, b>>>>
           reached == {i \in DOMAIN ladder : v >= ladder[i][1]}
<1>1. Rung(v, ladder, c) = IF reached = {} THEN c ELSE ladder[Min(reached)][2]
  BY DEF Rung
<1>2. DOMAIN ladder = 1 .. 2 /\ ladder[1] = <<two, a>> /\ ladder[2] = <<one, b>>
  OBVIOUS
<1>3. (1 \in reached <=> v >= two) /\ (2 \in reached <=> v >= one) /\ reached \subseteq 1 .. 2
  BY <1>2
<1>4. reached # {} => Min(reached) \in reached /\ \A i \in reached : Min(reached) =< i
  <2>1. reached \in SUBSET Nat
    BY <1>3
  <2> HIDE DEF reached
  <2> QED
    BY <2>1, MinOf
<1> DEFINE least == Min(reached)
<1>8. reached # {} => least \in reached /\ \A i \in reached : least =< i
  BY <1>4
<1>9. Rung(v, ladder, c) = IF reached = {} THEN c ELSE ladder[least][2]
  BY <1>1
<1> HIDE DEF reached, ladder, least
<1>5. CASE v >= two
  <2>1. reached # {} /\ least = 1
    <3>1. 1 \in reached
      BY <1>3, <1>5
    <3>2. reached # {}
      BY <3>1
    <3>3. least \in 1 .. 2 /\ least =< 1
      BY <1>3, <1>8, <3>1, <3>2
    <3> QED
      BY <3>2, <3>3
  <2> QED
    BY <1>9, <1>2, <1>5, <2>1 DEF ladder
<1>6. CASE ~(v >= two) /\ v >= one
  <2>1. reached # {} /\ least = 2
    <3>1. 2 \in reached /\ 1 \notin reached
      BY <1>3, <1>6
    <3>2. reached # {}
      BY <3>1
    <3>3. least \in reached /\ least \in 1 .. 2
      BY <1>3, <1>8, <3>2
    <3> QED
      BY <3>1, <3>2, <3>3
  <2> QED
    BY <1>9, <1>2, <1>6, <2>1 DEF ladder
<1>7. CASE ~(v >= two) /\ ~(v >= one)
  <2>1. reached = {}
    BY <1>3, <1>7
  <2> QED
    BY <1>9, <1>7, <2>1 DEF ladder
<1> QED
  BY <1>5, <1>6, <1>7 DEF ladder

\* The points never fall as the distance grows upwards.
LEMMA PointsRise ==
  ASSUME NEW a \in Int, NEW b \in Int, a =< b, NEW m \in Int, 0 =< m,
         NEW one \in Int, NEW two \in Int, one =< two
  PROVE  PointsAt(a, a * a * m, one, two) =< PointsAt(b, b * b * m, one, two)
<1> DEFINE from == a * a * m
           to == b * b * m
<1>1. from \in Int /\ to \in Int
  OBVIOUS
<1>2. 0 =< a => from =< to
  BY SquareOrdered
<1>3. b < 0 => to =< from
  <2>1. ASSUME b < 0 PROVE (-b) * (-b) * m =< (-a) * (-a) * m
    BY <2>1, SquareOrdered
  <2>2. (-b) * (-b) = b * b /\ (-a) * (-a) = a * a
    OBVIOUS
  <2> QED
    BY <2>1, <2>2
<1> HIDE DEF from, to
<1>4. PointsAt(a, from, one, two) =< PointsAt(b, to, one, two)
  BY <1>1, <1>2, <1>3 DEF PointsAt
<1> QED
  BY <1>4 DEF from, to

\* The positive yields of a past are finitely many integers.
LEMMA PositiveType ==
  ASSUME NEW past \in PastYields, NEW s, s = Positive(past)
  PROVE  Number(s) \in Nat /\ Total(s) \in Int /\ Spread(s) \in Int
<1> DEFINE D == DOMAIN s
           squares == [i \in D |-> s[i] * s[i]]
<1>1. past \in Seq(Int)
  BY ScoringAssumption
<1>2. IsFiniteSet(DOMAIN past)
  BY <1>1, FS_Interval
<1>3. D \subseteq DOMAIN past /\ \A i \in D : s[i] \in Int
  BY <1>1 DEF Positive
<1>4. IsFiniteSet(D) /\ Number(s) \in Nat
  BY <1>2, <1>3, FS_Subset, FS_CardinalityType DEF Number
<1>5. Total(s) \in Int
  <2>1. Sums(s)[DOMAIN s] \in Int
    BY <1>3, <1>4, SumsAddUp DEF AddsUp
  <2> QED
    BY <2>1, TotalIsSum
<1>6. Total(squares) \in Int
  <2>1. DOMAIN squares = D /\ \A i \in D : squares[i] \in Int
    BY <1>3
  <2> HIDE DEF squares
  <2>2. Sums(squares)[DOMAIN squares] \in Int
    BY <1>4, <2>1, SumsAddUp DEF AddsUp
  <2> QED
    BY <2>2, TotalIsSum
<1>7. Spread(s) = Number(s) * Total(squares) - Total(s) * Total(s)
  BY DEF Spread
<1> HIDE DEF squares
<1> QED
  BY <1>4, <1>5, <1>6, <1>7

\* Among the same peers a better yield never gets fewer points.
LEMMA PeersRise ==
  ASSUME NEW peers \in PastYields, NEW y \in Int, y > 0
  PROVE  PeerPoints(peers, y) =< PeerPoints(peers, y + 1)
<1> DEFINE s == Positive(peers)
           n == Number(s)
           spread == Spread(s)
           total == Total(s)
           away == n < 5 \/ 100 * spread < n * (n - 1)
           above(z) == n * z - total
           one == 1 * 1 * n * spread
           two == 2 * 2 * n * spread
<1>1. n \in Nat /\ spread \in Int /\ total \in Int
  BY PositiveType
<1>2. ASSUME NEW z \in Int, z > 0
      PROVE  PeerPoints(peers, z) = IF away THEN 0 ELSE PointsAt(above(z), above(z) * above(z) * (n - 1), one, two)
  <2>1. PeerPoints(peers, z) =
          IF z <= 0 \/ n < 5 \/ 100 * spread < n * (n - 1) THEN 0
          ELSE IF above(z) >= 0 THEN Rung(above(z) * above(z) * (n - 1), <<<<two, 500>>, <<one, 300>>>>, 100)
          ELSE IF above(z) * above(z) * (n - 1) > two THEN -500
          ELSE IF above(z) * above(z) * (n - 1) > one THEN -300 ELSE -100
    BY DEF PeerPoints
  <2> DEFINE square == above(z) * above(z) * (n - 1)
             high == above(z) >= 0
  <2>2. Rung(square, <<<<two, 500>>, <<one, 300>>>>, 100) = IF square >= two THEN 500 ELSE IF square >= one THEN 300 ELSE 100
    <3>1. above(z) \in Int /\ n - 1 \in Int
      BY <1>1, <1>2
    <3>2. square \in Int /\ one \in Int /\ two \in Int
      BY <1>1, <3>1
    <3> HIDE DEF square, one, two
    <3> QED
      BY <3>2, TwoRungs
  <2>3. ~(z <= 0)
    BY <1>2
  <2> QED
    BY <2>1, <2>2, <2>3 DEF PointsAt
<1>3. CASE away
  BY <1>2, <1>3
<1>4. CASE ~away
  <2> DEFINE a == above(y)
             b == above(y + 1)
  <2>1. a \in Int /\ b \in Int /\ a =< b /\ n - 1 \in Int /\ 0 =< n - 1
    <3>1. n * (y + 1) = n * y + n
      BY <1>1
    <3> QED
      BY <1>1, <1>4, <3>1
  <2>2. one \in Int /\ two \in Int /\ one =< two
    <3>1. n * (n - 1) >= 0
      BY <1>1, <1>4
    <3>2. n * (n - 1) \in Int
      BY <1>1
    <3>3. spread >= 0
      BY <1>1, <1>4, <3>1, <3>2
    <3>4. n * spread >= 0 /\ n * spread \in Int
      BY <1>1, <3>3
    <3>5. one = n * spread /\ two = 4 * (n * spread)
      BY <1>1
    <3> QED
      BY <3>4, <3>5
  <2>3. PeerPoints(peers, y) = PointsAt(a, a * a * (n - 1), one, two)
    BY <1>2, <1>4
  <2>4. PeerPoints(peers, y + 1) = PointsAt(b, b * b * (n - 1), one, two)
    BY <1>2, <1>4
  <2> HIDE DEF a, b, one, two, n
  <2> QED
    BY <2>1, <2>2, <2>3, <2>4, PointsRise
<1> QED
  BY <1>3, <1>4

-----------------------------------------------------------------------------
(* The theorem.                                                            *)

\* What the runs know is enough for every part of ScoresHold.
LEMMA RatingTells == RatingInv => ScoresHold
<1> SUFFICES ASSUME RatingInv PROVE ScoresHold
  OBVIOUS
<1> DEFINE p == rating.paper
           y == rating.ytm
           s == rating.score
<1>1. p \in Papers /\ rating.runs \in 0 .. 3
  BY DEF RatingInv
<1>2. rating.runs > 0 => y \in KeptYields(p) /\ s = RowScore(p, y)
  BY DEF RatingInv
<1> HIDE DEF p, y, s
<1>3. Settles
  <2>1. rating.runs = 3 => rating.before = [ytm |-> y, score |-> s]
    BY DEF RatingInv, y, s
  <2>2. rating.runs > 0 => y = Absent \/ (0 < y /\ y =< 1000)
    BY <1>1, <1>2, KeptType
  <2> QED
    BY <2>1, <2>2 DEF Settles, y, s
<1>4. ScoreExplained
  <2>1. ASSUME rating.runs > 0
        PROVE  s.score = s.reward - s.risk /\ s.score = Total([f \in Factors(s.breakdown) |-> s.breakdown[f]])
    BY <1>1, <1>2, <2>1, RowExplained
  <2> QED
    BY <2>1, Zenon DEF ScoreExplained, s
<1>5. DistressKeptOut
  <2>1. ASSUME rating.runs > 0, Distressed(p, Derived(p, y))
        PROVE  s.tier \notin {"S", "A"} /\ "volatility" \in Weaknesses(s.breakdown) /\ ~Listed(p, y)
    BY <1>1, <1>2, <2>1, DistressShows, DistressUnlisted
  <2>2. ASSUME rating.runs > 0, Listed(p, y), p.life <= 1200, p.coupon = Absent \/ p.coupon >= 0
        PROVE  ScoreSafe(p, y, [named |-> TRUE, isin |-> "fits", age |-> 1, nominal |-> 1000]) # << >>
    <3> DEFINE feed == [named |-> TRUE, isin |-> "fits", age |-> 1, nominal |-> 1000]
    <3>1. feed.named = TRUE /\ feed.isin = "fits" /\ feed.age = 1 /\ feed.nominal = 1000
      OBVIOUS
    <3> HIDE DEF feed
    <3>2. ScoreSafe(p, y, feed) # << >>
      BY <1>1, <1>2, <2>2, <3>1, ListedPasses, Zenon
    <3> QED
      BY <3>2, Zenon DEF feed
  <2> QED
    BY <2>1, <2>2, Zenon DEF DistressKeptOut, p, y, s
<1>6. SafetyCredited
  <2>1. Safety(p, CreditPoints(p)) >= 82 /\ p.status # "matured" => CreditPoints(p) >= 800
    BY <1>1, SafeIsCredited
  <2>2. ASSUME NEW r \in Reports,
               NEW base, base = IF Profile(p.issuer) = 0 THEN 0 ELSE ProfileCredit[Profile(p.issuer)]
        PROVE  CreditFor(p.issuer, r) \in (Smaller(base, ReportPoints(r)) .. Larger(base, ReportPoints(r)))
    BY <1>1, <2>2, ReportMovesHalfWay
  <2>3. ASSUME NEW peers \in PastYields, NEW z \in 1 .. 8
        PROVE  PeerPoints(peers, z) <= PeerPoints(peers, z + 1)
    <3>1. z \in Int /\ z > 0
      BY <2>3
    <3> QED
      BY <3>1, PeersRise
  <2> QED
    BY <2>1, <2>2, <2>3, Zenon DEF SafetyCredited, p
<1> QED
  BY <1>3, <1>4, <1>5, <1>6 DEF ScoresHold

\* For any bonds, curves, pasts and reports: the scores settle, explain
\* themselves, keep the distressed out, and call safe only what is credited
\* for it (recompute_all, score_bond, top_scores, explain_score).
THEOREM ScoresAlwaysHold == ScoringSpec => []ScoresHold
<1>1. ScoringInit => RatingInv
  BY RatingInit
<1>2. RatingInv /\ [ScoringNext]_rating => RatingInv'
  BY RatingStep
<1>3. RatingInv => ScoresHold
  BY RatingTells
<1> QED
  BY <1>1, <1>2, <1>3, PTL DEF ScoringSpec

-----------------------------------------------------------------------------
(* The bonds of MOEX: what the client tells and what a row keeps of it.    *)

\* What the client may tell.
Parsed == {ParsedBond(i, s, q) : i \in DOMAIN Boards, s \in Securities, q \in Quoted}

\* The price implies the yield, to the tolerance, where it implies any.
Implies(price, yield) ==
  Implied[price] \in Int /\ (Implied[price] \in {0, NotTold} \/ yield = NotTold \/ Close(yield, Implied[price]))

LEMMA FrequencyType == ASSUME NEW period \in Int PROVE FrequencyOf(period) \in Int
BY DEF FrequencyOf

LEMMA CouponRateType == ASSUME NEW q \in Quoted PROVE CouponRate(q) \in Int
<1>1. q.percent \in Int /\ q.amount \in Int /\ q.period \in Int
  BY MarketAssumption DEF ToldType
<1>2. ASSUME ~(q.period <= 0) PROVE (q.amount * 365) \div (10 * q.period) \in Int
  <2>1. 10 * q.period \in Int /\ 10 * q.period > 0 /\ q.amount * 365 \in Int
    BY <1>1, <1>2
  <2> QED
    BY <2>1
<1>3. CASE q.percent # NotTold /\ q.percent > 0
  BY <1>1, <1>3 DEF CouponRate
<1>4. CASE ~(q.percent # NotTold /\ q.percent > 0) /\ (q.amount = NotTold \/ q.period = NotTold \/ q.period <= 0)
  BY <1>4 DEF CouponRate, NotTold
<1>5. CASE ~(q.percent # NotTold /\ q.percent > 0) /\ ~(q.amount = NotTold \/ q.period = NotTold \/ q.period <= 0)
  BY <1>2, <1>5 DEF CouponRate
<1> QED
  BY <1>3, <1>4, <1>5

\* With its terms told, the yield of a quote is the one its price implies.
LEMMA YieldOfType ==
  ASSUME NEW q \in Quoted
  PROVE  /\ YieldOf(q) \in Int
         /\ q.price = NotTold => YieldOf(q) = NotTold
         /\ q.price # NotTold /\ Terms(q) => Implies(q.price, YieldOf(q))
<1>1. q.price \in Int /\ q.yield \in Int
  BY MarketAssumption DEF ToldType
<1>2. q.price # NotTold => Implied[q.price] \in Int
  BY MarketAssumption DEF ToldType
<1> DEFINE computed == IF Terms(q) THEN Implied[q.price] ELSE NotTold
<1>3. YieldOf(q) = IF q.price = NotTold THEN NotTold
                   ELSE IF q.yield \in 1 .. 99 /\ (computed = NotTold \/ Close(q.yield, computed)) THEN q.yield
                   ELSE IF computed # NotTold /\ computed > -99 THEN computed
                   ELSE NotTold
  BY DEF YieldOf
<1>4. q.price # NotTold => computed \in Int
  BY <1>2 DEF NotTold
<1>5. Terms(q) => computed = Implied[q.price]
  OBVIOUS
<1> HIDE DEF computed
<1>6. NotTold \in Int
  BY DEF NotTold
<1>7. YieldOf(q) \in Int
  BY <1>1, <1>3, <1>4, <1>6
<1>8. ASSUME q.price # NotTold, Terms(q) PROVE Implies(q.price, YieldOf(q))
  <2>1. Close(computed, computed)
    BY <1>4, <1>8, MarketAssumption DEF Close
  <2>2. YieldOf(q) = NotTold \/ Close(YieldOf(q), computed) \/ computed = NotTold
    BY <1>3, <1>8, <2>1
  <2> QED
    BY <1>2, <1>5, <1>8, <2>2 DEF Implies
<1> QED
  BY <1>3, <1>7, <1>8

\* The currencies of bonds.
Names == {NormCurrency(FaceUnit[s]) : s \in Securities}

\* What may be relied on of what is told.
LEMMA ParsedType ==
  ASSUME NEW b \in Parsed
  PROVE  /\ b.id \in Securities /\ b.price \in Int /\ b.yield \in Int /\ b.coupon \in Int /\ b.frequency \in Int
         /\ b.currency \in Names
         /\ b.price = NotTold => b.yield = NotTold
         /\ b.price # NotTold => Implied[b.price] \in Int /\ (Implied[b.price] = NotTold \/ Implied[b.price] > -99)
         /\ b.price # NotTold /\ b.coupon > 0 /\ b.frequency # 0 => Implies(b.price, b.yield)
<1>1. PICK i \in DOMAIN Boards, s \in Securities, q \in Quoted : b = ParsedBond(i, s, q)
  BY DEF Parsed
<1>2. /\ b.id = s /\ b.price = q.price /\ b.yield = YieldOf(q) /\ b.coupon = CouponRate(q)
      /\ b.frequency = FrequencyOf(q.period) /\ b.currency = NormCurrency(FaceUnit[s])
  BY <1>1 DEF ParsedBond
<1>3. ToldType(q)
  BY MarketAssumption
<1>4. q.price \in Int /\ q.period \in Int
  BY <1>3 DEF ToldType
<1>5. q.price # NotTold => Implied[q.price] \in Int /\ (Implied[q.price] = NotTold \/ Implied[q.price] > -99)
  BY <1>3 DEF ToldType
<1>6. b.currency \in Names
  BY <1>2 DEF Names
<1>7. b.coupon > 0 /\ b.frequency # 0 => Terms(q)
  BY <1>2 DEF Terms
<1>8. b.frequency \in Int /\ b.coupon \in Int
  BY <1>2, <1>4, FrequencyType, CouponRateType
<1>9. b.yield \in Int /\ (b.price = NotTold => b.yield = NotTold)
      /\ (b.price # NotTold /\ Terms(q) => Implies(b.price, b.yield))
  BY <1>2, YieldOfType
<1> QED
  BY <1>2, <1>4, <1>5, <1>6, <1>7, <1>8, <1>9

\* What is fetched was told.
LEMMA FetchedIsParsed ==
  ASSUME quoted \in [Securities -> Quoted], NEW currency, NEW failed, NEW batch \in FetchedBonds(currency, failed)
  PROVE  batch \in SUBSET Parsed
<1>1. PICK S \in SUBSET Offered(currency, failed) : batch = {ParsedBond(o[1], o[2], quoted[o[2]]) : o \in S}
  BY DEF FetchedBonds
<1>2. ASSUME NEW o \in S PROVE o[1] \in DOMAIN Boards /\ o[2] \in Securities
  BY DEF Offered
<1>3. ASSUME NEW o \in S PROVE ParsedBond(o[1], o[2], quoted[o[2]]) \in Parsed
  <2>1. quoted[o[2]] \in Quoted
    BY <1>2
  <2> QED
    BY <1>2, <2>1 DEF Parsed
<1> QED
  BY <1>1, <1>3

\* The rows of the bonds.
StoredPrices == {NotTold} \cup {price \in Int : Implied[price] \in Int}
KeptRows == [kept : {TRUE}, currency : Names, price : StoredPrices, yield : Int, coupon : Int, frequency : Int,
             history : SUBSET STRING, scored : BOOLEAN]
StoredRows == {Unstored} \cup KeptRows

\* The yield of a row whose price was told with its terms, and of a scored one.
Backed(row) ==
  row.kept => \/ row.price = NotTold /\ row.yield = NotTold
              \/ row.price # NotTold /\ row.coupon # NotTold /\ Implies(row.price, row.yield)
Earning(row) == row.kept /\ row.scored => row.yield = NotTold \/ row.yield > 0

\* A row that is written is honest where it was or where the terms are told.
LEMMA MergedType ==
  ASSUME NEW b \in Parsed, NEW row \in StoredRows, NEW new, new = Merged(b, row)
  PROVE  /\ new \in KeptRows /\ new.kept /\ ~new.scored
         /\ Backed(row) /\ b.price = NotTold => Backed(new)
         /\ b.price # NotTold /\ b.coupon > 0 /\ b.frequency # 0 => Backed(new)
<1> DEFINE old == IF row.kept THEN row
                  ELSE [price |-> NotTold, yield |-> NotTold, coupon |-> NotTold, frequency |-> 0, history |-> {}]
<1>1. /\ old.price \in StoredPrices /\ old.yield \in Int /\ old.coupon \in Int /\ old.frequency \in Int
      /\ old.history \in SUBSET STRING
  <2>1. CASE row.kept
    <3>1. row \in KeptRows
      BY <2>1 DEF StoredRows, Unstored
    <3> QED
      BY <2>1, <3>1 DEF KeptRows
  <2>2. CASE ~row.kept
    BY <2>2 DEF NotTold, StoredPrices
  <2> QED
    BY <2>1, <2>2
<1>2. Backed(row) => \/ old.price = NotTold /\ old.yield = NotTold
                     \/ old.price # NotTold /\ old.coupon # NotTold /\ Implies(old.price, old.yield)
  BY DEF Backed
<1>3. new = [kept |-> TRUE, currency |-> b.currency,
             price |-> IF b.price = NotTold THEN old.price ELSE b.price,
             yield |-> StoredYield(b, old.yield),
             coupon |-> IF b.coupon = NotTold THEN old.coupon ELSE b.coupon,
             frequency |-> IF b.frequency \in {NotTold, 0} THEN old.frequency ELSE b.frequency,
             history |-> old.history, scored |-> FALSE]
  BY DEF Merged
<1> HIDE DEF old
<1> DEFINE told == IF b.yield <= 0 /\ Solvable(b) THEN Implied[b.price] ELSE b.yield
<1>4. StoredYield(b, old.yield) = IF told \in {NotTold, 0} THEN old.yield ELSE told
  BY DEF StoredYield
<1>5. told \in Int
  BY ParsedType DEF Solvable
<1>6. new \in KeptRows
  <2>1. new.price \in StoredPrices
    BY <1>1, <1>3, ParsedType DEF StoredPrices
  <2>2. new.yield \in Int /\ new.coupon \in Int /\ new.frequency \in Int
    BY <1>1, <1>3, <1>4, <1>5, ParsedType
  <2>3. new.currency \in Names /\ new.history \in SUBSET STRING
    BY <1>1, <1>3, ParsedType
  <2> QED
    BY <1>3, <2>1, <2>2, <2>3 DEF KeptRows
<1>7. new.kept = TRUE /\ new.scored = FALSE
  BY <1>3
<1>8. ASSUME Backed(row), b.price = NotTold PROVE Backed(new)
  <2>1. told = NotTold
    BY <1>8, ParsedType DEF Solvable
  <2>2. new.price = old.price /\ new.yield = old.yield
    BY <1>3, <1>4, <1>8, <2>1
  <2>3. new.coupon = NotTold => old.coupon = NotTold
    BY <1>3
  <2> QED
    BY <1>2, <1>8, <2>2, <2>3 DEF Backed
<1>9. ASSUME b.price # NotTold, b.coupon > 0, b.frequency # 0 PROVE Backed(new)
  <2>1. b.coupon # NotTold
    BY <1>9 DEF NotTold
  <2>2. new.price = b.price /\ new.coupon = b.coupon /\ new.yield = IF told \in {NotTold, 0} THEN old.yield ELSE told
    BY <1>3, <1>4, <1>9, <2>1
  <2>3. Implies(b.price, b.yield) /\ Implied[b.price] \in Int /\ (Implied[b.price] = NotTold \/ Implied[b.price] > -99)
    BY <1>9, ParsedType
  <2>4. CASE Implied[b.price] \in {0, NotTold}
    BY <1>9, <2>1, <2>2, <2>3, <2>4 DEF Backed, Implies
  <2>5. CASE Implied[b.price] \notin {0, NotTold}
    <3>1. Solvable(b)
      BY <1>9, <2>1, <2>3, <2>5 DEF Solvable
    <3>2. Close(Implied[b.price], Implied[b.price])
      BY <2>3, MarketAssumption DEF Close
    <3>3. told \notin {NotTold, 0} /\ Close(told, Implied[b.price])
      <4>1. CASE b.yield <= 0
        BY <2>5, <3>1, <3>2, <4>1
      <4>2. CASE ~(b.yield <= 0)
        <5>1. told = b.yield /\ b.yield # NotTold /\ b.yield # 0
          BY <4>2, ParsedType DEF NotTold
        <5> QED
          BY <2>3, <2>5, <5>1 DEF Implies
      <4> QED
        BY <4>1, <4>2
    <3>4. new.yield = told
      BY <2>2, <3>3
    <3> QED
      BY <1>9, <2>1, <2>2, <2>3, <3>3, <3>4 DEF Backed, Implies
  <2> QED
    BY <2>4, <2>5
<1> QED
  BY <1>6, <1>7, <1>8, <1>9

\* Scoring keeps a row honest and takes the losses out.
LEMMA RescoredType ==
  ASSUME NEW row \in StoredRows, NEW new, new = Rescored(row)
  PROVE  /\ new \in StoredRows /\ new.kept = row.kept
         /\ Earning(new)
         /\ Backed(row) => Backed(new)
<1>1. CASE ~row.kept
  BY <1>1 DEF Rescored, Earning
<1>2. CASE row.kept
  <2>1. row \in KeptRows
    BY <1>2 DEF StoredRows, Unstored
  <2>2. row.yield \in Int /\ row.kept = TRUE /\ (row.price = NotTold \/ Implied[row.price] \in Int)
    BY <2>1 DEF KeptRows, StoredPrices
  <2> DEFINE own == IF row.price = NotTold \/ row.coupon = NotTold THEN NotTold ELSE Implied[row.price]
             yield == IF row.yield = NotTold THEN own
                      ELSE IF row.yield <= 0 THEN NotTold
                      ELSE IF own > 0 THEN own ELSE IF row.yield < 100 THEN row.yield ELSE NotTold
             stored == IF yield > 0 THEN yield ELSE NotTold
  <2>3. new = [row EXCEPT !.yield = stored, !.scored = TRUE]
    BY <1>2 DEF Rescored
  <2>4. NotTold \in Int /\ NotTold < 0
    BY DEF NotTold
  <2>5. own \in Int
    BY <2>2, <2>4
  <2>6. yield \in Int
    BY <2>2, <2>4, <2>5
  <2>7. stored \in Int /\ (stored = NotTold \/ stored > 0)
    BY <2>4, <2>6
  <2>8. new \in KeptRows /\ new.kept /\ new.yield = stored /\ new.price = row.price /\ new.coupon = row.coupon
    BY <2>1, <2>3, <2>7 DEF KeptRows
  <2>9. ASSUME Backed(row) PROVE Backed(new)
    <3>1. CASE row.price = NotTold /\ row.yield = NotTold
      <4>1. stored = NotTold
        BY <3>1, <2>4
      <4> QED
        BY <2>8, <3>1, <4>1 DEF Backed
    <3>2. CASE row.price # NotTold /\ row.coupon # NotTold /\ Implies(row.price, row.yield)
      <4>1. own = Implied[row.price]
        BY <3>2
      <4>2. stored = NotTold \/ stored = own \/ stored = row.yield
        OBVIOUS
      <4>3. Close(own, own)
        BY <2>5, MarketAssumption DEF Close
      <4>4. Implies(row.price, stored)
        BY <3>2, <4>1, <4>2, <4>3 DEF Implies
      <4> QED
        BY <2>8, <3>2, <4>4 DEF Backed
    <3> QED
      BY <1>2, <2>9, <3>1, <3>2 DEF Backed
  <2> QED
    BY <1>2, <2>7, <2>8, <2>9 DEF Earning, StoredRows
<1> QED
  BY <1>1, <1>2

-----------------------------------------------------------------------------
(* The run of the bonds.                                                   *)

Steps == {"rest", "fetch", "put", "sample", "history", "raised"}

MarketTypeOK ==
  /\ quoted \in [Securities -> Quoted]
  /\ bondRow \in [Securities -> StoredRows]
  /\ belarusian \in SUBSET Securities
  /\ bondRun \in [step : Steps, left : {bondRun.left}, batch : SUBSET Parsed, pending : SUBSET Securities,
                  tx : {bondRun.tx}, told : {bondRun.told}, sample : SUBSET Securities, overtaken : BOOLEAN]
  /\ bondRun.step = "put" => bondRun.tx \in [Securities -> StoredRows]
  /\ bondRun.step = "history" => \A s \in bondRun.sample : bondRow[s] \in KeptRows

\* What is true of the rows of a table, beside the bonds whose terms are doubted.
TableSound(table, without) ==
  \A s \in Securities : Earning(table[s]) /\ (s \notin without => Backed(table[s]))

\* The rows that were scored and the transaction that will replace them are
\* sound; nothing of the other exchange is in either, but what waits for the
\* flush that refuses it.
MarketInv ==
  /\ MarketTypeOK
  /\ TableSound(bondRow, doubted)
  /\ \A s \in belarusian : ~bondRow[s].kept
  /\ bondRun.step = "put" =>
       /\ TableSound(bondRun.tx, bondRun.told)
       /\ \A s \in belarusian : bondRun.tx[s].kept => s \in bondRun.pending
       /\ Refused(bondRun.pending) => bondRun.overtaken
  /\ bondRun.step # "put" => bondRun.pending = {}
  /\ bondRun.step = "raised" => bondRun.overtaken

\* The run, by its fields.
LEMMA RunIs ==
  ASSUME MarketTypeOK
  PROVE  bondRun = [step |-> bondRun.step, left |-> bondRun.left, batch |-> bondRun.batch, pending |-> bondRun.pending,
                    tx |-> bondRun.tx, told |-> bondRun.told, sample |-> bondRun.sample,
                    overtaken |-> bondRun.overtaken]
BY DEF MarketTypeOK

LEMMA MarketStarts == MarketInit => MarketInv
<1> SUFFICES ASSUME MarketInit PROVE MarketInv
  OBVIOUS
<1>1. /\ quoted \in [Securities -> Quoted]
      /\ bondRow = [s \in Securities |-> Unstored] /\ belarusian = {} /\ bondRun = BondRunRests
  BY DEF MarketInit, MarketInitWith
<1>2. bondRun.step = "rest" /\ MarketTypeOK
  <2>1. bondRow \in [Securities -> StoredRows]
    BY <1>1 DEF StoredRows
  <2>2. bondRun.step = "rest"
    BY <1>1 DEF BondRunRests
  <2>3. bondRun \in [step : Steps, left : {bondRun.left}, batch : SUBSET Parsed, pending : SUBSET Securities,
                     tx : {bondRun.tx}, told : {bondRun.told}, sample : SUBSET Securities, overtaken : BOOLEAN]
    BY <1>1 DEF BondRunRests, Steps
  <2> QED
    BY <1>1, <2>1, <2>2, <2>3 DEF MarketTypeOK
<1>3. TableSound(bondRow, doubted)
  BY <1>1 DEF TableSound, Earning, Backed, Unstored
<1> QED
  BY <1>1, <1>2, <1>3 DEF MarketInv, Unstored, BondRunRests

LEMMA QuoteMovesKeeps == MarketInv /\ QuoteMoves => MarketInv'
BY DEF MarketInv, MarketTypeOK, TableSound, Earning, Backed, Implies, Refused, QuoteMoves

LEMMA BeginBondRunKeeps == MarketInv /\ BeginBondRun => MarketInv'
<1> SUFFICES ASSUME MarketInv, BeginBondRun PROVE MarketInv'
  OBVIOUS
<1> DEFINE all == IF "RUB" \in Range(RunCurrencies) THEN RunCurrencies ELSE <<"RUB">> \o RunCurrencies
           none == << >>
<1>1. /\ bondRun' = [step |-> "fetch", left |-> all, batch |-> {}, pending |-> {}, tx |-> none, told |-> {},
                     sample |-> {}, overtaken |-> FALSE]
      /\ UNCHANGED <<quoted, bondRow, belarusian, doubted>>
  BY DEF BeginBondRun, BondRunRests
<1> HIDE DEF all, none
<1>2. bondRun'.step = "fetch" /\ bondRun'.pending = {}
  BY <1>1
<1>3. MarketTypeOK'
  BY <1>1, <1>2 DEF MarketInv, MarketTypeOK, Steps
<1> QED
  BY <1>1, <1>2, <1>3 DEF MarketInv, TableSound

LEMMA FetchCurrencyKeeps == MarketInv /\ FetchCurrency => MarketInv'
<1> SUFFICES ASSUME MarketInv, FetchCurrency PROVE MarketInv'
  OBVIOUS
<1>0. bondRun.step = "fetch" /\ UNCHANGED <<quoted, bondRow, belarusian, doubted>> /\ MarketTypeOK
  BY DEF FetchCurrency, MarketInv
<1>1. PICK failed \in SUBSET Range(Boards) : \E batch \in FetchedBonds(Head(bondRun.left), failed) :
        bondRun' = IF batch = {} THEN [bondRun EXCEPT !.left = Tail(@)]
                   ELSE [bondRun EXCEPT !.batch = batch, !.tx = bondRow, !.told = doubted, !.step = "put"]
  BY DEF FetchCurrency
<1>2. PICK batch \in FetchedBonds(Head(bondRun.left), failed) :
        bondRun' = IF batch = {} THEN [bondRun EXCEPT !.left = Tail(@)]
                   ELSE [bondRun EXCEPT !.batch = batch, !.tx = bondRow, !.told = doubted, !.step = "put"]
  BY <1>1
<1>3. batch \in SUBSET Parsed
  BY <1>0, FetchedIsParsed DEF MarketTypeOK
<1>4. CASE batch = {}
  <2>1. /\ bondRun'.step = "fetch"
        /\ bondRun' = [step |-> "fetch", left |-> bondRun'.left, batch |-> bondRun.batch, pending |-> bondRun.pending,
                       tx |-> bondRun.tx, told |-> bondRun.told, sample |-> bondRun.sample,
                       overtaken |-> bondRun.overtaken]
    BY <1>0, <1>2, <1>4, RunIs
  <2>2. MarketTypeOK'
    BY <1>0, <2>1 DEF MarketTypeOK
  <2> QED
    BY <1>0, <2>1, <2>2 DEF MarketInv, TableSound
<1>5. CASE batch # {}
  <2>1. /\ bondRun'.step = "put" /\ bondRun'.tx = bondRow /\ bondRun'.told = doubted
        /\ bondRun'.pending = bondRun.pending /\ bondRun'.overtaken = bondRun.overtaken
        /\ bondRun' = [step |-> "put", left |-> bondRun'.left, batch |-> batch, pending |-> bondRun.pending,
                       tx |-> bondRow, told |-> doubted, sample |-> bondRun.sample, overtaken |-> bondRun.overtaken]
    BY <1>0, <1>2, <1>5, RunIs
  <2>2. MarketTypeOK'
    BY <1>0, <1>3, <2>1 DEF MarketTypeOK, Steps
  <2> QED
    BY <1>0, <2>1, <2>2 DEF MarketInv, TableSound, Refused
<1> QED
  BY <1>4, <1>5

LEMMA PutBondKeeps == MarketInv /\ PutBond => MarketInv'
<1> SUFFICES ASSUME MarketInv, PutBond PROVE MarketInv'
  OBVIOUS
<1>0. /\ bondRun.step = "put" /\ ~Refused(bondRun.pending)
      /\ UNCHANGED <<quoted, bondRow, belarusian, doubted>> /\ MarketTypeOK
  BY DEF PutBond, MarketInv
<1>1. PICK b \in bondRun.batch :
        LET rest == [bondRun EXCEPT !.batch = @ \ {b}, !.pending = {}]
        IN bondRun' = IF b.id \in belarusian THEN rest
                      ELSE [rest EXCEPT !.tx[b.id] = Merged(b, @),
                                        !.pending = IF bondRun.tx[b.id].kept THEN {} ELSE {b.id},
                                        !.told = IF b.price = NotTold THEN @
                                                 ELSE IF b.coupon > 0 /\ b.frequency # 0 THEN @ \ {b.id}
                                                 ELSE @ \cup {b.id}]
  BY DEF PutBond
<1>2. b \in Parsed /\ b.id \in Securities
  BY <1>0, ParsedType DEF MarketTypeOK
<1> DEFINE tx == bondRun.tx
           told == bondRun.told
<1>3. tx \in [Securities -> StoredRows] /\ TableSound(tx, told) /\ (\A s \in belarusian : ~tx[s].kept)
  BY <1>0 DEF MarketTypeOK, MarketInv, Refused
<1>4. CASE b.id \in belarusian
  <2>1. bondRun' = [step |-> "put", left |-> bondRun.left, batch |-> bondRun.batch \ {b}, pending |-> {},
                    tx |-> tx, told |-> told, sample |-> bondRun.sample, overtaken |-> bondRun.overtaken]
    BY <1>0, <1>1, <1>4, RunIs
  <2>2. bondRun'.step = "put" /\ bondRun'.tx = tx /\ bondRun'.told = told /\ bondRun'.pending = {}
    BY <2>1
  <2> HIDE DEF tx, told
  <2>3. MarketTypeOK'
    BY <1>0, <1>3, <2>1, <2>2 DEF MarketTypeOK, Steps
  <2> QED
    BY <1>0, <1>3, <2>2, <2>3 DEF MarketInv, TableSound, Refused
<1>5. CASE b.id \notin belarusian
  <2> DEFINE i == b.id
             new == Merged(b, tx[i])
             table == [tx EXCEPT ![i] = new]
             waits == IF tx[i].kept THEN {} ELSE {i}
             now == IF b.price = NotTold THEN told
                    ELSE IF b.coupon > 0 /\ b.frequency # 0 THEN told \ {i} ELSE told \cup {i}
  <2>1. bondRun' = [step |-> "put", left |-> bondRun.left, batch |-> bondRun.batch \ {b}, pending |-> waits,
                    tx |-> table, told |-> now, sample |-> bondRun.sample, overtaken |-> bondRun.overtaken]
    BY <1>0, <1>1, <1>5, RunIs
  <2>2. /\ bondRun'.step = "put" /\ bondRun'.tx = table /\ bondRun'.told = now /\ bondRun'.pending = waits
        /\ bondRun'.overtaken = bondRun.overtaken
    BY <2>1
  <2>3. tx[i] \in StoredRows /\ i \in Securities
    BY <1>2, <1>3
  <2>4. /\ new \in KeptRows /\ new.kept /\ ~new.scored
        /\ Backed(tx[i]) /\ b.price = NotTold => Backed(new)
        /\ b.price # NotTold /\ b.coupon > 0 /\ b.frequency # 0 => Backed(new)
    BY <1>2, <2>3, MergedType
  <2> HIDE DEF new, tx, told
  <2>5. table \in [Securities -> StoredRows] /\ table[i] = new /\ \A s \in Securities \ {i} : table[s] = tx[s]
    BY <1>3, <2>3, <2>4 DEF StoredRows
  <2>6. ASSUME NEW s \in Securities PROVE Earning(table[s]) /\ (s \notin now => Backed(table[s]))
    <3>1. CASE s = i
      <4>1. i \notin now => Backed(new)
        BY <1>3, <2>3, <2>4 DEF TableSound
      <4> QED
        BY <2>4, <2>5, <3>1, <4>1 DEF Earning
    <3>2. CASE s # i
      <4>1. s \notin now => s \notin told
        BY <3>2
      <4> QED
        BY <1>3, <2>5, <3>2, <4>1 DEF TableSound
    <3> QED
      BY <3>1, <3>2
  <2>7. TableSound(table, now)
    BY <2>6 DEF TableSound
  <2>8. \A s \in belarusian : ~table[s].kept
    BY <1>0, <1>3, <1>5, <2>5 DEF MarketTypeOK
  <2>9. waits \in SUBSET Securities /\ waits \cap belarusian = {}
    BY <1>5, <2>3
  <2> HIDE DEF table, waits, now, i
  <2>10. MarketTypeOK'
    BY <1>0, <2>1, <2>2, <2>5, <2>9 DEF MarketTypeOK, Steps
  <2> QED
    BY <1>0, <2>2, <2>7, <2>8, <2>9, <2>10 DEF MarketInv, TableSound, Refused
<1> QED
  BY <1>4, <1>5

LEMMA RunRaisesKeeps == MarketInv /\ RunRaises => MarketInv'
<1> SUFFICES ASSUME MarketInv, RunRaises PROVE MarketInv'
  OBVIOUS
<1>1. /\ bondRun' = [step |-> "raised", left |-> << >>, batch |-> {}, pending |-> {}, tx |-> << >>, told |-> {},
                     sample |-> {}, overtaken |-> bondRun.overtaken]
      /\ bondRun.overtaken
      /\ UNCHANGED <<quoted, bondRow, belarusian, doubted>>
  BY DEF RunRaises, BondRunRests, MarketInv
<1>2. bondRun'.step = "raised" /\ bondRun'.overtaken /\ bondRun'.pending = {}
  BY <1>1
<1>3. MarketTypeOK'
  BY <1>1, <1>2 DEF MarketInv, MarketTypeOK, Steps
<1> QED
  BY <1>1, <1>2, <1>3 DEF MarketInv, TableSound

LEMMA CommitBondsKeeps == MarketInv /\ CommitBonds => MarketInv'
<1> SUFFICES ASSUME MarketInv, CommitBonds PROVE MarketInv'
  OBVIOUS
<1>0. /\ bondRun.step = "put" /\ ~Refused(bondRun.pending) /\ MarketTypeOK
      /\ bondRow' = bondRun.tx /\ doubted' = bondRun.told /\ UNCHANGED <<quoted, belarusian>>
  BY DEF CommitBonds, MarketInv
<1>1. bondRun' = [step |-> "fetch", left |-> bondRun'.left, batch |-> bondRun.batch, pending |-> {}, tx |-> << >>,
                  told |-> {}, sample |-> bondRun.sample, overtaken |-> bondRun.overtaken]
  BY <1>0, RunIs DEF CommitBonds
<1>2. bondRun'.step = "fetch" /\ bondRun'.pending = {}
  BY <1>1
<1>3. MarketTypeOK'
  BY <1>0, <1>1, <1>2 DEF MarketTypeOK, Steps
<1> QED
  BY <1>0, <1>2, <1>3 DEF MarketInv, TableSound, Refused

LEMMA RescoreBondsKeeps == MarketInv /\ RescoreBonds => MarketInv'
<1> SUFFICES ASSUME MarketInv, RescoreBonds PROVE MarketInv'
  OBVIOUS
<1>0. /\ bondRun.step = "fetch" /\ MarketTypeOK /\ bondRun.pending = {}
      /\ bondRow' = [s \in Securities |-> Rescored(bondRow[s])] /\ UNCHANGED <<quoted, belarusian, doubted>>
  BY DEF RescoreBonds, MarketInv
<1>1. bondRun' = [step |-> "sample", left |-> bondRun.left, batch |-> bondRun.batch, pending |-> {}, tx |-> bondRun.tx,
                  told |-> bondRun.told, sample |-> bondRun.sample, overtaken |-> bondRun.overtaken]
  BY <1>0, RunIs DEF RescoreBonds
<1>2. bondRun'.step = "sample" /\ bondRun'.pending = {}
  BY <1>1
<1>3. ASSUME NEW s \in Securities
      PROVE  /\ bondRow'[s] \in StoredRows /\ bondRow'[s].kept = bondRow[s].kept /\ Earning(bondRow'[s])
             /\ Backed(bondRow[s]) => Backed(bondRow'[s])
  <2>1. bondRow[s] \in StoredRows /\ bondRow'[s] = Rescored(bondRow[s])
    BY <1>0 DEF MarketTypeOK
  <2> QED
    BY <2>1, RescoredType
<1>4. MarketTypeOK'
  BY <1>0, <1>1, <1>2, <1>3 DEF MarketTypeOK, Steps
<1>5. TableSound(bondRow, doubted)'
  BY <1>0, <1>3 DEF MarketInv, TableSound
<1>6. \A s \in belarusian : ~bondRow'[s].kept
  BY <1>0, <1>3 DEF MarketInv, MarketTypeOK
<1> QED
  BY <1>0, <1>2, <1>4, <1>5, <1>6 DEF MarketInv

LEMMA SampleBondsKeeps == MarketInv /\ SampleBonds => MarketInv'
<1> SUFFICES ASSUME MarketInv, SampleBonds PROVE MarketInv'
  OBVIOUS
<1> DEFINE Kept(c) == {s \in Securities : bondRow[s].kept /\ bondRow[s].currency = c}
           currencies == {bondRow[s].currency : s \in {k \in Securities : bondRow[k].kept}}
<1>0. bondRun.step = "sample" /\ MarketTypeOK /\ UNCHANGED <<quoted, bondRow, belarusian, doubted>>
  BY DEF SampleBonds, MarketInv
<1>1. PICK choice \in [currencies -> SUBSET Securities] :
        /\ \A c \in currencies : choice[c] \in SUBSET Kept(c)
        /\ bondRun' = [bondRun EXCEPT !.step = "history", !.sample = UNION Range(choice)]
  BY DEF SampleBonds
<1> DEFINE drawn == UNION Range(choice)
<1>2. \A s \in drawn : s \in Securities /\ bondRow[s].kept
  BY <1>1 DEF Range
<1>3. bondRun' = [step |-> "history", left |-> bondRun.left, batch |-> bondRun.batch, pending |-> bondRun.pending,
                  tx |-> bondRun.tx, told |-> bondRun.told, sample |-> drawn, overtaken |-> bondRun.overtaken]
  BY <1>0, <1>1, RunIs
<1> HIDE DEF drawn
<1>4. bondRun'.step = "history" /\ bondRun'.sample = drawn /\ bondRun'.pending = bondRun.pending
  BY <1>3
<1>5. \A s \in drawn : bondRow[s] \in KeptRows
  BY <1>0, <1>2 DEF MarketTypeOK, StoredRows, Unstored
<1>6. MarketTypeOK'
  BY <1>0, <1>2, <1>3, <1>4, <1>5 DEF MarketTypeOK, Steps
<1> QED
  BY <1>0, <1>4, <1>6 DEF MarketInv, TableSound

\* A board is a name, and the first of some boards is one.
LEMMA FirstBoard ==
  ASSUME NEW S \in SUBSET DOMAIN Boards, S # {}
  PROVE  Boards[Min(S)] \in STRING
<1>1. DOMAIN Boards \in SUBSET Nat /\ \A i \in DOMAIN Boards : Boards[i] \in STRING
  BY MarketAssumption
<1>2. Min(S) \in S
  BY <1>1, MinOf
<1> QED
  BY <1>1, <1>2

LEMMA GatherHistoryKeeps == MarketInv /\ GatherHistory => MarketInv'
<1> SUFFICES ASSUME MarketInv, GatherHistory PROVE MarketInv'
  OBVIOUS
<1> DEFINE s == CHOOSE t \in bondRun.sample : TRUE
<1>0. bondRun.step = "history" /\ bondRun.sample # {} /\ MarketTypeOK /\ UNCHANGED <<quoted, belarusian, doubted>>
  BY DEF GatherHistory, MarketInv
<1>1. PICK failed \in SUBSET Range(Boards) :
        LET answering == {i \in DOMAIN Boards : Boards[i] \in TradedOn[s] \ failed}
        IN /\ bondRow' = IF answering = {} THEN bondRow
                         ELSE [bondRow EXCEPT ![s].history = @ \cup {Boards[Min(answering)]}]
           /\ bondRun' = [bondRun EXCEPT !.sample = @ \ {s}]
  BY DEF GatherHistory
<1>2. s \in bondRun.sample /\ s \in Securities
  BY <1>0 DEF MarketTypeOK
<1> DEFINE answering == {i \in DOMAIN Boards : Boards[i] \in TradedOn[s] \ failed}
           board == Boards[Min(answering)]
<1>3. answering # {} => board \in STRING
  <2>1. answering \in SUBSET DOMAIN Boards
    OBVIOUS
  <2> HIDE DEF answering
  <2> QED
    BY <2>1, FirstBoard
<1>4. bondRow' = IF answering = {} THEN bondRow ELSE [bondRow EXCEPT ![s].history = @ \cup {board}]
  BY <1>1
<1>5. bondRun' = [step |-> "history", left |-> bondRun.left, batch |-> bondRun.batch, pending |-> bondRun.pending,
                  tx |-> bondRun.tx, told |-> bondRun.told, sample |-> bondRun.sample \ {s},
                  overtaken |-> bondRun.overtaken]
  BY <1>0, <1>1, RunIs
<1> HIDE DEF s, answering, board
<1>6. bondRun'.step = "history" /\ bondRun'.sample = bondRun.sample \ {s} /\ bondRun'.pending = bondRun.pending
  BY <1>5
<1>7. bondRow[s] \in KeptRows
  BY <1>0, <1>2 DEF MarketTypeOK
<1> DEFINE new == [bondRow[s] EXCEPT !.history = @ \cup {board}]
<1>8. CASE answering # {}
  <2>1. new \in KeptRows
    BY <1>3, <1>7, <1>8 DEF KeptRows
  <2>2. /\ new.kept = bondRow[s].kept /\ new.price = bondRow[s].price /\ new.yield = bondRow[s].yield
        /\ new.coupon = bondRow[s].coupon /\ new.scored = bondRow[s].scored
    BY <1>7 DEF KeptRows
  <2>3. bondRow' = [bondRow EXCEPT ![s] = new]
    BY <1>4, <1>8
  <2> HIDE DEF new
  <2>4. bondRow' \in [Securities -> StoredRows] /\ bondRow'[s] = new /\ \A t \in Securities \ {s} : bondRow'[t] = bondRow[t]
    BY <1>0, <1>2, <2>1, <2>3 DEF MarketTypeOK, StoredRows
  <2>5. MarketTypeOK'
    BY <1>0, <1>2, <1>5, <1>6, <2>1, <2>4 DEF MarketTypeOK, Steps
  <2>6. ASSUME NEW t \in Securities
        PROVE  /\ bondRow'[t].kept = bondRow[t].kept
               /\ Earning(bondRow[t]) => Earning(bondRow'[t])
               /\ Backed(bondRow[t]) => Backed(bondRow'[t])
    BY <1>2, <2>2, <2>4 DEF Earning, Backed
  <2>7. TableSound(bondRow, doubted)'
    BY <1>0, <2>6 DEF MarketInv, TableSound
  <2>8. \A t \in belarusian : ~bondRow'[t].kept
    BY <1>0, <2>6 DEF MarketInv, MarketTypeOK
  <2> QED
    BY <1>0, <1>6, <2>5, <2>7, <2>8 DEF MarketInv
<1>9. CASE answering = {}
  <2>1. bondRow' = bondRow
    BY <1>4, <1>9
  <2>2. MarketTypeOK'
    BY <1>0, <1>5, <1>6, <2>1 DEF MarketTypeOK
  <2> QED
    BY <1>0, <1>6, <2>1, <2>2 DEF MarketInv, TableSound
<1> QED
  BY <1>8, <1>9

LEMMA EndBondRunKeeps == MarketInv /\ EndBondRun => MarketInv'
<1> SUFFICES ASSUME MarketInv, EndBondRun PROVE MarketInv'
  OBVIOUS
<1>1. /\ bondRun' = [step |-> "rest", left |-> << >>, batch |-> {}, pending |-> {}, tx |-> << >>, told |-> {},
                     sample |-> {}, overtaken |-> FALSE]
      /\ UNCHANGED <<quoted, bondRow, belarusian, doubted>>
  BY DEF EndBondRun, BondRunRests
<1>2. bondRun'.step = "rest" /\ bondRun'.pending = {}
  BY <1>1
<1>3. MarketTypeOK'
  BY <1>1, <1>2 DEF MarketInv, MarketTypeOK, Steps
<1> QED
  BY <1>1, <1>2, <1>3 DEF MarketInv, TableSound

LEMMA BelarusianWritesKeeps == MarketInv /\ BelarusianWrites => MarketInv'
<1> SUFFICES ASSUME MarketInv, BelarusianWrites PROVE MarketInv'
  OBVIOUS
<1>0. MarketTypeOK /\ UNCHANGED <<quoted, bondRow, doubted>>
      /\ bondRun' = [bondRun EXCEPT !.overtaken = bondRun.step # "rest"]
  BY DEF BelarusianWrites, MarketInv
<1>1. PICK s \in Securities \ belarusian :
        /\ ~bondRow[s].kept
        /\ bondRun.step = "put" => ~(bondRun.tx[s].kept /\ s \notin bondRun.pending)
        /\ belarusian' = belarusian \cup {s}
  BY DEF BelarusianWrites
<1>2. bondRun' = [step |-> bondRun.step, left |-> bondRun.left, batch |-> bondRun.batch, pending |-> bondRun.pending,
                  tx |-> bondRun.tx, told |-> bondRun.told, sample |-> bondRun.sample,
                  overtaken |-> bondRun.step # "rest"]
  BY <1>0, RunIs
<1>3. /\ bondRun'.step = bondRun.step /\ bondRun'.pending = bondRun.pending /\ bondRun'.tx = bondRun.tx
      /\ bondRun'.told = bondRun.told /\ bondRun'.sample = bondRun.sample
      /\ (bondRun.step # "rest" => bondRun'.overtaken)
  BY <1>2
<1>4. MarketTypeOK'
  BY <1>0, <1>1, <1>2, <1>3 DEF MarketTypeOK
<1> QED
  BY <1>0, <1>1, <1>3, <1>4 DEF MarketInv, TableSound, Refused

LEMMA MarketStep == MarketInv /\ MarketNext => MarketInv'
BY QuoteMovesKeeps, BeginBondRunKeeps, FetchCurrencyKeeps, PutBondKeeps, RunRaisesKeeps, CommitBondsKeeps,
   RescoreBondsKeeps, SampleBondsKeeps, GatherHistoryKeeps, EndBondRunKeeps, BelarusianWritesKeeps DEF MarketNext

LEMMA MarketStays == MarketInv /\ UNCHANGED marketVars => MarketInv'
BY DEF MarketInv, MarketTypeOK, TableSound, Earning, Backed, Implies, Refused, marketVars

LEMMA MarketTells == MarketInv => YieldsOfQuotes /\ RaisesOnlyOvertaken
<1> SUFFICES ASSUME MarketInv PROVE YieldsOfQuotes /\ RaisesOnlyOvertaken
  OBVIOUS
<1>1. ASSUME NEW s \in Securities, NEW row, row = bondRow[s], row.kept, row.scored, s \notin doubted,
             row.yield # NotTold
      PROVE  /\ row.yield > 0 /\ row.price # NotTold
             /\ Implied[row.price] \in {0, NotTold} \/ Close(row.yield, Implied[row.price])
  <2>1. Earning(row) /\ Backed(row)
    BY <1>1 DEF MarketInv, TableSound
  <2> QED
    BY <1>1, <2>1 DEF Earning, Backed, Implies
<1>2. YieldsOfQuotes
  BY <1>1, Zenon DEF YieldsOfQuotes
<1> QED
  BY <1>2 DEF MarketInv, RaisesOnlyOvertaken

-----------------------------------------------------------------------------
(* The stocks.                                                             *)

\* A set of numbers that a number bounds has a greatest one.
LEMMA GreatestExists ==
  ASSUME NEW n \in Int, NEW S, S # {}, \A x \in S : x \in Int /\ x =< n
  PROVE  Max(S) \in S /\ \A y \in S : Max(S) >= y
<1> DEFINE T == {n - x : x \in S}
<1>1. T \in SUBSET Nat /\ T # {}
  OBVIOUS
<1> HIDE DEF T
<1>2. PICK t \in T : \A u \in T : t =< u
  BY <1>1, LeastExists
<1>3. PICK x \in S : t = n - x
  BY <1>2 DEF T
<1>4. ASSUME NEW y \in S PROVE x >= y
  <2>1. n - y \in T
    BY <1>4 DEF T
  <2>2. n - x =< n - y
    BY <1>2, <1>3, <2>1
  <2> QED
    BY <2>2
<1> QED
  BY <1>3, <1>4 DEF Max

\* The last of the boards that list a stock and answer.
LEMMA BoardToldIs ==
  ASSUME NEW s \in Shares, NEW failed
  PROVE  \/ BoardTold(s, failed) = "none" /\ ShareOn[s] \ failed = {}
         \/ BoardTold(s, failed) # "none" /\ BoardTold(s, failed) \in ShareOn[s] \ failed
<1> DEFINE listing == {i \in DOMAIN ShareBoards : ShareBoards[i] \in ShareOn[s] \ failed}
<1>1. BoardTold(s, failed) = IF listing = {} THEN "none" ELSE ShareBoards[Max(listing)]
  BY DEF BoardTold
<1>2. ShareOn[s] \subseteq Range(ShareBoards) /\ "none" \notin Range(ShareBoards)
  BY MarketAssumption
<1>3. CASE listing = {}
  BY <1>1, <1>2, <1>3 DEF Range
<1>4. CASE listing # {}
  <2>1. \A i \in listing : i \in Int /\ i =< Len(ShareBoards)
    BY MarketAssumption
  <2>2. Len(ShareBoards) \in Int
    BY MarketAssumption
  <2>3. Max(listing) \in listing
    <3> HIDE DEF listing
    <3> QED
      BY <1>4, <2>1, <2>2, GreatestExists
  <2>4. BoardTold(s, failed) \in ShareOn[s] \ failed
    BY <1>1, <1>4, <2>3
  <2> QED
    BY <1>2, <2>4
<1> QED
  BY <1>3, <1>4

\* A row was fetched when its board answered or before; a board that answered
\* and has a stock of its own has its row.
StockRows == [kept : {TRUE}, board : Range(ShareBoards), fetched : Nat]
StockInv ==
  /\ stockHour \in Nat
  /\ stockRow \in [Shares -> {Unstored} \cup StockRows]
  /\ answers \in [Range(ShareBoards) -> Nat \cup {NotTold}]
  /\ \A b \in Range(ShareBoards) : answers[b] # NotTold => answers[b] =< stockHour
  /\ \A s \in Shares : stockRow[s].kept => /\ answers[stockRow[s].board] # NotTold
                                           /\ stockRow[s].fetched =< answers[stockRow[s].board]
  /\ \A b \in Range(ShareBoards), s \in Shares :
       answers[b] # NotTold /\ ShareOn[s] = {b} => stockRow[s].kept /\ stockRow[s].board = b

\* A row that is kept has its board and its hour.
LEMMA StockKept ==
  ASSUME StockInv, NEW s \in Shares, stockRow[s].kept
  PROVE  /\ stockRow[s] \in StockRows /\ stockRow[s].board \in Range(ShareBoards) /\ stockRow[s].fetched \in Nat
         /\ answers[stockRow[s].board] \in Nat /\ answers[stockRow[s].board] # NotTold
         /\ stockRow[s].fetched =< answers[stockRow[s].board] /\ answers[stockRow[s].board] =< stockHour
<1>1. stockRow[s] \in {Unstored} \cup StockRows
  BY DEF StockInv
<1>2. stockRow[s] # Unstored
  BY DEF Unstored
<1>3. stockRow[s] \in StockRows
  BY <1>1, <1>2
<1>4. stockRow[s].board \in Range(ShareBoards) /\ stockRow[s].fetched \in Nat
  BY <1>3 DEF StockRows
<1>5. answers[stockRow[s].board] # NotTold /\ stockRow[s].fetched =< answers[stockRow[s].board]
  BY DEF StockInv
<1>6. answers[stockRow[s].board] \in Nat \cup {NotTold}
  BY <1>4 DEF StockInv
<1>7. answers[stockRow[s].board] =< stockHour
  BY <1>4, <1>5 DEF StockInv
<1> QED
  BY <1>3, <1>4, <1>5, <1>6, <1>7

LEMMA StocksStart == StocksInit => StockInv
BY DEF StocksInit, StockInv, Unstored

LEMMA StockHourPassesKeeps == StockInv /\ StockHourPasses => StockInv'
<1> SUFFICES ASSUME StockInv, StockHourPasses PROVE StockInv'
  OBVIOUS
<1>1. stockHour' = stockHour + 1 /\ stockRow' = stockRow /\ answers' = answers
  BY DEF StockHourPasses
<1>2. stockHour \in Nat /\ stockHour' \in Nat /\ stockHour =< stockHour'
  BY <1>1 DEF StockInv
<1>3. ASSUME NEW b \in Range(ShareBoards), answers[b] # NotTold PROVE answers[b] =< stockHour'
  <2>1. answers[b] \in Nat /\ answers[b] =< stockHour
    BY <1>3 DEF StockInv
  <2> QED
    BY <1>2, <2>1
<1> QED
  BY <1>1, <1>2, <1>3 DEF StockInv

LEMMA RunStocksKeeps == StockInv /\ RunStocks => StockInv'
<1> SUFFICES ASSUME StockInv, RunStocks PROVE StockInv'
  OBVIOUS
<1>0. stockHour' = stockHour /\ stockHour \in Nat
  BY DEF RunStocks, StockInv
<1>1. PICK failed \in SUBSET Range(ShareBoards) :
        \/ UNCHANGED <<stockRow, answers>>
        \/ /\ stockRow' = [s \in Shares |-> IF BoardTold(s, failed) = "none" THEN stockRow[s]
                                            ELSE [kept |-> TRUE, board |-> BoardTold(s, failed), fetched |-> stockHour]]
           /\ answers' = [b \in Range(ShareBoards) |-> IF b \in failed THEN answers[b] ELSE stockHour]
  BY DEF RunStocks
<1>2. CASE UNCHANGED <<stockRow, answers>>
  BY <1>0, <1>2 DEF StockInv
<1>3. CASE /\ stockRow' = [s \in Shares |-> IF BoardTold(s, failed) = "none" THEN stockRow[s]
                                            ELSE [kept |-> TRUE, board |-> BoardTold(s, failed), fetched |-> stockHour]]
           /\ answers' = [b \in Range(ShareBoards) |-> IF b \in failed THEN answers[b] ELSE stockHour]
  <2>1. ASSUME NEW b \in Range(ShareBoards)
        PROVE  /\ answers'[b] = IF b \in failed THEN answers[b] ELSE stockHour
               /\ answers'[b] \in Nat \cup {NotTold}
               /\ answers'[b] # NotTold => answers'[b] =< stockHour
               /\ answers[b] # NotTold => answers'[b] # NotTold /\ answers[b] =< answers'[b]
    BY <1>0, <1>3 DEF StockInv, NotTold
  <2>2. ASSUME NEW s \in Shares
        PROVE  \/ stockRow'[s] = stockRow[s] /\ ShareOn[s] \ failed = {}
               \/ /\ stockRow'[s] = [kept |-> TRUE, board |-> BoardTold(s, failed), fetched |-> stockHour]
                  /\ BoardTold(s, failed) \in ShareOn[s] \ failed
    BY <1>3, BoardToldIs
  <2>3. ASSUME NEW s \in Shares PROVE ShareOn[s] \subseteq Range(ShareBoards)
    BY MarketAssumption
  <2>4. ASSUME NEW s \in Shares
        PROVE  stockRow'[s] \in {Unstored} \cup StockRows
    <3>1. stockRow[s] \in {Unstored} \cup StockRows
      BY DEF StockInv
    <3>2. ASSUME NEW b \in Range(ShareBoards) PROVE [kept |-> TRUE, board |-> b, fetched |-> stockHour] \in StockRows
      BY <1>0 DEF StockRows
    <3> QED
      BY <2>2, <2>3, <3>1, <3>2
  <2>5. ASSUME NEW s \in Shares, stockRow'[s].kept
        PROVE  answers'[stockRow'[s].board] # NotTold /\ stockRow'[s].fetched =< answers'[stockRow'[s].board]
    <3>1. CASE stockRow'[s] = stockRow[s]
      <4>1. stockRow[s].kept
        BY <2>5, <3>1
      <4> DEFINE b == stockRow[s].board
      <4>2. /\ b \in Range(ShareBoards) /\ stockRow[s].fetched \in Nat /\ answers[b] \in Nat
            /\ answers[b] # NotTold /\ stockRow[s].fetched =< answers[b]
        BY <4>1, StockKept
      <4>3. answers'[b] # NotTold /\ answers[b] =< answers'[b] /\ answers'[b] \in Nat \cup {NotTold}
        BY <2>1, <4>2
      <4>4. stockRow[s].fetched =< answers'[b]
        BY <4>2, <4>3
      <4> QED
        BY <3>1, <4>3, <4>4
    <3>2. CASE /\ stockRow'[s] = [kept |-> TRUE, board |-> BoardTold(s, failed), fetched |-> stockHour]
               /\ BoardTold(s, failed) \in ShareOn[s] \ failed
      <4>1. stockRow'[s].board \in Range(ShareBoards) \ failed /\ stockRow'[s].fetched = stockHour
        BY <2>3, <3>2
      <4> QED
        BY <1>0, <2>1, <4>1 DEF NotTold
    <3> QED
      BY <2>2, <3>1, <3>2
  <2>6. ASSUME NEW b \in Range(ShareBoards), NEW s \in Shares, answers'[b] # NotTold, ShareOn[s] = {b}
        PROVE  stockRow'[s].kept /\ stockRow'[s].board = b
    <3>1. CASE b \in failed
      <4>1. stockRow'[s] = stockRow[s] /\ answers'[b] = answers[b]
        BY <2>1, <2>2, <2>6, <3>1
      <4> QED
        BY <2>6, <4>1 DEF StockInv
    <3>2. CASE b \notin failed
      <4>1. ShareOn[s] \ failed # {}
        BY <2>6, <3>2
      <4>2. /\ stockRow'[s] = [kept |-> TRUE, board |-> BoardTold(s, failed), fetched |-> stockHour]
            /\ BoardTold(s, failed) \in ShareOn[s] \ failed
        BY <2>2, <4>1
      <4>3. BoardTold(s, failed) = b
        BY <2>6, <4>2
      <4> QED
        BY <4>2, <4>3
    <3> QED
      BY <3>1, <3>2
  <2>7. stockRow' \in [Shares -> {Unstored} \cup StockRows]
    BY <1>3, <2>4
  <2>8. answers' \in [Range(ShareBoards) -> Nat \cup {NotTold}]
    BY <1>3, <2>1
  <2> QED
    BY <1>0, <2>1, <2>5, <2>6, <2>7, <2>8 DEF StockInv
<1> QED
  BY <1>1, <1>2, <1>3

LEMMA StockStep == StockInv /\ StocksNext => StockInv'
BY StockHourPassesKeeps, RunStocksKeeps DEF StocksNext

LEMMA StocksStay == StockInv /\ UNCHANGED stockVars => StockInv'
BY DEF StockInv, stockVars

LEMMA StocksTell == StockInv => FreshnessTold
<1> SUFFICES ASSUME StockInv, NEW b \in Range(ShareBoards)
             PROVE  /\ Freshness(b) = "ok" => answers[b] # NotTold /\ stockHour - answers[b] <= StaleHours
                    /\ answers[b] # NotTold /\ (\E s \in Shares : ShareOn[s] = {b}) => Freshness(b) # "absent"
  BY DEF FreshnessTold
<1> DEFINE rows == {s \in Shares : stockRow[s].kept /\ stockRow[s].board = b}
           times == {stockRow[s].fetched : s \in rows}
           age == stockHour - Max(times)
<1>1. Freshness(b) = IF rows = {} THEN "absent"
                     ELSE IF age <= StaleHours THEN "ok" ELSE IF age <= CriticalHours THEN "stale" ELSE "critical"
  BY DEF Freshness
<1>2. ASSUME NEW s \in rows
      PROVE  answers[b] # NotTold /\ answers[b] \in Nat /\ answers[b] =< stockHour
             /\ stockRow[s].fetched \in Nat /\ stockRow[s].fetched =< answers[b]
  <2>1. s \in Shares /\ stockRow[s].kept /\ stockRow[s].board = b
    OBVIOUS
  <2> QED
    BY <2>1, StockKept
<1>3. answers[b] # NotTold /\ (\E s \in Shares : ShareOn[s] = {b}) => rows # {}
  BY DEF StockInv
<1>4. ASSUME rows # {} PROVE age \in Int /\ answers[b] # NotTold /\ stockHour - answers[b] =< age
  <2>1. times # {} /\ (\A x \in times : x \in Int /\ x =< answers[b]) /\ answers[b] \in Nat /\ answers[b] # NotTold
    BY <1>2, <1>4
  <2> DEFINE latest == Max(times)
  <2>2. latest \in times
    <3> HIDE DEF times
    <3> QED
      BY <2>1, GreatestExists
  <2>3. latest \in Int /\ latest =< answers[b]
    BY <2>1, <2>2
  <2>4. stockHour \in Nat
    BY DEF StockInv
  <2> HIDE DEF latest, times, rows
  <2>5. stockHour - latest \in Int /\ stockHour - answers[b] =< stockHour - latest
    BY <2>1, <2>3, <2>4
  <2> QED
    BY <2>1, <2>5 DEF latest
<1>5. StaleHours \in Nat /\ stockHour \in Nat /\ answers[b] \in Nat \cup {NotTold}
  BY MarketAssumption DEF StockInv
<1> HIDE DEF rows, age
<1>6. Freshness(b) = "ok" => rows # {} /\ age <= StaleHours
  BY <1>1
<1>7. Freshness(b) = "absent" => rows = {}
  BY <1>1
<1>8. ASSUME Freshness(b) = "ok" PROVE answers[b] # NotTold /\ stockHour - answers[b] <= StaleHours
  BY <1>4, <1>5, <1>6, <1>8
<1> QED
  BY <1>3, <1>7, <1>8

\* For any bonds, boards, quotes and stocks: a scored yield is one that its
\* price implies, a run raises only where the other exchange took an ISIN, and
\* a board is shown as fresh only while it is (run_once_moex,
\* run_once_moex_stocks, stock_freshness).
THEOREM MarketsAlwaysHold == MarketsSpec => []MarketsHold
<1> DEFINE Inv == MarketInv /\ StockInv
<1>1. MarketInit /\ StocksInit => Inv
  BY MarketStarts, StocksStart
<1>2. Inv /\ [(MarketNext /\ UNCHANGED stockVars) \/ (StocksNext /\ UNCHANGED marketVars)]_<<marketVars, stockVars>>
        => Inv'
  <2>1. MarketInv /\ MarketNext => MarketInv'
    BY MarketStep
  <2>2. MarketInv /\ UNCHANGED marketVars => MarketInv'
    BY MarketStays
  <2>3. StockInv /\ StocksNext => StockInv'
    BY StockStep
  <2>4. StockInv /\ UNCHANGED stockVars => StockInv'
    BY StocksStay
  <2> QED
    BY <2>1, <2>2, <2>3, <2>4
<1>3. Inv => MarketsHold
  BY MarketTells, StocksTell DEF MarketsHold
<1> QED
  BY <1>1, <1>2, <1>3, PTL DEF MarketsSpec

-----------------------------------------------------------------------------
(* The market pages.                                                       *)

\* What a row of the scores is computed from, and where it came from.
ScoredAsIs(b) ==
  /\ \E z \in Int : (z <= 1000 => YieldKnown(z)) /\ demo.ytm[b] = NewYield(PaperNow(b), z)
  /\ demo.row[b] = ScoreRow(RowScore(PaperNow(b), demo.ytm[b]))

\* Every bond is one of its papers, its row has points for a yield, and a row
\* that was scored as the bond is has the yield and the score of it.
PagesInv ==
  /\ DOMAIN demo = {"shelf", "at", "ytm", "row", "scored"}
  /\ demo.shelf \in Shelves
  /\ demo.at \in [DOMAIN demo.shelf -> Nat] /\ demo.ytm \in [DOMAIN demo.shelf -> Int]
  /\ demo.row = [b \in DOMAIN demo.shelf |-> demo.row[b]] /\ demo.scored \subseteq DOMAIN demo.shelf
  /\ \A b \in DOMAIN demo.shelf :
       /\ demo.at[b] \in DOMAIN demo.shelf[b] /\ demo.row[b].points \in Nat
       /\ demo.ytm[b] <= 1000 => YieldKnown(demo.ytm[b])
  /\ \A b \in demo.scored : ScoredAsIs(b)

\* A paper of a shelf.
LEMMA ShelvedPaper ==
  ASSUME NEW shelf \in Shelves, NEW b \in DOMAIN shelf, NEW i \in DOMAIN shelf[b]
  PROVE  shelf[b][i] \in DemoPaperType /\ PaperType(shelf[b][i])
<1>1. shelf \in Seq(Seq(DemoPaperType) \ {<< >>}) /\ PaperType(shelf[b][i])
  BY DemoAssumption DEF DemoAssumption
<1>2. shelf[b] \in Seq(DemoPaperType)
  BY <1>1
<1> QED
  BY <1>1, <1>2

LEMMA ShelfHasPapers ==
  ASSUME NEW shelf \in Shelves, NEW b \in DOMAIN shelf
  PROVE  1 \in DOMAIN shelf[b] /\ \A i \in DOMAIN shelf[b] : i \in Nat /\ (i < Len(shelf[b]) => i + 1 \in DOMAIN shelf[b])
<1>1. shelf \in Seq(Seq(DemoPaperType) \ {<< >>})
  BY DemoAssumption DEF DemoAssumption
<1>2. shelf[b] \in Seq(DemoPaperType) /\ shelf[b] # << >>
  BY <1>1
<1> QED
  BY <1>2

\* The yield of the source counts up to 1000 per cent.
LEMMA SourceKnown ==
  ASSUME NEW p, PaperType(p)
  PROVE  /\ p.source \in Int /\ p.own \in Int /\ p.price \in Int /\ p.life \in Int /\ p.coupon \in Int
         /\ p.source <= 1000 => YieldKnown(p.source)
         /\ p.own <= 1000 => YieldKnown(p.own)
<1>1. /\ p.source \in Int /\ p.own \in Int /\ p.price \in Int /\ p.life \in Int /\ p.coupon \in Int
      /\ \A y \in {p.discount, p.own, p.source} : y > 40 /\ y <= 1000 => y - 39 \in DOMAIN Log
  BY DEF PaperType
<1> QED
  BY <1>1 DEF YieldKnown

LEMMA PagesStart == DemoInit => PagesInv
<1> SUFFICES ASSUME DemoInit PROVE PagesInv
  OBVIOUS
<1>1. PICK shelf \in Shelves :
        demo = [shelf |-> shelf, at |-> [b \in DOMAIN shelf |-> 1], ytm |-> [b \in DOMAIN shelf |-> shelf[b][1].source],
                row |-> [b \in DOMAIN shelf |-> NoScoreRow], scored |-> {}]
  BY DEF DemoInit
<1>2. ASSUME NEW b \in DOMAIN shelf
      PROVE  1 \in DOMAIN shelf[b] /\ shelf[b][1].source \in Int
             /\ (shelf[b][1].source <= 1000 => YieldKnown(shelf[b][1].source))
  BY ShelfHasPapers, ShelvedPaper, SourceKnown
<1>3. NoScoreRow.points \in Nat
  BY DEF NoScoreRow
<1> QED
  BY <1>1, <1>2, <1>3 DEF PagesInv

LEMMA MovesOnKeeps ==
  ASSUME PagesInv, NEW b \in DOMAIN demo.shelf, MovesOn(b)
  PROVE  PagesInv'
<1> DEFINE shelf == demo.shelf
           next == shelf[b][demo.at[b] + 1]
<1>1. demo.at[b] < Len(shelf[b])
  BY DEF MovesOn
<1>2. shelf \in Shelves /\ demo.at[b] \in DOMAIN shelf[b]
  BY DEF PagesInv
<1>3. demo.at[b] + 1 \in DOMAIN shelf[b] /\ demo.at[b] + 1 \in Nat
  BY <1>1, <1>2, ShelfHasPapers
<1>4. next.source \in Int /\ (next.source <= 1000 => YieldKnown(next.source))
  BY <1>2, <1>3, ShelvedPaper, SourceKnown
<1>5. /\ demo'.shelf = shelf /\ demo'.at = [demo.at EXCEPT ![b] = @ + 1]
      /\ demo'.ytm = [demo.ytm EXCEPT ![b] = IF next.told THEN next.source ELSE @]
      /\ demo'.row = demo.row /\ demo'.scored = demo.scored \ {b}
      /\ DOMAIN demo' = DOMAIN demo
  <2> HIDE DEF next, shelf
  <2>1. DOMAIN demo = {"shelf", "at", "ytm", "row", "scored"}
    BY DEF PagesInv
  <2>2. demo' = [demo EXCEPT !.at[b] = @ + 1, !.ytm[b] = IF next.told THEN next.source ELSE @, !.scored = @ \ {b}]
    BY DEF MovesOn, next, shelf
  <2> QED
    BY <2>1, <2>2 DEF shelf
<1>6. demo'.at \in [DOMAIN shelf -> Nat] /\ demo'.ytm \in [DOMAIN shelf -> Int]
  BY <1>3, <1>4, <1>5 DEF PagesInv
<1>7. ASSUME NEW c \in DOMAIN shelf
      PROVE  /\ demo'.at[c] \in DOMAIN shelf[c] /\ demo'.row[c].points \in Nat
             /\ demo'.ytm[c] <= 1000 => YieldKnown(demo'.ytm[c])
  <2>1. demo.at[c] \in DOMAIN shelf[c] /\ demo.row[c].points \in Nat /\ (demo.ytm[c] <= 1000 => YieldKnown(demo.ytm[c]))
    BY DEF PagesInv
  <2>2. demo.at \in [DOMAIN shelf -> Nat] /\ demo.ytm \in [DOMAIN shelf -> Int]
    BY DEF PagesInv
  <2>3. CASE c = b
    BY <1>3, <1>4, <1>5, <2>1, <2>2, <2>3
  <2>4. CASE c # b
    BY <1>5, <2>1, <2>2, <2>4
  <2> QED
    BY <2>3, <2>4
<1>8. ASSUME NEW c \in demo.scored \ {b}
      PROVE  ScoredAsIs(c)'
  <2>1. ScoredAsIs(c) /\ c \in DOMAIN shelf
    BY DEF PagesInv
  <2>2. demo'.at[c] = demo.at[c] /\ demo'.ytm[c] = demo.ytm[c] /\ demo'.row[c] = demo.row[c]
    BY <1>5, <2>1 DEF PagesInv
  <2>3. PaperNow(c)' = PaperNow(c)
    BY <1>5, <2>2 DEF PaperNow
  <2> QED
    BY <2>1, <2>2, <2>3 DEF ScoredAsIs
<1>9. /\ demo'.row = [c \in DOMAIN shelf |-> demo'.row[c]] /\ demo'.scored \subseteq DOMAIN shelf
      /\ demo'.shelf \in Shelves
  BY <1>5 DEF PagesInv
<1> HIDE DEF next
<1>10. \A c \in demo'.scored : ScoredAsIs(c)'
  BY <1>5, <1>8
<1> QED
  BY <1>5, <1>6, <1>7, <1>9, <1>10 DEF PagesInv

\* What a recomputation leaves is a yield with points.
LEMMA NewYieldKnown ==
  ASSUME NEW p, PaperType(p), NEW z \in Int, z <= 1000 => YieldKnown(z)
  PROVE  NewYield(p, z) \in Int /\ YieldKnown(NewYield(p, z)) /\ (NewYield(p, z) = Absent \/ NewYield(p, z) > 0)
<1>1. /\ p.own \in Int /\ (p.own <= 1000 => YieldKnown(p.own))
      /\ Absent \in Int /\ YieldKnown(Absent)
  BY SourceKnown DEF Absent, YieldKnown
<1>2. CASE NoCouponMetal(p)
  <2>1. NewYield(p, z) = Absent
    BY <1>2 DEF NewYield, Solved, Sanitized, Absent
  <2> QED
    BY <1>1, <2>1
<1>3. CASE ~NoCouponMetal(p)
  BY <1>1, <1>3, NewYieldIs
<1> QED
  BY <1>2, <1>3

\* The points for its yield that a score has.
LEMMA RowPoints ==
  ASSUME NEW p, PaperType(p), NEW y, YieldKnown(y)
  PROVE  /\ ScoreRow(RowScore(p, y)).points \in Nat
         /\ LET d == Derived(p, y)
            IN ScoreRow(RowScore(p, y)).points = IF Distressed(p, d) THEN Smaller(YieldPoints(d), 2000) ELSE YieldPoints(d)
<1> DEFINE d == Derived(p, y)
           past == << >>
<1>1. ScoreRow(RowScore(p, y)).points = Breakdown(p, d, past, past)["yield"]
  BY DEF ScoreRow, RowScore, ScoreBond, ScoreFrom
<1>2. Breakdown(p, d, past, past)["yield"] = IF Distressed(p, d) THEN Smaller(YieldPoints(d), 2000) ELSE YieldPoints(d)
  BY DEF Breakdown, PointsOf, Parts
<1>3. YieldPoints(d) \in Nat
  BY DerivedKnown, YieldType
<1> QED
  BY <1>1, <1>2, <1>3 DEF Smaller

LEMMA RecomputeKeeps == PagesInv /\ RecomputeMarket => PagesInv'
<1> SUFFICES ASSUME PagesInv, RecomputeMarket PROVE PagesInv'
  OBVIOUS
<1> DEFINE found == [b \in DOMAIN demo.shelf |-> NewYield(PaperNow(b), demo.ytm[b])]
           row == [b \in DOMAIN demo.row |-> ScoreRow(RowScore(PaperNow(b), found[b]))]
<1>1. /\ demo'.shelf = demo.shelf /\ demo'.at = demo.at /\ demo'.ytm = found /\ demo'.row = row
      /\ demo'.scored = DOMAIN demo.shelf /\ DOMAIN demo' = DOMAIN demo
  <2>1. DOMAIN demo = {"shelf", "at", "ytm", "row", "scored"}
    BY DEF PagesInv
  <2>2. demo' = [demo EXCEPT !.ytm = found, !.scored = DOMAIN demo.shelf, !.row = row]
    BY DEF RecomputeMarket, NewYield, RowScore
  <2> HIDE DEF found, row
  <2> QED
    BY <2>1, <2>2
<1>2. /\ demo.shelf \in Shelves /\ demo.ytm \in [DOMAIN demo.shelf -> Int] /\ DOMAIN demo.row = DOMAIN demo.shelf
      /\ demo.at \in [DOMAIN demo.shelf -> Nat]
  BY DEF PagesInv
<1>3. ASSUME NEW b \in DOMAIN demo.shelf
      PROVE  /\ demo'.at[b] \in DOMAIN demo.shelf[b] /\ demo'.row[b].points \in Nat
             /\ found[b] \in Int /\ YieldKnown(found[b])
             /\ ScoredAsIs(b)'
  <2>1. demo.at[b] \in DOMAIN demo.shelf[b] /\ (demo.ytm[b] <= 1000 => YieldKnown(demo.ytm[b])) /\ demo.ytm[b] \in Int
    BY <1>2 DEF PagesInv
  <2>2. PaperType(PaperNow(b))
    BY <1>2, <2>1, ShelvedPaper DEF PaperNow
  <2>3. found[b] = NewYield(PaperNow(b), demo.ytm[b])
    OBVIOUS
  <2>4. found[b] \in Int /\ YieldKnown(found[b])
    <3> HIDE DEF found
    <3> QED
      BY <2>1, <2>2, <2>3, NewYieldKnown
  <2>5. demo'.row[b] = ScoreRow(RowScore(PaperNow(b), found[b]))
    BY <1>1, <1>2
  <2> HIDE DEF found
  <2>6. demo'.row[b].points \in Nat
    BY <2>2, <2>4, <2>5, RowPoints
  <2>7. PaperNow(b)' = PaperNow(b)
    BY <1>1 DEF PaperNow
  <2>8. ScoredAsIs(b)'
    BY <1>1, <2>1, <2>3, <2>5, <2>7 DEF ScoredAsIs
  <2> QED
    BY <1>1, <2>1, <2>4, <2>6, <2>8
<1>4. found \in [DOMAIN demo.shelf -> Int]
  <2>1. found = [b \in DOMAIN demo.shelf |-> found[b]]
    OBVIOUS
  <2> HIDE DEF found
  <2> QED
    BY <1>3, <2>1
<1>5. row = [b \in DOMAIN demo.shelf |-> row[b]]
  BY <1>2
<1> HIDE DEF found, row
<1>6. /\ demo'.row = [b \in DOMAIN demo.shelf |-> demo'.row[b]] /\ demo'.scored \subseteq DOMAIN demo.shelf
      /\ demo'.ytm \in [DOMAIN demo.shelf -> Int]
  BY <1>1, <1>4, <1>5
<1>7. DOMAIN demo' = {"shelf", "at", "ytm", "row", "scored"}
  BY <1>1 DEF PagesInv
<1> QED
  <2>1. \A b \in demo'.scored : ScoredAsIs(b)'
    BY <1>1, <1>3
  <2>2. \A b \in DOMAIN demo'.shelf :
          /\ demo'.at[b] \in DOMAIN demo'.shelf[b] /\ demo'.row[b].points \in Nat
          /\ demo'.ytm[b] <= 1000 => YieldKnown(demo'.ytm[b])
    BY <1>1, <1>3
  <2> QED
    BY <1>1, <1>2, <1>6, <1>7, <2>1, <2>2 DEF PagesInv

\* Every step of the pages keeps them.
LEMMA PagesStep == PagesInv /\ [DemoNext]_demo => PagesInv'
<1> SUFFICES ASSUME PagesInv, [DemoNext]_demo PROVE PagesInv'
  OBVIOUS
<1>1. CASE RecomputeMarket
  BY <1>1, RecomputeKeeps
<1>2. CASE \E b \in DOMAIN demo.shelf : MovesOn(b)
  BY <1>2, MovesOnKeeps
<1>3. CASE UNCHANGED demo
  <2>1. ASSUME NEW b, ScoredAsIs(b) PROVE ScoredAsIs(b)'
    BY <1>3, <2>1 DEF ScoredAsIs, PaperNow
  <2> QED
    BY <1>3, <2>1 DEF PagesInv
<1> QED
  BY <1>1, <1>2, <1>3 DEF DemoNext

\* A score tells nothing of a paper but what its parts are computed from.
SameTerms(p, q) ==
  /\ p.price = q.price /\ p.coupon = q.coupon /\ p.life = q.life /\ p.semi = q.semi /\ p.discount = q.discount
  /\ p.issuer = q.issuer /\ p.currency = q.currency /\ p.named = q.named /\ p.market = q.market
  /\ p.status = q.status
  /\ NoCouponMetal(p) = NoCouponMetal(q)

LEMMA SameScore ==
  ASSUME NEW p, NEW q, SameTerms(p, q), NEW y, NEW z, Derived(p, y) = Derived(p, z)
  PROVE  RowScore(p, y) = RowScore(q, z)
<1> DEFINE past == << >>
<1>1. Derived(p, z) = Derived(q, z)
  BY DEF SameTerms, Derived
<1>2. ASSUME NEW d, NEW part \in Parts
      PROVE  PointsOf(part, p, d, past, past) = PointsOf(part, q, d, past, past)
  <2>1. Distressed(p, d) = Distressed(q, d)
    BY DEF SameTerms, Distressed
  <2>2. LiquidityPoints(p) = LiquidityPoints(q) /\ MetalPoints(p) = MetalPoints(q)
    BY DEF SameTerms, LiquidityPoints, MetalPoints
  <2>3. CreditPoints(p) = CreditPoints(q)
    BY DEF SameTerms, CreditPoints
  <2>4. InflationPoints(p, d) = InflationPoints(q, d)
    BY DEF SameTerms, InflationPoints
  <2>5. VolatilityPoints(p, d) = VolatilityPoints(q, d)
    BY DEF SameTerms, VolatilityPoints
  <2>6. p.currency = q.currency /\ p.life = q.life /\ p.coupon = q.coupon
    BY DEF SameTerms
  <2> QED
    BY <2>1, <2>2, <2>3, <2>4, <2>5, <2>6 DEF PointsOf
<1>3. \A d : Breakdown(p, d, past, past) = Breakdown(q, d, past, past)
  BY <1>2 DEF Breakdown
<1> QED
  BY <1>1, <1>3 DEF RowScore, ScoreBond

\* The yield of now is one with points, at most 100 per cent.
LEMMA NowKnown ==
  ASSUME NEW p, PaperType(p), NEW f \in Int, f <= 1000 => YieldKnown(f)
  PROVE  YieldNow(p, f) \in Int /\ YieldNow(p, f) <= 100 /\ YieldKnown(YieldNow(p, f))
<1> DEFINE solved == IF ~NoCouponMetal(p) /\ p.price # Absent /\ p.coupon > 0 THEN p.own ELSE Absent
           y == IF solved # Absent THEN solved ELSE Honest(p, f)
<1>1. p.own \in Int /\ (p.own <= 1000 => YieldKnown(p.own)) /\ Absent \in Int /\ Absent <= 100 /\ YieldKnown(Absent)
  BY SourceKnown DEF Absent, YieldKnown
<1>2. solved \in Int /\ (solved <= 1000 => YieldKnown(solved))
  BY <1>1
<1>3. Honest(p, f) \in Int /\ (Honest(p, f) <= 1000 => YieldKnown(Honest(p, f)))
  BY <1>1 DEF Honest
<1> HIDE DEF solved
<1>4. y \in Int /\ (y <= 1000 => YieldKnown(y))
  BY <1>2, <1>3
<1>5. YieldNow(p, f) = IF Ended(p) \/ y > 100 THEN Absent ELSE y
  BY DEF YieldNow, solved
<1> HIDE DEF y
<1> QED
  BY <1>1, <1>4, <1>5

LEMMA NowInt == ASSUME NEW p, PaperType(p), NEW f \in Int PROVE YieldNow(p, f) \in Int
<1>1. p.own \in Int /\ Absent \in Int
  BY SourceKnown DEF Absent
<1> QED
  BY <1>1 DEF YieldNow, Honest

\* Of a bond with a price whose yield was recomputed and is there, the yield of
\* now is that one, or a loss.
LEMMA NowIsStored ==
  ASSUME NEW p, PaperType(p), ~NoCouponMetal(p), p.price # Absent, NEW z \in Int, NEW f, f = NewYield(p, z), f # Absent
  PROVE  f > 0 /\ (YieldNow(p, f) = f \/ YieldNow(p, f) <= 0)
<1>1. p.own \in Int /\ p.coupon \in Int /\ Absent \in Int /\ Absent <= 0
  BY SourceKnown DEF Absent
<1>2. f = IF p.own > 0 THEN IF (z = Absent \/ z > 0) /\ p.own <= 1000 THEN p.own ELSE Absent
          ELSE IF z \in 1 .. 99 THEN z ELSE Absent
  BY <1>1, NewYieldIs
<1>3. f \in Int /\ f > 0 /\ (p.own > 0 => f = p.own)
  BY <1>1, <1>2
<1>4. Honest(p, f) = f
  BY <1>3 DEF Honest
<1>5. YieldNow(p, f) = f \/ YieldNow(p, f) <= 0
  BY <1>1, <1>3, <1>4 DEF YieldNow
<1> QED
  BY <1>3, <1>5

\* No metal bond without a coupon has a yield of now.
LEMMA NoYieldOfMetal ==
  ASSUME NEW p, NoCouponMetal(p), NEW z
  PROVE  NewYield(p, z) = Absent /\ YieldNow(p, Absent) = Absent
<1>1. NewYield(p, z) = Absent
  BY DEF NewYield, Solved, Sanitized, Absent
<1>2. YieldNow(p, Absent) = Absent
  BY DEF YieldNow, Honest, Absent
<1> QED
  BY <1>1, <1>2

\* The points of a yield above 0 are not 0, of one below there are none.
LEMMA PointsTell ==
  ASSUME NEW y, YieldKnown(y)
  PROVE  (y > 0 => YieldPoints(y) > 0) /\ (y <= 0 => YieldPoints(y) = 0)
<1>1. \A n \in DOMAIN Log : Log[n] \in Nat
  BY ScoringAssumption DEF ScoringAssumption
<1>2. CASE y > 40
  BY <1>1, <1>2 DEF YieldKnown, YieldPoints
<1>3. CASE ~(y > 40)
  BY <1>3 DEF YieldKnown, YieldPoints
<1> QED
  BY <1>2, <1>3

\* A row of the scores is never the empty one.
LEMMA ScoreRowTold == ASSUME NEW s, NEW p, NEW y, s = RowScore(p, y) PROVE ScoreRow(s) # NoScoreRow
<1> DEFINE n == Total(Breakdown(p, Derived(p, y), << >>, << >>))
           ladder == <<<<8500, "S">>, <<7500, "A">>, <<6000, "B">>, <<4500, "C">>>>
<1>1. s.tier = Tier(n)
  BY DEF RowScore, ScoreBond, ScoreFrom
<1>2. Tier(n) = Rung(n, ladder, "D")
  BY DEF Tier
<1>3. DOMAIN ladder \in SUBSET Nat /\ \A i \in DOMAIN ladder : ladder[i][2] \in {"S", "A", "B", "C", "D"}
  OBVIOUS
<1> HIDE DEF n, ladder
<1>4. Rung(n, ladder, "D") \in {"S", "A", "B", "C", "D"}
  BY <1>3, RungIn
<1>5. ScoreRow(s).tier = s.tier /\ NoScoreRow.tier = "none"
  BY DEF ScoreRow, NoScoreRow
<1> QED
  BY <1>1, <1>2, <1>4, <1>5

\* The score of now of a paper that has not ended and has a price.
LEMMA ScoreNowIs ==
  ASSUME NEW p \in DemoPaperType, ~Ended(p), p.price # Absent, NEW y
  PROVE  ScoreNow(p, y) = ScoreRow(RowScore(p, IF y = 0 THEN Absent ELSE y))
<1>1. PriceNow(p) = p.price
  BY DEF PriceNow
<1>2. [p EXCEPT !.price = p.price] = p
  BY DEF DemoPaperType
<1> QED
  BY <1>1, <1>2 DEF ScoreNow, RowScore

\* Not told of an indexation, the same paper.
LEMMA UnindexedIs ==
  ASSUME NEW p \in DemoPaperType, PaperType(p), NEW q, q = Unindexed(p)
  PROVE  /\ q \in DemoPaperType /\ q.price = p.price /\ q.life = p.life
         /\ (NoCouponMetal(p) => NoCouponMetal(q)) => SameTerms(q, p)
<1> DEFINE told == p.currency \in {"XAU", "XAG", "XPT"}
<1>1. q = [p EXCEPT !.metal = told] /\ told \in BOOLEAN
  BY DEF Unindexed
<1>2. /\ q \in DemoPaperType
      /\ q.price = p.price /\ q.coupon = p.coupon /\ q.life = p.life /\ q.semi = p.semi /\ q.discount = p.discount
      /\ q.issuer = p.issuer /\ q.currency = p.currency /\ q.named = p.named /\ q.market = p.market
      /\ q.status = p.status /\ q.metal = told
  <2> HIDE DEF told
  <2>1. q \in DemoPaperType
    BY <1>1 DEF DemoPaperType
  <2> QED
    BY <1>1, <2>1 DEF DemoPaperType
<1>3. p.currency \in {"XAU", "XAG", "XPT"} => p.metal
  BY DEF PaperType
<1>4. NoCouponMetal(q) => NoCouponMetal(p)
  BY <1>2, <1>3 DEF NoCouponMetal
<1>5. ASSUME NoCouponMetal(p) => NoCouponMetal(q) PROVE SameTerms(q, p)
  <2>1. NoCouponMetal(q) = NoCouponMetal(p)
    BY <1>4, <1>5 DEF NoCouponMetal
  <2> QED
    BY <1>2, <2>1 DEF SameTerms
<1> QED
  BY <1>2, <1>5

\* Its score of now is the same at any yield, unless the indexation tells.
LEMMA UnindexedScore ==
  ASSUME NEW p \in DemoPaperType, PaperType(p), NoCouponMetal(p) => NoCouponMetal(Unindexed(p)), NEW y
  PROVE  ScoreNow(Unindexed(p), y) = ScoreNow(p, y)
<1> DEFINE q == Unindexed(p)
           v == PriceNow(p)
           z == IF y = 0 THEN Absent ELSE y
           past == << >>
<1>1. q \in DemoPaperType /\ SameTerms(q, p)
  BY UnindexedIs
<1>2. PriceNow(q) = v
  BY <1>1 DEF SameTerms, PriceNow, Ended
<1>3. SameTerms([q EXCEPT !.price = v], [p EXCEPT !.price = v])
  <2> HIDE DEF q, v
  <2> QED
    BY <1>1 DEF SameTerms, DemoPaperType, NoCouponMetal
<1>4. RowScore([q EXCEPT !.price = v], z) = RowScore([p EXCEPT !.price = v], z)
  <2> HIDE DEF q, v, z
  <2> QED
    BY <1>3, SameScore
<1>5. ScoreNow(p, y) = IF v = Absent /\ y = Absent THEN NoScoreRow ELSE ScoreRow(RowScore([p EXCEPT !.price = v], z))
  BY DEF ScoreNow, RowScore
<1>6. ScoreNow(q, y) = IF v = Absent /\ y = Absent THEN NoScoreRow ELSE ScoreRow(RowScore([q EXCEPT !.price = v], z))
  <2> HIDE DEF q
  <2> QED
    BY <1>2 DEF ScoreNow, RowScore
<1> HIDE DEF q, v, z
<1>7. ScoreNow(q, y) = ScoreNow(p, y)
  BY <1>4, <1>5, <1>6
<1> QED
  BY <1>7 DEF q

\* A stored score that agrees with the yield of now has its points, nearly.
LEMMA StoredNearly ==
  ASSUME NEW row, row.points \in Nat, NEW y, YieldKnown(y), ~ScoreStale(row, y)
  PROVE  Apart(row.points, YieldPoints(Larger(y, 0))) <= 150
<1>1. y \in Int
  BY DEF YieldKnown
<1>2. CASE y <= 0
  <2>1. row.points = 0 /\ Larger(y, 0) = 0
    BY <1>1, <1>2 DEF ScoreStale, Larger
  <2>2. YieldPoints(0) = 0
    BY DEF YieldPoints
  <2> QED
    BY <2>1, <2>2 DEF Apart, Larger
<1>3. CASE y > 0
  <2>1. Larger(y, 0) = y
    BY <1>1, <1>3 DEF Larger
  <2>2. YieldPoints(y) \in Nat
    BY YieldType
  <2>3. Apart(YieldPoints(y), row.points) <= 150
    BY <1>1, <1>3, <2>2 DEF ScoreStale, Apart, Larger
  <2> QED
    BY <2>1, <2>2, <2>3 DEF Apart, Larger
<1> QED
  BY <1>1, <1>2, <1>3

\* Once the scores were computed for the bond as it is, its row and its card
\* have the same one, unless its yield was wiped.
LEMMA ScoredAlike ==
  ASSUME NEW p \in DemoPaperType, PaperType(p), ~Ended(p), p.price # Absent, NEW z \in Int, z <= 1000 => YieldKnown(z),
         NEW f, f = NewYield(p, z), NEW y, y = YieldNow(p, f), ~(f = Absent /\ y > 0),
         NEW row, row = ScoreRow(RowScore(p, f))
  PROVE  TableRowAt(row, p, y).score = ScoreNow(p, y)
<1>1. f \in Int /\ YieldKnown(f) /\ (f = Absent \/ f > 0) /\ YieldKnown(Absent)
  BY NewYieldKnown DEF YieldKnown, Absent
<1>2. y \in Int /\ YieldKnown(y)
  BY <1>1, NowKnown
<1>3. TableRowAt(row, p, y).score = IF Stored(row, p, y) THEN row ELSE ScoreNow(Unindexed(p), y)
  BY DEF TableRowAt
<1>4. Stored(row, p, y) <=> ~ScoreStale(row, y)
  BY ScoreRowTold DEF Stored
<1> DEFINE w == IF y = 0 THEN Absent ELSE y
<1>5. ScoreNow(p, y) = ScoreRow(RowScore(p, w))
  BY ScoreNowIs
<1>6. SameTerms(p, p)
  BY DEF SameTerms
<1>7. CASE NoCouponMetal(p)
  <2>1. f = Absent /\ y = Absent
    BY <1>7, NoYieldOfMetal
  <2>2. Derived(p, f) = Absent
    BY <1>7 DEF Derived
  <2>3. row.points = 0
    <3>1. YieldPoints(Absent) = 0
      BY DEF YieldPoints, Absent
    <3>2. row.points = IF Distressed(p, Absent) THEN Smaller(0, 2000) ELSE 0
      BY <1>1, <2>2, <3>1, RowPoints
    <3> QED
      BY <3>2 DEF Smaller
  <2>4. ~ScoreStale(row, y)
    BY <2>1, <2>3 DEF ScoreStale, Absent
  <2>5. w = f
    BY <2>1 DEF Absent
  <2> QED
    BY <1>3, <1>4, <1>5, <2>4, <2>5
<1>8. CASE ~NoCouponMetal(p)
  <2>1. ScoreNow(Unindexed(p), y) = ScoreNow(p, y)
    BY <1>8, UnindexedScore
  <2>2. SUFFICES ASSUME ~ScoreStale(row, y) PROVE RowScore(p, w) = RowScore(p, f)
    BY <1>3, <1>4, <1>5, <2>1
  <2>3. CASE f # Absent
    <3>1. f > 0 /\ (y = f \/ y <= 0)
      BY <1>8, <2>3, NowIsStored
    <3>2. Derived(p, f) = f
      BY <1>8, <3>1 DEF Derived
    <3>3. row.points > 0
      <4>1. row.points = IF Distressed(p, f) THEN Smaller(YieldPoints(f), 2000) ELSE YieldPoints(f)
        BY <1>1, <3>2, RowPoints
      <4>2. YieldPoints(f) > 0 /\ YieldPoints(f) \in Nat
        BY <1>1, <3>1, PointsTell, YieldType
      <4> QED
        BY <4>1, <4>2 DEF Smaller
    <3>4. y > 0
      BY <1>2, <2>2, <3>3 DEF ScoreStale
    <3> QED
      BY <1>2, <3>1, <3>4
  <2>4. CASE f = Absent
    <3>1. ~(y > 0) /\ ~(w > 0) /\ ~(f > 0)
      BY <1>2, <2>4 DEF Absent
    <3>2. Derived(p, w) = Derived(p, f)
      BY <1>8, <3>1 DEF Derived
    <3> QED
      BY <1>6, <3>2, SameScore
  <2> QED
    BY <2>3, <2>4
<1> QED
  BY <1>7, <1>8

\* What is known of a bond of the shelf.
LEMMA BondOfShelf ==
  ASSUME PagesInv, NEW b \in DOMAIN demo.shelf
  PROVE  /\ PaperNow(b) \in DemoPaperType /\ PaperType(PaperNow(b))
         /\ demo.ytm[b] \in Int /\ (demo.ytm[b] <= 1000 => YieldKnown(demo.ytm[b]))
         /\ demo.row[b].points \in Nat
<1>1. demo.shelf \in Shelves /\ demo.at[b] \in DOMAIN demo.shelf[b]
  BY DEF PagesInv
<1>2. PaperNow(b) \in DemoPaperType /\ PaperType(PaperNow(b))
  BY <1>1, ShelvedPaper DEF PaperNow
<1> QED
  BY <1>2 DEF PagesInv

LEMMA TableAgrees == PagesInv => TableMatchesCard
<1> SUFFICES ASSUME PagesInv, NEW b \in Table
             PROVE  \A row \in {TableRow(b)}, card \in {Card(b)}, p \in {PaperNow(b)} :
                      /\ row.ytm = card.ytm /\ row.distressed = card.distressed
                      /\ row.ytm # Absent => row.duration = card.duration
                      /\ ~row.stored /\ (NoCouponMetal(p) => NoCouponMetal(Unindexed(p))) => row.score = card.score
                      /\ row.stored => Apart(row.score.points, YieldPoints(Larger(row.ytm, 0))) <= 150
                      /\ b \in demo.scored /\ ~Wiped(b) => row.score = card.score
                      /\ Ended(p) => row.score = NoScoreRow /\ row.ytm = Absent
  BY DEF TableMatchesCard
<1> DEFINE p == PaperNow(b)
           f == demo.ytm[b]
           y == YieldNow(p, f)
           row == demo.row[b]
           u == Unindexed(p)
<1>1. b \in DOMAIN demo.shelf /\ p.price # Absent
  BY DEF Table, OnSale
<1>2. p \in DemoPaperType /\ PaperType(p) /\ f \in Int /\ (f <= 1000 => YieldKnown(f)) /\ row.points \in Nat
  BY <1>1, BondOfShelf
<1>3. /\ TableRow(b) = TableRowAt(row, p, y) /\ Card(b) = CardAt(p, y)
      /\ Wiped(b) <=> f = Absent /\ y > 0
  BY DEF TableRow, Card, CardAt, Wiped
<1> HIDE DEF f, y, row
<1>4. /\ TableRow(b).ytm = y /\ TableRow(b).distressed = Distress(p, y)
      /\ TableRow(b).duration = TableDuration(p, y) /\ TableRow(b).stored = Stored(row, p, y)
      /\ TableRow(b).score = IF Stored(row, p, y) THEN row ELSE ScoreNow(u, y)
  BY <1>3 DEF TableRowAt
<1>5. /\ Card(b).ytm = y /\ Card(b).distressed = Distress(p, y) /\ Card(b).duration = CardDuration(p, y)
      /\ Card(b).score = ScoreNow(p, y)
  BY <1>3 DEF CardAt
<1>11. p.price # Absent
  BY <1>1
<1> HIDE DEF p
<1>6. y # Absent => TableDuration(p, y) = CardDuration(p, y)
  BY DEF TableDuration, CardDuration
<1>7. ASSUME ~Stored(row, p, y), NoCouponMetal(p) => NoCouponMetal(u)
      PROVE  ScoreNow(u, y) = ScoreNow(p, y)
  BY <1>2, <1>7, UnindexedScore
<1>8. ASSUME Stored(row, p, y)
      PROVE  Apart(row.points, YieldPoints(Larger(y, 0))) <= 150
  <2>1. YieldKnown(y)
    BY <1>2, NowKnown DEF y
  <2>2. ~ScoreStale(row, y)
    BY <1>8 DEF Stored
  <2> QED
    BY <1>2, <2>1, <2>2, StoredNearly
<1>9. ASSUME Ended(p)
      PROVE  ~Stored(row, p, y) /\ y = Absent /\ ScoreNow(u, y) = NoScoreRow /\ ScoreNow(p, y) = NoScoreRow
  <2>1. ~Stored(row, p, y) /\ y = Absent
    BY <1>9 DEF Stored, y, YieldNow
  <2>2. u.life = p.life
    BY <1>2, UnindexedIs
  <2>3. PriceNow(p) = Absent /\ PriceNow(u) = Absent
    BY <1>9, <2>2 DEF PriceNow, Ended
  <2> QED
    BY <2>1, <2>3 DEF ScoreNow
<1>10. ASSUME b \in demo.scored, ~Wiped(b)
       PROVE  TableRow(b).score = Card(b).score
  <2>1. CASE Ended(p)
    BY <1>4, <1>5, <1>9, <2>1
  <2>2. CASE ~Ended(p)
    <3>0. ScoredAsIs(b)
      BY <1>10 DEF PagesInv
    <3>1. PICK z \in Int : (z <= 1000 => YieldKnown(z)) /\ f = NewYield(p, z)
      BY <3>0, Zenon DEF ScoredAsIs, p, f
    <3>2. row = ScoreRow(RowScore(p, f))
      BY <3>0 DEF ScoredAsIs, p, f, row
    <3> QED
      <4>1. ~(f = Absent /\ y > 0)
        BY <1>3, <1>10
      <4>2. TableRowAt(row, p, y).score = ScoreNow(p, y)
        BY <1>2, <1>11, <2>2, <3>1, <3>2, <4>1, ScoredAlike DEF y
      <4> QED
        BY <1>3, <1>5, <4>2
  <2> QED
    BY <2>1, <2>2
<1> HIDE DEF u
<1> QED
  BY <1>4, <1>5, <1>6, <1>7, <1>8, <1>9, <1>10 DEF u, p

LEMMA SearchAgrees == PagesInv => SearchInTable
<1> SUFFICES ASSUME PagesInv, NEW matches \in SUBSET DOMAIN demo.shelf, NEW b \in (matches \cap Table) \ SearchOf(matches)
             PROVE  Cardinality({c \in matches : c < b}) >= SearchLimit
  BY DEF SearchInTable
<1> DEFINE before == {c \in matches : c < b}
           onSale == {c \in matches \cap OnSale : c < b}
<1>1. demo.shelf \in Seq(Seq(DemoPaperType) \ {<< >>})
  BY DemoAssumption DEF DemoAssumption, PagesInv
<1>2. IsFiniteSet(DOMAIN demo.shelf)
  <2>1. DOMAIN demo.shelf = 1 .. Len(demo.shelf) /\ Len(demo.shelf) \in Nat /\ 1 \in Int
    BY <1>1
  <2> QED
    BY <2>1, FS_Interval
<1>3. IsFiniteSet(before)
  <2>1. before \subseteq DOMAIN demo.shelf
    OBVIOUS
  <2> QED
    BY <1>2, <2>1, FS_Subset
<1>4. onSale \subseteq before
  OBVIOUS
<1>5. SearchLimit \in Nat
  BY DemoAssumption DEF DemoAssumption
<1>6. ~(Cardinality(onSale) < SearchLimit)
  BY DEF SearchOf
<1> HIDE DEF before, onSale
<1>7. Cardinality(onSale) \in Nat /\ Cardinality(before) \in Nat /\ Cardinality(onSale) <= Cardinality(before)
  BY <1>3, <1>4, FS_Subset, FS_CardinalityType
<1>8. Cardinality(before) >= SearchLimit
  BY <1>5, <1>6, <1>7
<1> QED
  BY <1>8 DEF before

LEMMA CurveAgrees == PagesInv => CurveMatchesCard
<1> SUFFICES ASSUME PagesInv, NEW b \in demo.scored \cap OnSale, Card(b).ytm > 0, ~Wiped(b)
             PROVE  CurveYield(PaperNow(b), demo.ytm[b]) = Card(b).ytm
  BY DEF CurveMatchesCard
<1> DEFINE p == PaperNow(b)
           f == demo.ytm[b]
<1>1. b \in DOMAIN demo.shelf /\ p.price # Absent
  BY DEF OnSale
<1>2. PaperType(p) /\ Card(b).ytm = YieldNow(p, f)
  BY <1>1, BondOfShelf DEF Card, CardAt
<1>3. f # Absent
  BY DEF Wiped
<1>4. ScoredAsIs(b)
  BY DEF PagesInv
<1>5. PICK z \in Int : f = NewYield(p, z)
  BY <1>4, Zenon DEF ScoredAsIs
<1>6. f \in Int
  BY <1>1, BondOfShelf
<1> HIDE DEF p, f
<1>7. ~NoCouponMetal(p)
  BY <1>3, <1>5, NoYieldOfMetal
<1>8. f > 0 /\ (YieldNow(p, f) = f \/ YieldNow(p, f) <= 0)
  BY <1>1, <1>2, <1>3, <1>5, <1>7, NowIsStored
<1>9. YieldNow(p, f) = f
  <2>1. YieldNow(p, f) \in Int /\ YieldNow(p, f) > 0
    <3>1. YieldNow(p, f) \in Int
      BY <1>2, <1>6, NowInt
    <3> QED
      BY <1>2, <3>1
  <2> QED
    BY <1>8, <2>1
<1>10. CurveYield(p, f) = f
  BY <1>3, <1>6, <1>7, <1>8 DEF CurveYield, Honest
<1> QED
  BY <1>2, <1>9, <1>10 DEF p, f

\* A value moves towards another by the share of a purchase.
Shifted(from, to, a) == from * (100 - a) + to * a

LEMMA MovesTowards ==
  ASSUME NEW from \in Int, NEW to \in Int, NEW a \in {5, 10, 15}, NEW b \in {5, 10, 15}, a < b
  PROVE  Apart(100 * to, Shifted(from, to, b)) <= Apart(100 * to, Shifted(from, to, a))
<1>1. CASE a = 5 /\ b = 10
  BY <1>1 DEF Apart, Larger, Shifted
<1>2. CASE a = 5 /\ b = 15
  BY <1>2 DEF Apart, Larger, Shifted
<1>3. CASE a = 10 /\ b = 15
  BY <1>3 DEF Apart, Larger, Shifted
<1> QED
  BY <1>1, <1>2, <1>3

LEMMA FitsNoBetter ==
  ASSUME NEW q \in Purchases, NEW a \in Nat, NEW b \in Nat, a < b
  PROVE  Impact(q, b).fit <= Impact(q, a).fit
<1>1. q.held \in Int /\ q.allowed \in Int
  BY DemoAssumption DEF DemoAssumption
<1> QED
  BY <1>1 DEF Impact

\* Between which returns each strategy promises.
Promised == <<<<880, 1020>>, <<1080, 1120>>, <<1130, 1170>>, <<1200, 1280>>, <<1300, 1400>>, <<1430, 1570>>, <<1580, 1720>>>>

\* The return of a strategy whose nearest neighbour is this far.
LEMMA ReturnBetween ==
  ASSUME NEW i \in 1 .. 7, NEW n \in Int, NEW S \in SUBSET Nat,
         S = {BaseReturn[j + 1] - BaseReturn[j] : j \in {i - 1, i} \cap (1 .. 6)}, n \in S, \A m \in S : n <= m,
         NEW x \in Int
  PROVE  LET band == Larger(20, n \div 2 - 5)
         IN ExpectedReturn(i, x) = BaseReturn[i] + Larger(-band, Smaller(band, x - 1240))
<1>1. Min(S) \in S /\ \A m \in S : Min(S) <= m
  BY MinOf
<1>2. Min(S) = n
  BY <1>1
<1> HIDE DEF Min
<1> QED
  BY <1>2 DEF ExpectedReturn

LEMMA ReturnIn ==
  ASSUME NEW i \in 1 .. 7, NEW x \in Int
  PROVE  ExpectedReturn(i, x) \in Int /\ Promised[i][1] <= ExpectedReturn(i, x) /\ ExpectedReturn(i, x) <= Promised[i][2]
<1> DEFINE S == {BaseReturn[j + 1] - BaseReturn[j] : j \in {i - 1, i} \cap (1 .. 6)}
           R(n) == LET band == Larger(20, n \div 2 - 5) IN BaseReturn[i] + Larger(-band, Smaller(band, x - 1240))
<1>1. CASE i = 1
  <2>1. S = {150}
    BY <1>1 DEF BaseReturn
  <2>2. ExpectedReturn(i, x) = R(150)
    <3> HIDE DEF R
    <3> QED
      BY <2>1, ReturnBetween DEF R
  <2> QED
    BY <1>1, <2>2 DEF BaseReturn, Larger, Smaller, Promised
<1>2. CASE i = 2
  <2>1. S = {50, 150}
    BY <1>2 DEF BaseReturn
  <2>2. ExpectedReturn(i, x) = R(50)
    <3> HIDE DEF R
    <3> QED
      BY <2>1, ReturnBetween DEF R
  <2> QED
    BY <1>2, <2>2 DEF BaseReturn, Larger, Smaller, Promised
<1>3. CASE i = 3
  <2>1. S = {50, 90}
    BY <1>3 DEF BaseReturn
  <2>2. ExpectedReturn(i, x) = R(50)
    <3> HIDE DEF R
    <3> QED
      BY <2>1, ReturnBetween DEF R
  <2> QED
    BY <1>3, <2>2 DEF BaseReturn, Larger, Smaller, Promised
<1>4. CASE i = 4
  <2>1. S = {90, 110}
    BY <1>4 DEF BaseReturn
  <2>2. ExpectedReturn(i, x) = R(90)
    <3> HIDE DEF R
    <3> QED
      BY <2>1, ReturnBetween DEF R
  <2> QED
    BY <1>4, <2>2 DEF BaseReturn, Larger, Smaller, Promised
<1>5. CASE i = 5
  <2>1. S = {110, 150}
    BY <1>5 DEF BaseReturn
  <2>2. ExpectedReturn(i, x) = R(110)
    <3> HIDE DEF R
    <3> QED
      BY <2>1, ReturnBetween DEF R
  <2> QED
    BY <1>5, <2>2 DEF BaseReturn, Larger, Smaller, Promised
<1>6. CASE i = 6
  <2>1. S = {150}
    BY <1>6 DEF BaseReturn
  <2>2. ExpectedReturn(i, x) = R(150)
    <3> HIDE DEF R
    <3> QED
      BY <2>1, ReturnBetween DEF R
  <2> QED
    BY <1>6, <2>2 DEF BaseReturn, Larger, Smaller, Promised
<1>7. CASE i = 7
  <2>1. S = {150}
    BY <1>7 DEF BaseReturn
  <2>2. ExpectedReturn(i, x) = R(150)
    <3> HIDE DEF R
    <3> QED
      BY <2>1, ReturnBetween DEF R
  <2> QED
    BY <1>7, <2>2 DEF BaseReturn, Larger, Smaller, Promised
<1> QED
  BY <1>1, <1>2, <1>3, <1>4, <1>5, <1>6, <1>7

LEMMA PromisesAgree == PromisesOrdered
<1>1. ASSUME NEW q \in Purchases, NEW a \in {5, 10, 15}, NEW b \in {5, 10, 15}, a < b
      PROVE  /\ Impact(q, b).fit <= Impact(q, a).fit
             /\ Apart(100 * q.bond.ytm, Impact(q, b).ytm) <= Apart(100 * q.bond.ytm, Impact(q, a).ytm)
             /\ Apart(100 * q.bond.duration, Impact(q, b).duration)
                  <= Apart(100 * q.bond.duration, Impact(q, a).duration)
  <2>1. q.ytm \in Int /\ q.duration \in Int /\ q.bond.ytm \in Int /\ q.bond.duration \in Int
    BY DemoAssumption DEF DemoAssumption
  <2>3. Impact(q, b).fit <= Impact(q, a).fit
    BY <1>1, FitsNoBetter
  <2>4. Apart(100 * q.bond.ytm, Impact(q, b).ytm) <= Apart(100 * q.bond.ytm, Impact(q, a).ytm)
    <3>1. \A x \in {a, b} : Impact(q, x).ytm = Shifted(q.ytm, q.bond.ytm, x)
      BY DEF Impact, Shifted
    <3>2. Apart(100 * q.bond.ytm, Shifted(q.ytm, q.bond.ytm, b)) <= Apart(100 * q.bond.ytm, Shifted(q.ytm, q.bond.ytm, a))
      BY <1>1, <2>1, MovesTowards
    <3> QED
      BY <3>1, <3>2
  <2>5. Apart(100 * q.bond.duration, Impact(q, b).duration) <= Apart(100 * q.bond.duration, Impact(q, a).duration)
    <3>1. \A x \in {a, b} : Impact(q, x).duration = Shifted(q.duration, q.bond.duration, x)
      BY DEF Impact, Shifted
    <3>2. Apart(100 * q.bond.duration, Shifted(q.duration, q.bond.duration, b))
            <= Apart(100 * q.bond.duration, Shifted(q.duration, q.bond.duration, a))
      BY <1>1, <2>1, MovesTowards
    <3> QED
      BY <3>1, <3>2
  <2> QED
    BY <2>3, <2>4, <2>5
<1>2. ASSUME NEW i \in DOMAIN BaseReturn, NEW j \in DOMAIN BaseReturn, i < j, NEW x \in Int, NEW y \in Int
      PROVE  ExpectedReturn(i, x) < ExpectedReturn(j, y)
  <2>1. DOMAIN BaseReturn = 1 .. 7
    BY DEF BaseReturn
  <2>2. i \in 1 .. 7 /\ j \in 1 .. 7 /\ Promised[i][2] < Promised[j][1]
    <3>1. i \in 1 .. 7 /\ j \in 1 .. 7 /\ i + 1 <= j
      BY <1>2, <2>1
    <3>2. \A k \in 1 .. 6, l \in 1 .. 7 : k + 1 <= l => Promised[k][2] < Promised[l][1]
      BY DEF Promised
    <3> QED
      BY <3>1, <3>2
  <2>3. /\ ExpectedReturn(i, x) \in Int /\ ExpectedReturn(i, x) <= Promised[i][2]
        /\ ExpectedReturn(j, y) \in Int /\ Promised[j][1] <= ExpectedReturn(j, y)
    BY <2>2, ReturnIn
  <2>4. \A k \in 1 .. 7 : Promised[k][1] \in Int /\ Promised[k][2] \in Int
    BY DEF Promised
  <2> QED
    BY <2>2, <2>3, <2>4
<1>3. {0, 1150, 1190, 1240, 1255, 1290, 3000} \subseteq Int
  OBVIOUS
<1> QED
  BY <1>1, <1>2, <1>3 DEF PromisesOrdered

\* Of any bonds, quotes and yields of the source, in any order of the scrapes,
\* the days and the recomputations: the table and the card never contradict
\* each other, a search leaves out only what stands behind enough other
\* matches, the curve takes the yield of the card, and the promises keep the
\* order of the strategies.
THEOREM PagesAlwaysAgree == DemoSpec => []DemoHolds
<1>1. PagesInv => DemoHolds
  BY TableAgrees, SearchAgrees, CurveAgrees, PromisesAgree DEF DemoHolds
<1> QED
  BY <1>1, PagesStart, PagesStep, PTL DEF DemoSpec
=============================================================================
