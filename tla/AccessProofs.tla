----------------------------- MODULE AccessProofs -----------------------------
(***************************************************************************)
(* Who is let in and how often, for every value of the constants: the      *)
(* request limiters of RequestBudgets and the accounts of Accounts.        *)
(***************************************************************************)
EXTENDS Accounts, RequestBudgets, FiniteSetTheorems, TLAPS

-----------------------------------------------------------------------------
(* RequestBudgets: the inductive invariant.                                *)

Accepted(c) == {j \in DOMAIN requests : requests[j].caller = c /\ requests[j].ok}
HitOf(j) == [at |-> requests[j].at, number |-> j]

BudgetTypeOK ==
  /\ limiter \in Limiters
  /\ tick \in 0 .. LastTick
  /\ requests \in Seq([caller : Callers, at : Nat, limit : Nat, ok : BOOLEAN])
  /\ \A j \in DOMAIN requests : requests[j].at =< tick
  /\ counter \in [Callers -> [Windows -> Nat]]
  /\ \A t \in forgotten : t \in Nat /\ t =< tick
  /\ limiter = "memory" => forgotten = {}

(* A table holds accepted requests only, each of them under its caller ... *)
HitsAreAccepted ==
  \A c \in Callers : \A h \in Times(hits, c) : \E j \in Accepted(c) : h = HitOf(j)

(* ... and all of them that are in the window, unless it was cleared.      *)
HitsAreAll ==
  limiter # "redis" =>
    \A c \in Callers : \A j \in Accepted(c) :
      \/ requests[j].at + RateWindow =< tick
      \/ HitOf(j) \in Times(hits, c)
      \/ \E t \in forgotten : requests[j].at =< t

(* Redis has counted at least what it accepted.                            *)
AcceptedIn(c, w) == {j \in Accepted(c) : requests[j].at \div RateWindow = w}
CounterCounts ==
  limiter = "redis" => \A c \in Callers : \A w \in Windows : Cardinality(AcceptedIn(c, w)) =< counter[c][w]

BudgetInv ==
  BudgetTypeOK /\ HitsAreAccepted /\ HitsAreAll /\ CounterCounts /\ BudgetsHold

-----------------------------------------------------------------------------

LEMMA BudgetInitInv == BudgetInit => BudgetInv
<1> SUFFICES ASSUME BudgetInit PROVE BudgetInv
  OBVIOUS
<1>1. BudgetTypeOK
  <2>1. counter \in [Callers -> [Windows -> Nat]]
    BY DEF BudgetInit
  <2>2. requests = << >> /\ tick = 0 /\ forgotten = {} /\ limiter \in Limiters
    BY DEF BudgetInit
  <2>3. QED
    BY <2>1, <2>2, BudgetAssumption DEF BudgetTypeOK
<1>2. \A c : Accepted(c) = {}
  BY DEF BudgetInit, Accepted
<1>3. \A c \in Callers : Times(hits, c) = {}
  BY DEF BudgetInit, Times
<1>4. HitsAreAccepted /\ HitsAreAll
  BY <1>2, <1>3 DEF HitsAreAccepted, HitsAreAll
<1>5. CounterCounts
  <2>1. \A c, w : AcceptedIn(c, w) = {}
    BY <1>2 DEF AcceptedIn
  <2>2. \A c \in Callers : \A w \in Windows : counter[c][w] = 0
    BY DEF BudgetInit
  <2>3. QED
    BY <2>1, <2>2, FS_EmptySet DEF CounterCounts
<1>6. BudgetsHold
  BY DEF BudgetInit, BudgetsHold
<1>7. QED
  BY <1>1, <1>4, <1>5, <1>6 DEF BudgetInv

(* Every hit stands for one request, so there are as many of them.         *)
LEMMA AsManyHits ==
  ASSUME NEW J, IsFiniteSet(J), NEW at
  PROVE  /\ IsFiniteSet({[at |-> at[j], number |-> j] : j \in J})
         /\ Cardinality({[at |-> at[j], number |-> j] : j \in J}) = Cardinality(J)
<1> DEFINE H == {[at |-> at[j], number |-> j] : j \in J}
           f == [j \in J |-> [at |-> at[j], number |-> j]]
<1>1. f \in [J -> H]
  OBVIOUS
<1>2. \A i, j \in J : f[i] = f[j] => i = j
  <2>1. \A j \in J : f[j].number = j
    OBVIOUS
  <2>2. QED
    BY <2>1
<1>3. \A h \in H : \E j \in J : f[j] = h
  OBVIOUS
<1> HIDE DEF f, H
<1>4. f \in Bijection(J, H)
  BY <1>1, <1>2, <1>3 DEF Bijection, Injection, Surjection, IsInjective
<1>5. ExistsBijection(J, H)
  BY <1>4 DEF ExistsBijection
<1>6. IsFiniteSet(H) /\ Cardinality(H) = Cardinality(J)
  BY <1>5, FS_Bijection
<1>7. QED
  BY <1>6 DEF H

LEMMA OfSequence == \A S : \A s \in Seq(S) : \A j \in DOMAIN s : s[j] \in S
OBVIOUS

(* What was said of the requests so far stands when one is added.          *)
LEMMA PastStands ==
  ASSUME BudgetInv, NEW q, requests' = Append(requests, q), limiter' = limiter,
         forgotten \subseteq forgotten', limiter = "memory" => forgotten' = {},
         NEW i \in DOMAIN requests
  PROVE  /\ requests'[i].ok => Cardinality(Spent(i)') < requests'[i].limit \/ Forgot(i)'
         /\ ~requests'[i].ok /\ limiter' # "redis" => Cardinality(Spent(i)') >= requests'[i].limit
         /\ limiter' = "memory" => ~Forgot(i)'
<1>1. requests \in Seq([caller : Callers, at : Nat, limit : Nat, ok : BOOLEAN]) /\ i \in 1 .. Len(requests)
  BY DEF BudgetInv, BudgetTypeOK
<1>2. \A j \in 1 .. Len(requests) : requests'[j] = requests[j]
  BY <1>1
<1>3. Spent(i)' = Spent(i)
  <2>1. \A j \in 1 .. i - 1 : j \in 1 .. Len(requests)
    BY <1>1
  <2>2. QED
    BY <1>1, <1>2, <2>1 DEF Spent
<1>4. Forgot(i) => Forgot(i)'
  BY <1>1, <1>2 DEF Forgot
<1>5. limiter = "memory" => ~Forgot(i)'
  BY DEF Forgot
<1>6. QED
  BY <1>1, <1>2, <1>3, <1>4, <1>5 DEF BudgetInv, BudgetsHold

LEMMA AnswerAdds ==
  ASSUME BudgetTypeOK, NEW c \in Callers, NEW limit \in Nat, NEW ok \in BOOLEAN, Answer(c, limit, ok)
  PROVE  /\ requests' = Append(requests, [caller |-> c, at |-> tick, limit |-> limit, ok |-> ok])
         /\ Len(requests) \in Nat /\ Len(requests') = Len(requests) + 1
         /\ DOMAIN requests = 1 .. Len(requests)
         /\ DOMAIN requests' = 1 .. Len(requests) + 1
         /\ \A j \in 1 .. Len(requests) : requests'[j] = requests[j]
         /\ requests'[Len(requests) + 1] = [caller |-> c, at |-> tick, limit |-> limit, ok |-> ok]
         /\ requests' \in Seq([caller : Callers, at : Nat, limit : Nat, ok : BOOLEAN])
         /\ \A j \in DOMAIN requests' : requests'[j].at =< tick
<1> DEFINE q == [caller |-> c, at |-> tick, limit |-> limit, ok |-> ok]
<1>1. /\ requests \in Seq([caller : Callers, at : Nat, limit : Nat, ok : BOOLEAN])
      /\ tick \in Nat /\ \A j \in DOMAIN requests : requests[j].at =< tick
  BY BudgetAssumption DEF BudgetTypeOK
<1>2. requests' = Append(requests, q)
  BY DEF Answer
<1>3. q \in [caller : Callers, at : Nat, limit : Nat, ok : BOOLEAN] /\ q.at = tick
  BY <1>1
<1> HIDE DEF q
<1>4. /\ Len(requests) \in Nat /\ Len(requests') = Len(requests) + 1
      /\ DOMAIN requests = 1 .. Len(requests)
      /\ DOMAIN requests' = 1 .. Len(requests) + 1
      /\ \A j \in 1 .. Len(requests) : requests'[j] = requests[j]
      /\ requests'[Len(requests) + 1] = q
      /\ requests' \in Seq([caller : Callers, at : Nat, limit : Nat, ok : BOOLEAN])
  BY <1>1, <1>2, <1>3
<1>5. ASSUME NEW j \in DOMAIN requests'
      PROVE  requests'[j].at =< tick
  <2>1. CASE j \in 1 .. Len(requests)
    BY <1>1, <1>4, <2>1
  <2>2. CASE j = Len(requests) + 1
    BY <1>1, <1>3, <1>4, <2>2
  <2>3. QED
    BY <1>4, <2>1, <2>2
<1>6. QED
  BY <1>2, <1>4, <1>5 DEF q

(* What the requests accepted from one caller become.                      *)
LEMMA AcceptedGrows ==
  ASSUME BudgetTypeOK, NEW c \in Callers, NEW limit \in Nat, NEW ok \in BOOLEAN, Answer(c, limit, ok),
         NEW d \in Callers, NEW n \in Nat, n = Len(requests) + 1
  PROVE  /\ Accepted(d)' = IF ok /\ d = c THEN Accepted(d) \cup {n} ELSE Accepted(d)
         /\ \A j \in Accepted(d) : HitOf(j)' = HitOf(j) /\ requests'[j].at = requests[j].at
         /\ HitOf(n)' = ThisRequest
         /\ requests'[n].at = tick
<1>1. /\ Len(requests) \in Nat /\ DOMAIN requests = 1 .. Len(requests)
      /\ DOMAIN requests' = 1 .. n
      /\ \A j \in 1 .. Len(requests) : requests'[j] = requests[j]
      /\ requests'[n] = [caller |-> c, at |-> tick, limit |-> limit, ok |-> ok]
  BY AnswerAdds
<1>2. /\ requests'[n].caller = c /\ requests'[n].at = tick
      /\ requests'[n].ok = ok
  BY <1>1
<1>3. DOMAIN requests' = DOMAIN requests \cup {n}
  BY <1>1
<1>4. ASSUME NEW j
      PROVE  j \in Accepted(d)' <=> j \in (IF ok /\ d = c THEN Accepted(d) \cup {n} ELSE Accepted(d))
  <2>1. j \in Accepted(d)' <=> j \in DOMAIN requests' /\ requests'[j].caller = d /\ requests'[j].ok
    BY DEF Accepted
  <2>2. j \in Accepted(d) <=> j \in DOMAIN requests /\ requests[j].caller = d /\ requests[j].ok
    BY DEF Accepted
  <2>3. CASE j \in DOMAIN requests
    BY <1>1, <2>1, <2>2, <2>3
  <2>4. CASE j = n
    BY <1>1, <1>2, <2>1, <2>2, <2>4
  <2>5. QED
    BY <1>3, <2>1, <2>2, <2>3, <2>4
<1>5. Accepted(d)' = IF ok /\ d = c THEN Accepted(d) \cup {n} ELSE Accepted(d)
  BY <1>4
<1>6. \A j \in Accepted(d) : HitOf(j)' = HitOf(j) /\ requests'[j].at = requests[j].at
  BY <1>1 DEF Accepted, HitOf
<1>7. HitOf(n)' = ThisRequest
  BY <1>2 DEF HitOf, ThisRequest
<1>8. QED
  BY <1>2, <1>5, <1>6, <1>7

(* A limiter that looks into its table counts what the window holds: all   *)
(* of it unless the table was cleared meanwhile.                           *)
LEMMA UsedIsSpent ==
  ASSUME BudgetInv, limiter # "redis", NEW c \in Callers, NEW limit \in Nat, NEW ok \in BOOLEAN,
         Answer(c, limit, ok), NEW T, T \subseteq Times(hits, c), limiter' = limiter,
         NEW lost \in BOOLEAN, NEW i \in Nat, i = Len(requests) + 1,
         lost \/ \A j \in Accepted(c) : \/ requests[j].at + RateWindow =< tick
                                        \/ HitOf(j) \in T
  PROVE  /\ Cardinality(InWindow(T)) \in Nat
         /\ Cardinality(Spent(i)') \in Nat
         /\ Cardinality(Spent(i)') >= Cardinality(InWindow(T))
         /\ ~lost => Cardinality(Spent(i)') = Cardinality(InWindow(T))
<1> DEFINE J == {j \in Accepted(c) : HitOf(j) \in InWindow(T)}
           at == [j \in J |-> requests[j].at]
<1>0. /\ Len(requests) \in Nat /\ DOMAIN requests = 1 .. Len(requests)
      /\ \A j \in 1 .. Len(requests) : requests'[j] = requests[j]
      /\ requests'[i] = [caller |-> c, at |-> tick, limit |-> limit, ok |-> ok]
  <2>1. BudgetTypeOK
    BY DEF BudgetInv
  <2>2. QED
    BY <2>1, AnswerAdds
<1>1. /\ Len(requests) \in Nat /\ DOMAIN requests = 1 .. Len(requests)
      /\ \A j \in 1 .. Len(requests) : requests'[j] = requests[j]
      /\ requests'[i].caller = c /\ requests'[i].at = tick
  BY <1>0
<1>2. J \subseteq 1 .. Len(requests) /\ IsFiniteSet(J)
  <2>1. J \subseteq 1 .. Len(requests)
    BY <1>1 DEF Accepted
  <2>2. IsFiniteSet(1 .. Len(requests))
    BY <1>1, FS_Interval
  <2>3. QED
    BY <2>1, <2>2, FS_Subset
<1>3. InWindow(T) = {[at |-> at[j], number |-> j] : j \in J}
  <2>1. \A j \in J : [at |-> at[j], number |-> j] = HitOf(j)
    BY DEF HitOf
  <2>2. \A h \in InWindow(T) : \E j \in J : h = HitOf(j)
    BY DEF BudgetInv, HitsAreAccepted, InWindow
  <2>3. \A j \in J : HitOf(j) \in InWindow(T)
    OBVIOUS
  <2> HIDE DEF J
  <2>4. QED
    BY <2>1, <2>2, <2>3
<1>4. Cardinality(InWindow(T)) = Cardinality(J) /\ Cardinality(J) \in Nat
  <2> HIDE DEF J, at
  <2>1. Cardinality({[at |-> at[j], number |-> j] : j \in J}) = Cardinality(J)
    BY <1>2, AsManyHits
  <2>2. QED
    BY <1>2, <1>3, <2>1, FS_CardinalityType
<1>5. Spent(i)' = {j \in 1 .. Len(requests) :
                     requests[j].caller = c /\ requests[j].ok /\ requests[j].at + RateWindow > tick}
  <2>1. 1 .. i - 1 = 1 .. Len(requests)
    BY <1>1
  <2>2. Spent(i)' = {j \in 1 .. i - 1 : requests'[j].caller = c /\ requests'[j].ok
                                        /\ requests'[j].at + RateWindow > tick}
    BY <1>1 DEF Spent
  <2>3. QED
    BY <1>1, <2>1, <2>2
<1>6. J \subseteq Spent(i)'
  <2>1. \A j \in J : requests[j].caller = c /\ requests[j].ok /\ requests[j].at + RateWindow > tick
    BY DEF Accepted, HitOf, InWindow
  <2>2. QED
    BY <1>2, <1>5, <2>1
<1>7. IsFiniteSet(Spent(i)')
  <2>1. IsFiniteSet(1 .. Len(requests)) /\ Spent(i)' \subseteq 1 .. Len(requests)
    BY <1>1, <1>5, FS_Interval
  <2>2. QED
    BY <2>1, FS_Subset
<1>8. Cardinality(Spent(i)') \in Nat /\ Cardinality(J) =< Cardinality(Spent(i)')
  BY <1>6, <1>7, FS_Subset, FS_CardinalityType
<1>9. ~lost => Spent(i)' = J
  <2>1. ASSUME ~lost, NEW j \in Spent(i)'
        PROVE  j \in J
    <3>0. requests[j].at \in Nat /\ tick \in Nat
      <4>1. j \in 1 .. Len(requests)
        BY <1>5, <2>1
      <4>2. requests \in Seq([caller : Callers, at : Nat, limit : Nat, ok : BOOLEAN]) /\ tick \in 0 .. LastTick
        BY DEF BudgetInv, BudgetTypeOK
      <4>3. requests[j] \in [caller : Callers, at : Nat, limit : Nat, ok : BOOLEAN]
        BY <1>1, <4>1, <4>2, OfSequence
      <4>4. QED
        BY <4>2, <4>3, BudgetAssumption
    <3>1. j \in Accepted(c) /\ requests[j].at + RateWindow > tick
      BY <1>1, <1>5, <2>1 DEF Accepted
    <3>2. HitOf(j) \in T
      BY <2>1, <3>0, <3>1, BudgetAssumption
    <3>3. QED
      BY <3>1, <3>2 DEF InWindow, HitOf
  <2>2. QED
    BY <1>6, <2>1
<1>10. QED
  BY <1>4, <1>8, <1>9

(* What cleaning leaves: nothing new, and all that is in the window unless *)
(* the whole table goes.                                                   *)
Cleared == Overfull /\ limiter # "memory"

LEMMA CleanedKeeps ==
  ASSUME NEW d
  PROVE  /\ Times(Cleaned, d) \subseteq Times(hits, d)
         /\ Cleared \/ InWindow(Times(hits, d)) \subseteq Times(Cleaned, d)
<1>1. CASE ~Overfull
  <2>1. Cleaned = hits
    BY <1>1 DEF Cleaned
  <2>2. QED
    BY <2>1 DEF InWindow
<1>2. CASE Overfull /\ limiter = "memory"
  <2>1. Cleaned = FreshOnly
    BY <1>2 DEF Cleaned
  <2>2. /\ DOMAIN FreshOnly = {e \in DOMAIN hits : InWindow(hits[e]) # {}}
        /\ \A e \in DOMAIN FreshOnly : FreshOnly[e] = hits[e]
    BY DEF FreshOnly, Tracked
  <2>3. CASE d \in DOMAIN FreshOnly
    BY <2>1, <2>2, <2>3 DEF Times, InWindow
  <2>4. CASE d \notin DOMAIN FreshOnly
    <3>1. Times(Cleaned, d) = {}
      BY <2>1, <2>4 DEF Times
    <3>2. InWindow(Times(hits, d)) = {}
      <4>1. CASE d \in DOMAIN hits
        BY <2>2, <2>4, <4>1 DEF Times
      <4>2. CASE d \notin DOMAIN hits
        BY <4>2 DEF Times, InWindow
      <4>3. QED
        BY <4>1, <4>2
    <3>3. QED
      BY <3>1, <3>2
  <2>5. QED
    BY <2>3, <2>4
<1>3. CASE Cleared
  <2>1. Cleaned = << >>
    BY <1>3 DEF Cleaned, Cleared
  <2>2. Times(Cleaned, d) = {}
    BY <2>1 DEF Times
  <2>3. QED
    BY <1>3, <2>2
<1>4. QED
  BY <1>1, <1>2, <1>3 DEF Cleared

LEMMA WithGives ==
  ASSUME NEW h, NEW c, NEW ts, NEW d
  PROVE  Times(With(h, c, ts), d) = IF d = c THEN ts ELSE Times(h, d)
BY DEF Times, With

LEMMA SlidingTable ==
  ASSUME NEW c, NEW limit, Sliding(c, limit), NEW d
  PROVE  LET used == InWindow(Times(Cleaned, c))
             ok == Cardinality(used) < limit
         IN /\ Times(hits', d) \subseteq Times(hits, d) \cup (IF ok /\ d = c THEN {ThisRequest} ELSE {})
            /\ Cleared \/ InWindow(Times(hits, d)) \subseteq Times(hits', d)
            /\ ok /\ d = c => ThisRequest \in Times(hits', d)
<1> DEFINE used == InWindow(Times(Cleaned, c))
           ok == Cardinality(used) < limit
<1>1. \/ ok /\ hits' = With(Cleaned, c, used \cup {ThisRequest})
      \/ ~ok /\ hits' = Cleaned
      \/ ~ok /\ hits' = With(Cleaned, c, used)
  BY DEF Sliding
<1>2. /\ Times(Cleaned, d) \subseteq Times(hits, d)
      /\ Cleared \/ InWindow(Times(hits, d)) \subseteq Times(Cleaned, d)
  BY CleanedKeeps
<1>3. /\ used \subseteq Times(Cleaned, c)
      /\ Cleared \/ d # c \/ InWindow(Times(hits, d)) \subseteq used
  BY <1>2 DEF InWindow
<1> HIDE DEF used
<1>4. CASE ok /\ hits' = With(Cleaned, c, used \cup {ThisRequest})
  <2>1. Times(hits', d) = IF d = c THEN used \cup {ThisRequest} ELSE Times(Cleaned, d)
    BY <1>4, WithGives
  <2>2. QED
    BY <1>2, <1>3, <1>4, <2>1 DEF used
<1>5. CASE ~ok /\ hits' = Cleaned
  BY <1>2, <1>5 DEF used
<1>6. CASE ~ok /\ hits' = With(Cleaned, c, used)
  <2>1. Times(hits', d) = IF d = c THEN used ELSE Times(Cleaned, d)
    BY <1>6, WithGives
  <2>2. QED
    BY <1>2, <1>3, <1>6, <2>1 DEF used
<1>7. QED
  BY <1>1, <1>4, <1>5, <1>6

LEMMA SlidingInv ==
  ASSUME BudgetInv, NEW c \in Callers, NEW limit \in Nat, Sliding(c, limit)
  PROVE  BudgetInv'
<1> DEFINE T == Times(Cleaned, c)
           used == InWindow(T)
           ok == Cardinality(used) < limit
           lost == Cleared \/ \E t \in forgotten : t + RateWindow > tick
<1>1. /\ limiter # "redis" /\ Answer(c, limit, ok) /\ UNCHANGED <<limiter, tick, counter>>
      /\ forgotten' = IF Cleared THEN forgotten \cup {tick} ELSE forgotten
      /\ ok \in BOOLEAN
  BY DEF Sliding, Cleared
<1>2. /\ BudgetTypeOK /\ tick \in Nat
      /\ requests \in Seq([caller : Callers, at : Nat, limit : Nat, ok : BOOLEAN])
      /\ \A j \in DOMAIN requests : requests[j].at \in Nat /\ requests[j].at =< tick
      /\ \A t \in forgotten : t \in Nat /\ t =< tick
  <2>1. BudgetTypeOK
    BY DEF BudgetInv
  <2>2. requests \in Seq([caller : Callers, at : Nat, limit : Nat, ok : BOOLEAN])
    BY <2>1 DEF BudgetTypeOK
  <2>3. ASSUME NEW j \in DOMAIN requests
        PROVE  requests[j].at \in Nat
    <3>1. requests[j] \in [caller : Callers, at : Nat, limit : Nat, ok : BOOLEAN]
      BY <2>2, OfSequence
    <3>2. QED
      BY <3>1
  <2>4. QED
    BY <2>1, <2>2, <2>3, BudgetAssumption DEF BudgetTypeOK
<1>3. PICK n \in Nat : n = Len(requests) + 1
  BY <1>2
<1>4. /\ requests' = Append(requests, [caller |-> c, at |-> tick, limit |-> limit, ok |-> ok])
      /\ DOMAIN requests = 1 .. Len(requests) /\ DOMAIN requests' = 1 .. n
      /\ requests'[n] = [caller |-> c, at |-> tick, limit |-> limit, ok |-> ok]
      /\ requests' \in Seq([caller : Callers, at : Nat, limit : Nat, ok : BOOLEAN])
      /\ \A j \in DOMAIN requests' : requests'[j].at =< tick
      /\ Len(requests) \in Nat
  <2> HIDE DEF ok
  <2>1. QED
    BY <1>1, <1>2, <1>3, AnswerAdds
<1>5. ASSUME NEW d \in Callers
      PROVE  /\ Times(hits', d) \subseteq Times(hits, d) \cup (IF ok /\ d = c THEN {ThisRequest} ELSE {})
             /\ Cleared \/ InWindow(Times(hits, d)) \subseteq Times(hits', d)
             /\ ok /\ d = c => ThisRequest \in Times(hits', d)
  BY SlidingTable
<1>6. ASSUME NEW d \in Callers
      PROVE  /\ Accepted(d)' = IF ok /\ d = c THEN Accepted(d) \cup {n} ELSE Accepted(d)
             /\ \A j \in Accepted(d) : HitOf(j)' = HitOf(j) /\ requests'[j].at = requests[j].at
             /\ HitOf(n)' = ThisRequest
             /\ requests'[n].at = tick
  <2> HIDE DEF ok
  <2>1. QED
    BY <1>1, <1>2, <1>3, AcceptedGrows
<1>7. BudgetTypeOK'
  <2>1. forgotten' = {} \/ limiter # "memory"
    BY <1>1 DEF BudgetInv, BudgetTypeOK, Cleared
  <2>2. \A t \in forgotten' : t \in Nat /\ t =< tick
    BY <1>1, <1>2
  <2>3. QED
    BY <1>1, <1>2, <1>4, <2>1, <2>2 DEF BudgetTypeOK
<1>8. HitsAreAccepted'
  <2>1. ASSUME NEW d \in Callers, NEW h \in Times(hits', d)
        PROVE  \E j \in Accepted(d)' : h = HitOf(j)'
    <3>1. CASE h \in Times(hits, d)
      <4>1. PICK j \in Accepted(d) : h = HitOf(j)
        BY <3>1 DEF BudgetInv, HitsAreAccepted
      <4>2. j \in Accepted(d)' /\ HitOf(j)' = HitOf(j)
        BY <1>6
      <4>3. QED
        BY <4>1, <4>2
    <3>2. CASE ok /\ d = c /\ h = ThisRequest
      BY <1>6, <3>2
    <3>3. QED
      BY <1>5, <2>1, <3>1, <3>2
  <2>2. QED
    BY <2>1 DEF HitsAreAccepted, Times
<1>9. HitsAreAll'
  <2>1. ASSUME NEW d \in Callers, NEW j \in Accepted(d)'
        PROVE  \/ requests'[j].at + RateWindow =< tick
               \/ HitOf(j)' \in Times(hits', d)
               \/ \E t \in forgotten' : requests'[j].at =< t
    <3>1. CASE j \in Accepted(d)
      <4>1. \/ requests[j].at + RateWindow =< tick
            \/ HitOf(j) \in Times(hits, d)
            \/ \E t \in forgotten : requests[j].at =< t
        BY <1>1, <3>1 DEF BudgetInv, HitsAreAll
      <4>2. HitOf(j)' = HitOf(j) /\ requests'[j].at = requests[j].at /\ forgotten \subseteq forgotten'
        BY <1>1, <1>6, <3>1
      <4>3. requests[j].at \in Nat /\ requests[j].at =< tick /\ HitOf(j).at = requests[j].at
        BY <1>2, <3>1 DEF Accepted, HitOf
      <4>4. CASE HitOf(j) \in Times(hits, d) /\ ~Cleared /\ requests[j].at + RateWindow > tick
        BY <1>5, <4>2, <4>3, <4>4 DEF InWindow
      <4>5. CASE Cleared
        BY <1>1, <4>2, <4>3, <4>5
      <4>6. QED
        BY <1>2, <4>1, <4>2, <4>3, <4>4, <4>5, BudgetAssumption
    <3>2. CASE ok /\ d = c /\ j = n
      BY <1>5, <1>6, <3>2
    <3>3. QED
      BY <1>6, <3>1, <3>2
  <2>2. QED
    BY <1>1, <2>1 DEF HitsAreAll, Times
<1>10. CounterCounts'
  BY <1>1 DEF CounterCounts
<1>11. BudgetsHold'
  <2>1. ASSUME NEW i \in DOMAIN requests
        PROVE  /\ requests'[i].ok => Cardinality(Spent(i)') < requests'[i].limit \/ Forgot(i)'
               /\ ~requests'[i].ok /\ limiter' # "redis" => Cardinality(Spent(i)') >= requests'[i].limit
               /\ limiter' = "memory" => ~Forgot(i)'
    <3>1. forgotten \subseteq forgotten' /\ (limiter = "memory" => forgotten' = {})
      BY <1>1, <1>7 DEF BudgetTypeOK
    <3>2. QED
      BY <1>1, <1>4, <3>1, PastStands
  <2>2. requests'[n].ok = ok /\ requests'[n].at = tick /\ requests'[n].limit = limit
    BY <1>4
  <2>3. /\ Cardinality(used) \in Nat
        /\ Cardinality(Spent(n)') \in Nat
        /\ Cardinality(Spent(n)') >= Cardinality(used)
        /\ ~lost => Cardinality(Spent(n)') = Cardinality(used)
    <3>1. T \subseteq Times(hits, c)
      BY CleanedKeeps
    <3>2. ASSUME ~lost, NEW j \in Accepted(c), requests[j].at + RateWindow > tick
          PROVE  HitOf(j) \in T
      <4>1. requests[j].at \in Nat /\ HitOf(j).at = requests[j].at
        BY <1>2 DEF Accepted, HitOf
      <4>2. ~\E t \in forgotten : requests[j].at =< t
        BY <1>2, <3>2, <4>1, BudgetAssumption
      <4>3. HitOf(j) \in Times(hits, c)
        <5>1. \/ requests[j].at + RateWindow =< tick
              \/ HitOf(j) \in Times(hits, c)
              \/ \E t \in forgotten : requests[j].at =< t
          BY <1>1, <3>2 DEF BudgetInv, HitsAreAll
        <5>2. QED
          BY <1>2, <3>2, <4>1, <4>2, <5>1, BudgetAssumption
      <4>4. QED
        BY <3>2, <4>1, <4>3, CleanedKeeps DEF InWindow
    <3>3. lost \/ \A j \in Accepted(c) : requests[j].at + RateWindow =< tick \/ HitOf(j) \in T
      <4>1. \A j \in Accepted(c) : requests[j].at \in Nat
        BY <1>2 DEF Accepted
      <4>2. QED
        BY <1>2, <3>2, <4>1, BudgetAssumption
    <3>4. lost \in BOOLEAN
      BY DEF Cleared
    <3> HIDE DEF lost, T, ok
    <3>5. QED
      BY <1>1, <1>3, <3>1, <3>3, <3>4, UsedIsSpent
  <2>4. lost => Forgot(n)'
    <3>1. CASE Cleared
      <4>1. tick \in forgotten'
        BY <1>1, <3>1
      <4>2. tick =< requests'[n].at /\ tick + RateWindow > requests'[n].at
        BY <1>2, <2>2, BudgetAssumption
      <4>3. QED
        BY <4>1, <4>2 DEF Forgot
    <3>2. CASE \E t \in forgotten : t + RateWindow > tick
      BY <1>1, <1>2, <2>2, <3>2 DEF Forgot
    <3>3. QED
      BY <3>1, <3>2
  <2>5. limiter = "memory" => ~Forgot(n)'
    BY <1>1, <1>7 DEF BudgetTypeOK, Forgot
  <2>6. /\ requests'[n].ok => Cardinality(Spent(n)') < requests'[n].limit \/ Forgot(n)'
        /\ ~requests'[n].ok /\ limiter' # "redis" => Cardinality(Spent(n)') >= requests'[n].limit
        /\ limiter' = "memory" => ~Forgot(n)'
    <3>1. ok \/ Cardinality(Spent(n)') >= limit
      <4> HIDE DEF used
      <4>1. QED
        BY <2>3
    <3>2. ~ok \/ Cardinality(Spent(n)') < limit \/ Forgot(n)'
      <4> HIDE DEF used, lost
      <4>1. QED
        BY <2>3, <2>4
    <3> HIDE DEF ok
    <3>3. QED
      BY <1>1, <2>2, <2>5, <3>1, <3>2
  <2>7. DOMAIN requests' = DOMAIN requests \cup {n}
    BY <1>3, <1>4
  <2>8. QED
    BY <2>1, <2>6, <2>7 DEF BudgetsHold
<1>12. QED
  BY <1>7, <1>8, <1>9, <1>10, <1>11 DEF BudgetInv

LEMMA WindowsReach ==
  ASSUME NEW t \in 0 .. LastTick
  PROVE  t \div RateWindow \in Windows
<1>1. ASSUME NEW a \in Nat, NEW b \in Nat, a =< b, NEW w \in Nat \ {0}
      PROVE  a \div w \in 0 .. b \div w
  <2>1. a \div w \in Nat /\ b \div w \in Nat
    BY <1>1
  <2>2. a \div w =< b \div w
    BY <1>1, Z3
  <2>3. QED
    BY <2>1, <2>2
<1>2. QED
  BY <1>1, BudgetAssumption DEF Windows

(* INCR counts every request, and those accepted are among them.           *)
LEMMA FixedInv ==
  ASSUME BudgetInv, NEW c \in Callers, NEW limit \in Nat, Fixed(c, limit)
  PROVE  BudgetInv'
<1>1. PICK w \in Windows : w = tick \div RateWindow
  BY WindowsReach DEF BudgetInv, BudgetTypeOK
<1>2. PICK ok \in BOOLEAN :
        /\ Answer(c, limit, ok)
        /\ \/ counter' = [counter EXCEPT ![c][w] = counter[c][w] + 1]
           \/ counter' = counter /\ ~ok
        /\ ok => counter[c][w] + 1 =< limit
  <2>1. \/ /\ counter' = [counter EXCEPT ![c][w] = counter[c][w] + 1]
           /\ Answer(c, limit, counter[c][w] + 1 =< limit)
        \/ counter' = counter /\ Answer(c, limit, FALSE)
    BY <1>1 DEF Fixed
  <2>2. CASE counter[c][w] + 1 =< limit
    <3>1. (counter[c][w] + 1 =< limit) = TRUE
      BY <2>2
    <3>2. \/ counter' = [counter EXCEPT ![c][w] = counter[c][w] + 1] /\ Answer(c, limit, TRUE)
          \/ counter' = counter /\ Answer(c, limit, FALSE)
      BY <2>1, <3>1
    <3>3. QED
      BY <2>2, <3>2
  <2>3. CASE ~(counter[c][w] + 1 =< limit)
    <3>1. (counter[c][w] + 1 =< limit) = FALSE
      BY <2>3
    <3>2. Answer(c, limit, FALSE) /\ (counter' = [counter EXCEPT ![c][w] = counter[c][w] + 1] \/ counter' = counter)
      BY <2>1, <3>1
    <3>3. QED
      BY <3>2
  <2>4. QED
    BY <2>2, <2>3
<1>3. limiter = "redis" /\ UNCHANGED <<limiter, tick, hits, forgotten>>
  BY DEF Fixed
<1>4. /\ BudgetTypeOK /\ tick \in Nat
      /\ requests \in Seq([caller : Callers, at : Nat, limit : Nat, ok : BOOLEAN])
      /\ counter \in [Callers -> [Windows -> Nat]]
  BY BudgetAssumption DEF BudgetInv, BudgetTypeOK
<1>5. PICK n \in Nat : n = Len(requests) + 1
  BY <1>4
<1>6. /\ requests' = Append(requests, [caller |-> c, at |-> tick, limit |-> limit, ok |-> ok])
      /\ DOMAIN requests = 1 .. Len(requests) /\ DOMAIN requests' = 1 .. n
      /\ \A j \in 1 .. Len(requests) : requests'[j] = requests[j]
      /\ requests'[n] = [caller |-> c, at |-> tick, limit |-> limit, ok |-> ok]
      /\ requests' \in Seq([caller : Callers, at : Nat, limit : Nat, ok : BOOLEAN])
      /\ \A j \in DOMAIN requests' : requests'[j].at =< tick
      /\ Len(requests) \in Nat
  BY <1>2, <1>4, <1>5, AnswerAdds
<1>7. ASSUME NEW d \in Callers
      PROVE  /\ Accepted(d)' = IF ok /\ d = c THEN Accepted(d) \cup {n} ELSE Accepted(d)
             /\ \A j \in Accepted(d) : HitOf(j)' = HitOf(j) /\ requests'[j].at = requests[j].at
             /\ requests'[n].at = tick
  BY <1>2, <1>4, <1>5, AcceptedGrows
<1>8. /\ counter' \in [Callers -> [Windows -> Nat]]
      /\ \A d \in Callers : \A v \in Windows : counter'[d][v] >= counter[d][v]
      /\ ok => counter'[c][w] = counter[c][w] + 1 /\ counter[c][w] < limit
  <2>1. CASE counter' = counter /\ ~ok
    BY <1>4, <2>1
  <2>2. CASE counter' = [counter EXCEPT ![c][w] = counter[c][w] + 1]
    <3>1. counter' \in [Callers -> [Windows -> Nat]]
      BY <1>4, <2>2
    <3>2. \A d \in Callers : \A v \in Windows :
            counter'[d][v] = IF d = c /\ v = w THEN counter[d][v] + 1 ELSE counter[d][v]
      BY <1>4, <2>2
    <3>3. \A d \in Callers : \A v \in Windows : counter[d][v] \in Nat
      BY <1>4
    <3>4. QED
      BY <1>2, <3>1, <3>2, <3>3
  <2>3. QED
    BY <1>2, <2>1, <2>2
<1>9. BudgetTypeOK'
  BY <1>3, <1>4, <1>6, <1>8 DEF BudgetTypeOK
<1>10. HitsAreAccepted' /\ HitsAreAll'
  <2>1. ASSUME NEW d \in Callers, NEW h \in Times(hits, d)
        PROVE  \E j \in Accepted(d)' : h = HitOf(j)'
    <3>1. PICK j \in Accepted(d) : h = HitOf(j)
      BY DEF BudgetInv, HitsAreAccepted
    <3>2. QED
      BY <1>7, <3>1
  <2>2. QED
    BY <1>3, <2>1 DEF HitsAreAccepted, HitsAreAll, Times
<1>11. \A d \in Callers : \A v \in Windows :
         IsFiniteSet(AcceptedIn(d, v)) /\ Cardinality(AcceptedIn(d, v)) \in Nat /\ n \notin AcceptedIn(d, v)
  <2>1. ASSUME NEW d \in Callers, NEW v \in Windows
        PROVE  AcceptedIn(d, v) \subseteq 1 .. Len(requests)
    BY <1>6 DEF AcceptedIn, Accepted
  <2>2. IsFiniteSet(1 .. Len(requests)) /\ n \notin 1 .. Len(requests)
    BY <1>5, <1>6, FS_Interval
  <2>3. QED
    BY <2>1, <2>2, FS_Subset, FS_CardinalityType
<1>12. CounterCounts'
  <2>1. ASSUME NEW d \in Callers, NEW v \in Windows
        PROVE  Cardinality(AcceptedIn(d, v)') =< counter'[d][v]
    <3>1. Cardinality(AcceptedIn(d, v)) =< counter[d][v]
      BY <1>3 DEF BudgetInv, CounterCounts
    <3>2. CASE ok /\ d = c /\ v = w
      <4>1. AcceptedIn(d, v)' = AcceptedIn(d, v) \cup {n}
        BY <1>1, <1>3, <1>7, <3>2 DEF AcceptedIn
      <4>2. Cardinality(AcceptedIn(d, v) \cup {n}) = Cardinality(AcceptedIn(d, v)) + 1
        BY <1>11, FS_AddElement
      <4>3. QED
        BY <1>4, <1>8, <1>11, <3>1, <3>2, <4>1, <4>2
    <3>3. CASE ~(ok /\ d = c /\ v = w)
      <4>1. AcceptedIn(d, v)' = AcceptedIn(d, v)
        BY <1>1, <1>3, <1>7, <3>3 DEF AcceptedIn
      <4>2. counter[d][v] \in Nat /\ counter'[d][v] \in Nat
        BY <1>4, <1>8
      <4>3. QED
        BY <1>8, <1>11, <3>1, <4>1, <4>2
    <3>4. QED
      BY <3>2, <3>3
  <2>2. QED
    BY <2>1 DEF CounterCounts, AcceptedIn
<1>13. BudgetsHold'
  <2>1. ASSUME NEW i \in DOMAIN requests
        PROVE  /\ requests'[i].ok => Cardinality(Spent(i)') < requests'[i].limit \/ Forgot(i)'
               /\ ~requests'[i].ok /\ limiter' # "redis" => Cardinality(Spent(i)') >= requests'[i].limit
               /\ limiter' = "memory" => ~Forgot(i)'
    BY <1>3, <1>6, PastStands
  <2>2. /\ requests'[n].ok = ok /\ requests'[n].at = tick /\ requests'[n].limit = limit
        /\ requests'[n].caller = c
    BY <1>6
  <2>3. Spent(n)' = AcceptedIn(c, w)
    <3>1. 1 .. n - 1 = 1 .. Len(requests)
      BY <1>5, <1>6
    <3>2. Spent(n)' = {j \in 1 .. n - 1 : requests'[j].caller = c /\ requests'[j].ok
                                          /\ requests'[j].at \div RateWindow = w}
      BY <1>1, <1>3, <2>2 DEF Spent
    <3>3. AcceptedIn(c, w) = {j \in 1 .. Len(requests) : requests[j].caller = c /\ requests[j].ok
                                                         /\ requests[j].at \div RateWindow = w}
      BY <1>6 DEF AcceptedIn, Accepted
    <3>4. QED
      BY <1>6, <3>1, <3>2, <3>3
  <2>4. ok => Cardinality(Spent(n)') < limit
    <3>1. Cardinality(AcceptedIn(c, w)) =< counter[c][w] /\ counter[c][w] \in Nat
      BY <1>3, <1>4 DEF BudgetInv, CounterCounts
    <3>2. QED
      BY <1>8, <1>11, <2>3, <3>1
  <2>5. DOMAIN requests' = DOMAIN requests \cup {n}
    BY <1>5, <1>6
  <2>6. /\ requests'[n].ok => Cardinality(Spent(n)') < requests'[n].limit \/ Forgot(n)'
        /\ ~requests'[n].ok /\ limiter' # "redis" => Cardinality(Spent(n)') >= requests'[n].limit
        /\ limiter' = "memory" => ~Forgot(n)'
    BY <1>3, <2>2, <2>4
  <2>7. QED
    BY <2>1, <2>5, <2>6 DEF BudgetsHold
<1>14. QED
  BY <1>9, <1>10, <1>12, <1>13 DEF BudgetInv

LEMMA TickOnInv ==
  ASSUME BudgetInv, TickOn \/ UNCHANGED budgetVars
  PROVE  BudgetInv'
<1>1. /\ UNCHANGED <<limiter, hits, counter, requests, forgotten>>
      /\ tick \in Nat /\ tick' \in 0 .. LastTick /\ tick' >= tick
  BY BudgetAssumption DEF TickOn, budgetVars, BudgetInv, BudgetTypeOK
<1>2. \A j \in DOMAIN requests : requests[j].at \in Nat /\ requests[j].at =< tick
  <2>1. ASSUME NEW j \in DOMAIN requests
        PROVE  requests[j].at \in Nat
    <3>1. requests \in Seq([caller : Callers, at : Nat, limit : Nat, ok : BOOLEAN])
      BY DEF BudgetInv, BudgetTypeOK
    <3>2. requests[j] \in [caller : Callers, at : Nat, limit : Nat, ok : BOOLEAN]
      BY <3>1, OfSequence
    <3>3. QED
      BY <3>2
  <2>2. QED
    BY <2>1 DEF BudgetInv, BudgetTypeOK
<1>3. BudgetTypeOK'
  <2>1. BudgetTypeOK
    BY DEF BudgetInv
  <2>2. \A t \in forgotten : t \in Nat /\ t =< tick'
    BY <1>1, <2>1 DEF BudgetTypeOK
  <2>3. \A j \in DOMAIN requests : requests[j].at =< tick'
    BY <1>1, <1>2
  <2>4. QED
    BY <1>1, <2>1, <2>2, <2>3 DEF BudgetTypeOK, Windows
<1>4. HitsAreAccepted'
  BY <1>1 DEF BudgetInv, HitsAreAccepted, Times, Accepted, HitOf
<1>5. HitsAreAll'
  <2>1. ASSUME limiter # "redis", NEW d \in Callers, NEW j \in Accepted(d)
        PROVE  \/ requests[j].at + RateWindow =< tick'
               \/ HitOf(j) \in Times(hits, d)
               \/ \E t \in forgotten : requests[j].at =< t
    <3>1. \/ requests[j].at + RateWindow =< tick
          \/ HitOf(j) \in Times(hits, d)
          \/ \E t \in forgotten : requests[j].at =< t
      BY <2>1 DEF BudgetInv, HitsAreAll
    <3>2. requests[j].at \in Nat
      BY <1>2 DEF Accepted
    <3>3. QED
      BY <1>1, <3>1, <3>2, BudgetAssumption
  <2>2. QED
    BY <1>1, <2>1 DEF HitsAreAll, Times, Accepted, HitOf
<1>6. CounterCounts'
  BY <1>1 DEF BudgetInv, CounterCounts, AcceptedIn, Accepted
<1>7. BudgetsHold'
  <2>1. ASSUME NEW i \in DOMAIN requests
        PROVE  Spent(i)' = Spent(i) /\ Forgot(i)' = Forgot(i)
    BY <1>1 DEF Spent, Forgot
  <2>2. QED
    BY <1>1, <2>1 DEF BudgetInv, BudgetsHold
<1>8. QED
  BY <1>3, <1>4, <1>5, <1>6, <1>7 DEF BudgetInv

LEMMA BudgetStepInv == BudgetInv /\ [BudgetNext]_budgetVars => BudgetInv'
<1> SUFFICES ASSUME BudgetInv, [BudgetNext]_budgetVars PROVE BudgetInv'
  OBVIOUS
<1>1. CASE TickOn \/ UNCHANGED budgetVars
  BY <1>1, TickOnInv
<1>2. ASSUME NEW c \in Callers, NEW limit \in LimitsNow, Sliding(c, limit) \/ Fixed(c, limit)
      PROVE  BudgetInv'
  <2>1. limit \in Nat
    BY BudgetAssumption DEF LimitsNow
  <2>2. QED
    BY <1>2, <2>1, SlidingInv, FixedInv
<1>3. QED
  BY <1>1, <1>2 DEF BudgetNext

(* The four limiters, for any callers, tiers, limits, window and size of a *)
(* table: nobody is served beyond the budget of his tier unless a table    *)
(* was cleared, the limiter in memory never forgets, and whoever is        *)
(* refused by a sliding window has spent his budget.                       *)
THEOREM BudgetsAreKept == BudgetSpec => []BudgetsHold
<1>1. BudgetInv => BudgetsHold
  BY DEF BudgetInv
<1>2. QED
  BY <1>1, BudgetInitInv, BudgetStepInv, PTL DEF BudgetSpec

-----------------------------------------------------------------------------
(* Accounts: the inductive invariant.                                      *)

Ids == GoogleIds \cup {"none"}
Codes == Emails \cup {NoEmail}
Rows == [there : BOOLEAN, password : Nat, google : Ids, active : BOOLEAN,
         reset : Nat, trial : Nat, referrer : Codes]
VisitSet == [pc : {"away", "create", "referrer", "byEmail", "link", "store", "reset"},
             kind : {"none", "register", "telegram", "google", "forgot", "reset"},
             email : Codes, google : Ids, token : Nat, referrer : Codes, seen : Nat, number : Nat]

AccountsTypeOK ==
  /\ user \in [Emails -> Rows]
  /\ visitor \in [Visitors -> VisitSet]
  /\ \A v \in Visitors : Visiting(v) => visitor[v].email \in Emails
  /\ \A v \in Visitors : visitor[v].pc = "byEmail" => visitor[v].referrer = NoEmail
  /\ tokens \in Nat /\ visits \in Nat
  /\ \A m \in mailed : m.email \in Emails /\ m.token \in Nat

(* Requests in progress meet, and none of them is over before one that has *)
(* written began.                                                          *)
VisitsInOrder ==
  /\ \A v \in Visitors : Visiting(v) => visitor[v].number =< visits
  /\ \A v, w \in Visitors : Visiting(v) /\ Visiting(w) => Met(visitor[v].number, visitor[w].number)
  /\ \A n \in stored \cup resets :
       /\ n.visit \in Nat /\ n.visit =< visits
       /\ \A v \in Visitors : Visiting(v) => ~Before(visitor[v].number, n.visit)

(* A token is stored once, for one account, and only one that is stored is *)
(* in a row, in a mail or presented.                                       *)
StoredFor(token, e) == \E n \in stored : n.token = token /\ n.email = e

TokensStored ==
  /\ \A n \in stored : n.token \in 1 .. tokens
  /\ \A o, n \in stored : o.token = n.token => o = n
  /\ \A v \in Visitors : visitor[v].pc = "store" =>
       /\ visitor[v].token \in 1 .. tokens
       /\ \A n \in stored : n.token # visitor[v].token
       /\ \A w \in Visitors \ {v} : visitor[w].pc = "store" => visitor[w].token # visitor[v].token
  /\ \A e \in Emails : user[e].reset # 0 => StoredFor(user[e].reset, e)
  /\ \A m \in mailed : StoredFor(m.token, m.email)
  /\ \A v \in Visitors : visitor[v].pc = "reset" => StoredFor(visitor[v].token, visitor[v].email)

(* The token of a row was overtaken by none; a request that presents one   *)
(* began before it was.                                                    *)
Overtakes(n, o) == n.email = o.email /\ Before(o.visit, n.visit)

RowsLatest ==
  \A e \in Emails : user[e].reset # 0 =>
    \A o, n \in stored : o.token = user[e].reset => ~Overtakes(n, o)

PresentedInTime ==
  \A v \in Visitors : visitor[v].pc = "reset" =>
    \A o, n \in stored : o.token = visitor[v].token /\ Overtakes(n, o) => ~Before(n.visit, visitor[v].number)

ResetsInTime ==
  \A r \in resets : \A o, n \in stored : o.token = r.token /\ Overtakes(n, o) => ~Before(n.visit, r.visit)

(* A token that was used is in no row, and who still presents it was there *)
(* when it was used.                                                       *)
UsedUp ==
  \A r \in resets :
    /\ \E n \in stored : n.token = r.token
    /\ \A e \in Emails : user[e].reset # r.token
    /\ \A v \in Visitors : visitor[v].pc = "reset" /\ visitor[v].token = r.token => Met(r.visit, visitor[v].number)

UsedOnce == \A r, s \in resets : r.token = s.token => Met(r.visit, s.visit)

TokensInv ==
  /\ VisitsInOrder /\ TokensStored /\ RowsLatest /\ PresentedInTime /\ ResetsInTime
  /\ UsedUp /\ UsedOnce

GoogleOnce == \A e, f \in Emails : user[e].google = user[f].google /\ user[e].google # "none" => e = f

EntriesOpen == \A n \in entries : n.active \/ n.by = "google"

(* A trial is paid for by the accounts it brought, and so is what a        *)
(* request that brings another has read of it.                             *)
Earned(e) == FirstTrial + ReferralDays * Cardinality(Invited(e))

TrialsEarned ==
  /\ \A e \in Emails : user[e].trial =< Earned(e)
  /\ \A v \in Visitors : visitor[v].pc = "create" /\ visitor[v].referrer # NoEmail =>
       user[visitor[v].referrer].there /\ visitor[v].seen =< Earned(visitor[v].referrer)

AccountsInv == AccountsTypeOK /\ TokensInv /\ GoogleOnce /\ EntriesOpen /\ TrialsEarned

LEMMA MetGrows ==
  ASSUME meetings \subseteq meetings', NEW i, NEW j
  PROVE  (Met(i, j) => Met(i, j)') /\ (Before(i, j)' => Before(i, j))
BY DEF Met, Before

(* A request comes and meets those in progress.                            *)
LEMMA ComesInOrder ==
  ASSUME AccountsTypeOK, VisitsInOrder, NEW v \in Visitors, NEW to \in VisitSet, Comes(v, to),
         UNCHANGED <<stored, resets>>
  PROVE  VisitsInOrder' /\ meetings \subseteq meetings'
<1>1. /\ DOMAIN visitor = Visitors /\ visits \in Nat /\ visits' = visits + 1
      /\ \A w \in Visitors : visitor[w].number \in Nat
  BY DEF AccountsTypeOK, VisitSet, Comes
<1>2. /\ visitor'[v].number = visits'
      /\ \A w \in Visitors \ {v} : visitor'[w] = visitor[w]
  BY <1>1 DEF Comes, VisitSet
<1>3. /\ meetings \subseteq meetings'
      /\ \A w \in Visitors : Visiting(w) => <<visitor[w].number, visits'>> \in meetings'
  BY DEF Comes
<1>4. \A w \in Visitors : Visiting(w)' => visitor'[w].number =< visits'
  BY <1>1, <1>2 DEF VisitsInOrder, Visiting
<1>5. ASSUME NEW x \in Visitors, NEW w \in Visitors, Visiting(x)', Visiting(w)'
      PROVE  Met(visitor[x].number, visitor[w].number)'
  <2>1. CASE x # v /\ w # v
    <3>1. Met(visitor[x].number, visitor[w].number)
      BY <1>2, <1>5, <2>1 DEF VisitsInOrder, Visiting
    <3>2. QED
      BY <1>2, <1>3, <2>1, <3>1 DEF Met
  <2>2. CASE x = v /\ w = v
    BY <2>2 DEF Met
  <2>3. CASE x = v /\ w # v
    BY <1>2, <1>3, <1>5, <2>3 DEF Met, Visiting
  <2>4. CASE x # v /\ w = v
    BY <1>2, <1>3, <1>5, <2>4 DEF Met, Visiting
  <2>5. QED
    BY <2>1, <2>2, <2>3, <2>4
<1>6. ASSUME NEW n \in stored \cup resets
      PROVE  /\ n.visit \in Nat /\ n.visit =< visits'
             /\ \A w \in Visitors : Visiting(w)' => ~Before(visitor'[w].number, n.visit)
  <2>1. n.visit \in Nat /\ n.visit =< visits
    BY DEF VisitsInOrder
  <2>2. ~Before(visitor'[v].number, n.visit)
    BY <1>1, <1>2, <2>1 DEF Before
  <2>3. \A w \in Visitors \ {v} : Visiting(w)' => ~Before(visitor[w].number, n.visit)
    BY <1>2 DEF VisitsInOrder, Visiting
  <2>4. QED
    BY <1>1, <1>2, <2>1, <2>2, <2>3
<1>7. \A n \in stored' \cup resets' :
        /\ n.visit \in Nat /\ n.visit =< visits'
        /\ \A w \in Visitors : Visiting(w)' => ~Before(visitor[w].number, n.visit)'
  BY <1>3, <1>6 DEF Before, Met
<1>8. QED
  BY <1>3, <1>4, <1>5, <1>7 DEF VisitsInOrder

(* A request goes on or leaves, and may have written.                      *)
LEMMA GoesOnInOrder ==
  ASSUME AccountsTypeOK, VisitsInOrder, NEW v \in Visitors, Visiting(v), NEW to, VisitGoesOn(v, to),
         to.pc = "away" \/ to.number = visitor[v].number,
         \A n \in stored' \cup resets' : n \in stored \cup resets \/ n.visit = visitor[v].number
  PROVE  VisitsInOrder' /\ meetings \subseteq meetings'
<1>1. /\ visitor'[v] = to /\ \A w \in Visitors \ {v} : visitor'[w] = visitor[w]
      /\ UNCHANGED <<visits, meetings>>
      /\ \A w \in Visitors : visitor[w].number \in Nat
  BY DEF AccountsTypeOK, VisitSet, VisitGoesOn
<1>2. \A w \in Visitors : Visiting(w)' => Visiting(w) /\ visitor'[w].number = visitor[w].number
  BY <1>1 DEF Visiting
<1>3. \A n \in stored' \cup resets' :
        /\ n.visit \in Nat /\ n.visit =< visits
        /\ \A w \in Visitors : Visiting(w) => ~Before(visitor[w].number, n.visit)
  BY <1>1 DEF VisitsInOrder, Before
<1>4. QED
  BY <1>1, <1>2, <1>3 DEF VisitsInOrder, Before, Met

(* No token changes hands; a request that comes may bring one.             *)
LEMMA TokensQuiet ==
  ASSUME AccountsTypeOK, TokensInv, VisitsInOrder', meetings \subseteq meetings',
         UNCHANGED <<stored, resets>>, mailed' \subseteq mailed, tokens' \in Nat, tokens' >= tokens,
         \A e \in Emails : user'[e].reset \in {0, user[e].reset},
         NEW v, \A w \in Visitors \ {v} : visitor'[w] = visitor[w],
         v \in Visitors /\ visitor'[v].pc = "store" =>
           /\ visitor'[v].token \in 1 .. tokens'
           /\ \A n \in stored : n.token # visitor'[v].token
           /\ \A w \in Visitors \ {v} : visitor[w].pc = "store" => visitor[w].token # visitor'[v].token,
         v \in Visitors /\ visitor'[v].pc = "reset" =>
           /\ StoredFor(visitor'[v].token, visitor'[v].email)
           /\ \A o, n \in stored : o.token = visitor'[v].token /\ Overtakes(n, o) =>
                ~Before(n.visit, visitor'[v].number)
           /\ \A r \in resets : r.token = visitor'[v].token => Met(r.visit, visitor'[v].number)
  PROVE  TokensInv'
<1>1. \A i, j : (Met(i, j) => Met(i, j)') /\ (Before(i, j)' => Before(i, j))
  BY MetGrows
<1>2. \A o, n : Overtakes(n, o)' => Overtakes(n, o)
  BY <1>1 DEF Overtakes
<1>3. \A token, e : StoredFor(token, e)' <=> StoredFor(token, e)
  BY DEF StoredFor
<1>4. TokensStored'
  <2>1. \A n \in stored' : n.token \in 1 .. tokens'
    BY DEF AccountsTypeOK, TokensInv, TokensStored
  <2>2. \A o, n \in stored' : o.token = n.token => o = n
    BY DEF TokensInv, TokensStored
  <2>3. ASSUME NEW w \in Visitors, visitor'[w].pc = "store"
        PROVE  /\ visitor'[w].token \in 1 .. tokens'
               /\ \A n \in stored' : n.token # visitor'[w].token
               /\ \A x \in Visitors \ {w} : visitor'[x].pc = "store" => visitor'[x].token # visitor'[w].token
    <3>1. CASE w = v
      BY <2>3, <3>1
    <3>2. CASE w # v
      BY <2>3, <3>2 DEF AccountsTypeOK, TokensInv, TokensStored
    <3>3. QED
      BY <3>1, <3>2
  <2>4. \A e \in Emails : user'[e].reset # 0 => StoredFor(user[e].reset, e)'
    BY <1>3 DEF TokensInv, TokensStored
  <2>5. \A m \in mailed' : StoredFor(m.token, m.email)'
    BY <1>3 DEF TokensInv, TokensStored
  <2>6. \A w \in Visitors : visitor'[w].pc = "reset" => StoredFor(visitor[w].token, visitor[w].email)'
    BY <1>3 DEF TokensInv, TokensStored
  <2>7. QED
    BY <2>1, <2>2, <2>3, <2>4, <2>5, <2>6 DEF TokensStored
<1>5. RowsLatest'
  BY <1>2 DEF TokensInv, RowsLatest
<1>6. PresentedInTime'
  <2>1. ASSUME NEW w \in Visitors, visitor'[w].pc = "reset", NEW o \in stored, NEW n \in stored,
               o.token = visitor'[w].token, Overtakes(n, o)
        PROVE  ~Before(n.visit, visitor'[w].number)
    BY <2>1 DEF TokensInv, PresentedInTime
  <2>2. QED
    BY <1>1, <1>2, <2>1 DEF PresentedInTime
<1>7. ResetsInTime'
  BY <1>1, <1>2 DEF TokensInv, ResetsInTime
<1>8. UsedUp'
  <2>1. ASSUME NEW r \in resets
        PROVE  /\ \E n \in stored : n.token = r.token
               /\ \A e \in Emails : user'[e].reset # r.token
               /\ \A w \in Visitors : visitor'[w].pc = "reset" /\ visitor'[w].token = r.token =>
                    Met(r.visit, visitor'[w].number)
    <3>1. PICK n \in stored : n.token = r.token
      BY DEF TokensInv, UsedUp
    <3>2. r.token # 0
      BY <3>1 DEF TokensInv, TokensStored
    <3>3. QED
      BY <3>1, <3>2 DEF TokensInv, UsedUp
  <2>2. QED
    BY <1>1, <2>1 DEF UsedUp
<1>9. UsedOnce'
  BY <1>1 DEF TokensInv, UsedOnce
<1>10. QED
  BY <1>4, <1>5, <1>6, <1>7, <1>8, <1>9 DEF TokensInv

LEMMA AwayIsAVisit == Away \in VisitSet /\ Away.pc = "away"
BY DEF Away, VisitSet, Codes, Ids

(* No row changes whom it was brought by.                                  *)
LEMMA TrialsQuiet ==
  ASSUME AccountsTypeOK, TrialsEarned,
         \A e \in Emails : /\ user'[e].trial = user[e].trial /\ user'[e].there = user[e].there
                           /\ user'[e].referrer = user[e].referrer,
         \A w \in Visitors : visitor'[w].pc = "create" /\ visitor'[w].referrer # NoEmail =>
           user[visitor'[w].referrer].there /\ visitor'[w].seen =< Earned(visitor'[w].referrer),
         \A w \in Visitors : visitor'[w].referrer \in Codes
  PROVE  TrialsEarned'
<1>1. \A e : Invited(e)' = Invited(e)
  BY DEF Invited
<1>2. \A e : Earned(e)' = Earned(e)
  BY <1>1 DEF Earned
<1>3. \A e \in Emails : user'[e].trial =< Earned(e)'
  BY <1>2 DEF TrialsEarned
<1>4. ASSUME NEW w \in Visitors, visitor'[w].pc = "create", visitor'[w].referrer # NoEmail
      PROVE  user'[visitor'[w].referrer].there /\ visitor'[w].seen =< Earned(visitor[w].referrer)'
  <2>1. PICK e \in Emails : e = visitor'[w].referrer
    BY <1>4 DEF Codes
  <2>2. user'[e].there /\ visitor'[w].seen =< Earned(e)
    BY <1>4, <2>1
  <2>3. Earned(visitor[w].referrer)' = Earned(e)
    BY <1>1, <2>1 DEF Earned, Invited
  <2>4. QED
    BY <2>1, <2>2, <2>3
<1>5. QED
  BY <1>3, <1>4 DEF TrialsEarned

(* A request comes.                                                        *)
LEMMA ArrivalInv ==
  ASSUME AccountsInv, NEW v \in Visitors, NEW to \in VisitSet, to.email \in Emails, Comes(v, to),
         UNCHANGED <<user, mailed, resets, entries, stored>>, tokens' \in Nat, tokens' >= tokens,
         to.pc \in {"create", "byEmail"} => to.referrer = NoEmail,
         to.pc = "store" =>
           /\ to.token \in 1 .. tokens'
           /\ \A n \in stored : n.token # to.token
           /\ \A w \in Visitors \ {v} : visitor[w].pc = "store" => visitor[w].token # to.token,
         to.pc = "reset" =>
           /\ StoredFor(to.token, to.email)
           /\ \A o, n \in stored : o.token = to.token => ~Overtakes(n, o)
           /\ \A r \in resets : r.token # to.token
  PROVE  AccountsInv'
<1>1. AccountsTypeOK /\ TokensInv /\ VisitsInOrder /\ TrialsEarned
  BY DEF AccountsInv, TokensInv
<1>2. VisitsInOrder' /\ meetings \subseteq meetings'
  BY <1>1, ComesInOrder
<1> DEFINE now == [to EXCEPT !.number = visits']
<1>3. visits \in Nat /\ visits' = visits + 1 /\ visitor' = [visitor EXCEPT ![v] = now]
  BY <1>1 DEF Comes, AccountsTypeOK
<1>4. /\ now \in VisitSet /\ now.pc = to.pc /\ now.email = to.email /\ now.token = to.token
      /\ now.referrer = to.referrer
  BY <1>3 DEF VisitSet
<1> HIDE DEF now
<1>5. visitor'[v] = now /\ \A w \in Visitors \ {v} : visitor'[w] = visitor[w]
  BY <1>1, <1>3 DEF AccountsTypeOK
<1>6. AccountsTypeOK'
  <2>1. visitor' \in [Visitors -> VisitSet]
    BY <1>1, <1>3, <1>4 DEF AccountsTypeOK
  <2>2. QED
    BY <1>1, <1>3, <1>4, <1>5, <2>1 DEF AccountsTypeOK, Visiting
<1>7. TokensInv'
  <2>1. \A e \in Emails : user'[e].reset \in {0, user[e].reset}
    OBVIOUS
  <2>2. v \in Visitors /\ visitor'[v].pc = "store" =>
           /\ visitor'[v].token \in 1 .. tokens'
           /\ \A n \in stored : n.token # visitor'[v].token
           /\ \A w \in Visitors \ {v} : visitor[w].pc = "store" => visitor[w].token # visitor'[v].token
    BY <1>4, <1>5
  <2>3. v \in Visitors /\ visitor'[v].pc = "reset" =>
           /\ StoredFor(visitor'[v].token, visitor'[v].email)
           /\ \A o, n \in stored : o.token = visitor'[v].token /\ Overtakes(n, o) =>
                ~Before(n.visit, visitor'[v].number)
           /\ \A r \in resets : r.token = visitor'[v].token => Met(r.visit, visitor'[v].number)
    BY <1>4, <1>5
  <2>4. QED
    BY <1>1, <1>2, <1>5, <2>1, <2>2, <2>3, TokensQuiet
<1>8. TrialsEarned'
  <2>1. \A w \in Visitors : visitor'[w].pc = "create" /\ visitor'[w].referrer # NoEmail =>
           user[visitor'[w].referrer].there /\ visitor'[w].seen =< Earned(visitor'[w].referrer)
    BY <1>1, <1>4, <1>5 DEF TrialsEarned
  <2>2. \A w \in Visitors : visitor'[w].referrer \in Codes
    BY <1>6 DEF AccountsTypeOK, VisitSet
  <2>3. QED
    BY <1>1, <2>1, <2>2, TrialsQuiet
<1>9. GoogleOnce' /\ EntriesOpen'
  BY DEF AccountsInv, GoogleOnce, EntriesOpen
<1>10. QED
  BY <1>6, <1>7, <1>8, <1>9 DEF AccountsInv

(* A request goes on, or leaves, and leaves the tokens alone.              *)
RowsKept ==
  user' \in [Emails -> Rows] /\ \A e \in Emails : user'[e].reset \in {0, user[e].reset}

LEMMA GoesOnInv ==
  ASSUME AccountsInv, NEW v \in Visitors, NEW to \in VisitSet, Visiting(v), VisitGoesOn(v, to),
         to.pc = "away" \/ (to.number = visitor[v].number /\ to.email \in Emails),
         to.pc \notin {"store", "reset", "byEmail"},
         stored' = stored, resets' = resets, mailed' = mailed, tokens' = tokens,
         RowsKept, GoogleOnce', EntriesOpen', TrialsEarned'
  PROVE  AccountsInv'
<1>1. AccountsTypeOK /\ TokensInv /\ VisitsInOrder
  BY DEF AccountsInv, TokensInv
<1>2. VisitsInOrder' /\ meetings \subseteq meetings'
  BY <1>1, GoesOnInOrder
<1>3. /\ visitor'[v] = to /\ \A w \in Visitors \ {v} : visitor'[w] = visitor[w]
      /\ visitor' \in [Visitors -> VisitSet]
  BY <1>1 DEF VisitGoesOn, AccountsTypeOK
<1>4. AccountsTypeOK'
  BY <1>1, <1>3 DEF AccountsTypeOK, VisitGoesOn, Visiting, RowsKept
<1>5. TokensInv'
  <2>1. tokens' \in Nat /\ tokens' >= tokens
    BY <1>1 DEF AccountsTypeOK
  <2>2. visitor'[v].pc # "store" /\ visitor'[v].pc # "reset"
    BY <1>3
  <2>3. QED
    BY <1>1, <1>2, <1>3, <2>1, <2>2, TokensQuiet DEF RowsKept
<1>6. QED
  BY <1>4, <1>5 DEF AccountsInv

LEMMA LeavesInv ==
  ASSUME AccountsInv, NEW v \in Visitors, Visiting(v), VisitGoesOn(v, Away),
         stored' = stored, resets' = resets, mailed' = mailed, tokens' = tokens,
         RowsKept, GoogleOnce', EntriesOpen', TrialsEarned'
  PROVE  AccountsInv'
<1>1. Away \in VisitSet /\ Away.pc = "away" /\ Away.pc \notin {"store", "reset", "byEmail"}
  BY AwayIsAVisit
<1>2. QED
  BY <1>1, GoesOnInv

(* Nobody moves.                                                           *)
LEMMA NobodyMovesInv ==
  ASSUME AccountsInv, UNCHANGED <<visitor, visits, meetings, stored, resets, tokens>>,
         mailed' \subseteq mailed, user' \in [Emails -> Rows],
         \A e \in Emails : /\ user'[e].trial = user[e].trial /\ user'[e].there = user[e].there
                           /\ user'[e].referrer = user[e].referrer /\ user'[e].reset = user[e].reset
                           /\ user'[e].google = user[e].google,
         EntriesOpen'
  PROVE  AccountsInv'
<1>1. AccountsTypeOK /\ TokensInv /\ VisitsInOrder /\ TrialsEarned /\ GoogleOnce
  BY DEF AccountsInv, TokensInv
<1>2. AccountsTypeOK'
  BY <1>1 DEF AccountsTypeOK, Visiting
<1>3. VisitsInOrder'
  BY <1>1 DEF VisitsInOrder, Visiting, Before, Met
<1>4. TokensInv'
  <2>1. PICK v : v = "anybody"
    OBVIOUS
  <2>2. v \in Visitors /\ visitor'[v].pc = "store" =>
          /\ visitor'[v].token \in 1 .. tokens'
          /\ \A n \in stored : n.token # visitor'[v].token
          /\ \A w \in Visitors \ {v} : visitor[w].pc = "store" => visitor[w].token # visitor'[v].token
    BY <1>1 DEF TokensInv, TokensStored
  <2>3. v \in Visitors /\ visitor'[v].pc = "reset" =>
          /\ StoredFor(visitor'[v].token, visitor'[v].email)
          /\ \A o, n \in stored : o.token = visitor'[v].token /\ Overtakes(n, o) =>
               ~Before(n.visit, visitor'[v].number)
          /\ \A r \in resets : r.token = visitor'[v].token => Met(r.visit, visitor'[v].number)
    BY <1>1 DEF TokensInv, TokensStored, PresentedInTime, UsedUp
  <2>4. tokens' \in Nat /\ tokens' >= tokens
    BY <1>1 DEF AccountsTypeOK
  <2>5. QED
    BY <1>1, <1>3, <2>2, <2>3, <2>4, TokensQuiet
<1>5. TrialsEarned'
  <2>1. \A w \in Visitors : visitor'[w].pc = "create" /\ visitor'[w].referrer # NoEmail =>
           user[visitor'[w].referrer].there /\ visitor'[w].seen =< Earned(visitor'[w].referrer)
    BY <1>1 DEF TrialsEarned
  <2>2. \A w \in Visitors : visitor'[w].referrer \in Codes
    BY <1>2 DEF AccountsTypeOK, VisitSet
  <2>3. QED
    BY <1>1, <2>1, <2>2, TrialsQuiet
<1>6. GoogleOnce'
  BY <1>1 DEF GoogleOnce
<1>7. QED
  BY <1>2, <1>4, <1>5, <1>6 DEF AccountsInv

LEMMA EarnedIsANumber ==
  ASSUME NEW n \in Nat
  PROVE  /\ FirstTrial + ReferralDays * n \in Nat /\ FirstTrial =< FirstTrial + ReferralDays * n
         /\ FirstTrial + ReferralDays * (n + 1) = FirstTrial + ReferralDays * n + ReferralDays
<1>1. ASSUME NEW a \in Nat, NEW b \in Nat
      PROVE  a * b \in Nat /\ a * (b + 1) = a * b + a
  OBVIOUS
<1>2. ReferralDays * n \in Nat /\ ReferralDays * (n + 1) = ReferralDays * n + ReferralDays
  BY <1>1, AccountsAssumption
<1>3. FirstTrial \in Nat /\ ReferralDays \in Nat
  BY AccountsAssumption
<1> QED
  BY <1>2, <1>3

LEMMA InvitedIsFinite ==
  /\ \A e : IsFiniteSet(Invited(e)) /\ Cardinality(Invited(e)) \in Nat
  /\ \A e : Earned(e) \in Nat /\ FirstTrial =< Earned(e)
<1>1. ASSUME NEW e
      PROVE  IsFiniteSet(Invited(e)) /\ Cardinality(Invited(e)) \in Nat
  <2>1. Invited(e) \subseteq Emails
    BY DEF Invited
  <2>2. QED
    BY <2>1, AccountsAssumption, FS_Subset, FS_CardinalityType
<1>2. QED
  BY <1>1, EarnedIsANumber DEF Earned

(* The row of a new account, and the bonus of who brought it.              *)
LEMMA CreatesRow ==
  ASSUME AccountsInv, NEW v \in Visitors, CreateUser(v), ~Collides(visitor[v]), NEW t, t = visitor[v]
  PROVE  /\ t.email \in Emails /\ ~user[t.email].there /\ t.referrer \in Codes /\ t.seen \in Nat
         /\ t.referrer # NoEmail => t.referrer # t.email /\ user[t.referrer].there
         /\ user' \in [Emails -> Rows]
         /\ user'[t.email] = NewUser(t)
         /\ \A e \in Emails \ {t.email} :
              /\ user'[e].there = user[e].there /\ user'[e].referrer = user[e].referrer
              /\ user'[e].google = user[e].google /\ user'[e].reset = user[e].reset
              /\ user'[e].trial = IF e = t.referrer /\ t.seen > 0 THEN t.seen + ReferralDays ELSE user[e].trial
<1>1. t \in VisitSet /\ user \in [Emails -> Rows] /\ t.pc = "create" /\ t.email \in Emails
  BY DEF AccountsInv, AccountsTypeOK, CreateUser, Visiting
<1>2. ~user[t.email].there /\ t.referrer \in Codes /\ t.seen \in Nat /\ t.google \in Ids
  BY <1>1 DEF Collides, VisitSet
<1>3. t.referrer # NoEmail => t.referrer # t.email /\ user[t.referrer].there
  BY <1>1, <1>2 DEF AccountsInv, TrialsEarned
<1>4. NewUser(t) \in Rows
  <2>1. NoUserRow \in Rows
    BY DEF NoUserRow, Rows, Ids, Codes
  <2>2. QED
    BY <1>2, <2>1, AccountsAssumption DEF NewUser, Rows
<1>5. user' = [Rewarded(user, t) EXCEPT ![t.email] = NewUser(t)]
  BY DEF CreateUser
<1>6. /\ Rewarded(user, t) \in [Emails -> Rows]
      /\ \A e \in Emails :
           /\ Rewarded(user, t)[e].there = user[e].there /\ Rewarded(user, t)[e].referrer = user[e].referrer
           /\ Rewarded(user, t)[e].google = user[e].google /\ Rewarded(user, t)[e].reset = user[e].reset
           /\ Rewarded(user, t)[e].trial = IF e = t.referrer /\ t.seen > 0 THEN t.seen + ReferralDays ELSE user[e].trial
  <2>1. CASE t.referrer # NoEmail /\ t.seen > 0
    <3>1. t.referrer \in Emails /\ t.seen + ReferralDays \in Nat
      BY <1>2, <2>1, AccountsAssumption DEF Codes
    <3>2. Rewarded(user, t) = [user EXCEPT ![t.referrer].trial = t.seen + ReferralDays]
      BY <2>1 DEF Rewarded
    <3>3. QED
      BY <1>1, <2>1, <3>1, <3>2 DEF Rows
  <2>2. CASE ~(t.referrer # NoEmail /\ t.seen > 0)
    <3>1. Rewarded(user, t) = user
      BY <2>2 DEF Rewarded
    <3>2. QED
      BY <1>1, <2>2, <3>1, AccountsAssumption
  <2>3. QED
    BY <2>1, <2>2
<1> DEFINE rows == Rewarded(user, t)
<1> HIDE DEF rows
<1>7. /\ user' = [rows EXCEPT ![t.email] = NewUser(t)] /\ rows \in [Emails -> Rows]
  BY <1>5, <1>6 DEF rows
<1>8. /\ user' \in [Emails -> Rows] /\ user'[t.email] = NewUser(t)
      /\ \A e \in Emails \ {t.email} : user'[e] = rows[e]
  BY <1>1, <1>4, <1>7
<1>9. QED
  BY <1>1, <1>2, <1>3, <1>6, <1>8 DEF rows

LEMMA CreateUserInv ==
  ASSUME AccountsInv, NEW v \in Visitors, CreateUser(v)
  PROVE  AccountsInv'
<1>1. /\ Visiting(v) /\ VisitGoesOn(v, Away)
      /\ UNCHANGED <<tokens, mailed, toggles, resets, entries, stored>>
  BY DEF CreateUser, Visiting, Leaves
<1>2. AccountsTypeOK /\ TrialsEarned /\ GoogleOnce /\ EntriesOpen
  BY DEF AccountsInv
<1>3. \A w \in Visitors : visitor'[w].pc = "create" => visitor'[w] = visitor[w]
  BY <1>1, <1>2, AwayIsAVisit DEF VisitGoesOn, AccountsTypeOK
<1>4. visitor' \in [Visitors -> VisitSet]
  BY <1>1, <1>2, AwayIsAVisit DEF VisitGoesOn, AccountsTypeOK
<1>5. EntriesOpen'
  BY <1>1, <1>2 DEF EntriesOpen
<1>6. CASE Collides(visitor[v])
  <2>1. user' = user
    BY <1>6 DEF CreateUser
  <2>2. GoogleOnce'
    BY <1>2, <2>1 DEF GoogleOnce
  <2>3. TrialsEarned'
    <3>1. \A w \in Visitors : visitor'[w].pc = "create" /\ visitor'[w].referrer # NoEmail =>
            user[visitor'[w].referrer].there /\ visitor'[w].seen =< Earned(visitor'[w].referrer)
      BY <1>2, <1>3 DEF TrialsEarned
    <3>2. \A w \in Visitors : visitor'[w].referrer \in Codes
      BY <1>4 DEF VisitSet
    <3>3. QED
      BY <1>2, <2>1, <3>1, <3>2, TrialsQuiet
  <2>4. RowsKept
    BY <1>2, <2>1 DEF AccountsTypeOK, RowsKept
  <2>5. QED
    BY <1>1, <1>5, <2>2, <2>3, <2>4, LeavesInv
<1>7. CASE ~Collides(visitor[v])
  <2>1. PICK t : t = visitor[v]
    OBVIOUS
  <2>2. /\ t.email \in Emails /\ ~user[t.email].there /\ t.referrer \in Codes /\ t.seen \in Nat
        /\ t.referrer # NoEmail => t.referrer # t.email /\ user[t.referrer].there
        /\ user' \in [Emails -> Rows]
        /\ user'[t.email] = NewUser(t)
        /\ \A e \in Emails \ {t.email} :
             /\ user'[e].there = user[e].there /\ user'[e].referrer = user[e].referrer
             /\ user'[e].google = user[e].google /\ user'[e].reset = user[e].reset
             /\ user'[e].trial = IF e = t.referrer /\ t.seen > 0 THEN t.seen + ReferralDays ELSE user[e].trial
    BY <1>7, <2>1, CreatesRow
  <2>3. /\ NewUser(t).there /\ NewUser(t).referrer = t.referrer /\ NewUser(t).google = t.google
        /\ NewUser(t).reset = 0 /\ NewUser(t).trial = FirstTrial
    BY DEF NewUser, NoUserRow
  <2>4. RowsKept
    BY <2>2, <2>3 DEF RowsKept
  <2>5. GoogleOnce'
    <3>1. t.google # "none" => \A e \in Emails : user[e].google # t.google
      BY <1>7, <2>1 DEF Collides
    <3>2. QED
      BY <1>2, <2>2, <2>3, <3>1 DEF GoogleOnce
  <2>6. ASSUME NEW e \in Emails
        PROVE  /\ Invited(e)' = IF e = t.referrer THEN Invited(e) \cup {t.email} ELSE Invited(e)
               /\ t.email \notin Invited(e)
    BY <2>2, <2>3 DEF Invited
  <2>7. ASSUME NEW e \in Emails
        PROVE  /\ Earned(e)' = IF e = t.referrer THEN Earned(e) + ReferralDays ELSE Earned(e)
               /\ Earned(e)' >= Earned(e) /\ Earned(e)' >= FirstTrial
    <3>1. IsFiniteSet(Invited(e)) /\ Cardinality(Invited(e)) \in Nat /\ Earned(e) \in Nat /\ FirstTrial =< Earned(e)
      BY InvitedIsFinite
    <3>2. CASE e = t.referrer
      <4>1. Invited(e)' = Invited(e) \cup {t.email}
        BY <2>6, <3>2
      <4>2. Cardinality(Invited(e) \cup {t.email}) = Cardinality(Invited(e)) + 1
        BY <2>6, <3>1, FS_AddElement
      <4>3. Earned(e)' = Earned(e) + ReferralDays
        BY <3>1, <4>1, <4>2, EarnedIsANumber DEF Earned
      <4>4. QED
        BY <3>1, <3>2, <4>3, AccountsAssumption
    <3>3. CASE e # t.referrer
      BY <2>6, <3>1, <3>3 DEF Earned
    <3>4. QED
      BY <3>2, <3>3
  <2>8. TrialsEarned'
    <3>1. ASSUME NEW e \in Emails
          PROVE  user'[e].trial =< Earned(e)'
      <4>1. user[e].trial \in Nat /\ user[e].trial =< Earned(e) /\ Earned(e) \in Nat
        BY <1>2, InvitedIsFinite DEF AccountsTypeOK, Rows, TrialsEarned
      <4>2. CASE e = t.email
        BY <2>2, <2>3, <2>7, <4>2
      <4>3. CASE e # t.email /\ e = t.referrer /\ t.seen > 0
        <5>1. t.seen =< Earned(e)
          BY <1>2, <2>1, <4>3, AccountsAssumption DEF TrialsEarned, CreateUser
        <5>2. user'[e].trial = t.seen + ReferralDays /\ Earned(e)' = Earned(e) + ReferralDays
          BY <2>2, <2>7, <4>3
        <5>3. QED
          BY <2>2, <4>1, <5>1, <5>2, AccountsAssumption
      <4>4. CASE e # t.email /\ ~(e = t.referrer /\ t.seen > 0)
        <5>1. user'[e].trial = user[e].trial
          BY <2>2, <4>4
        <5>2. Earned(e)' \in Nat /\ Earned(e)' >= Earned(e)
          BY <2>7, <4>1, AccountsAssumption
        <5>3. QED
          BY <4>1, <5>1, <5>2
      <4>5. QED
        BY <4>2, <4>3, <4>4
    <3>2. ASSUME NEW w \in Visitors, visitor'[w].pc = "create", visitor'[w].referrer # NoEmail
          PROVE  user'[visitor'[w].referrer].there /\ visitor'[w].seen =< Earned(visitor[w].referrer)'
      <4>1. PICK e \in Emails : e = visitor'[w].referrer
        BY <1>4, <3>2 DEF VisitSet, Codes
      <4>2. user[e].there /\ visitor'[w].seen =< Earned(e) /\ visitor'[w].seen \in Nat
        BY <1>2, <1>3, <1>4, <3>2, <4>1 DEF TrialsEarned, VisitSet
      <4>3. user'[e].there
        BY <2>2, <2>3, <4>2
      <4>4. visitor'[w].seen =< Earned(e)'
        BY <2>7, <4>2, InvitedIsFinite, AccountsAssumption
      <4>5. Earned(visitor[w].referrer)' = Earned(e)'
        BY <4>1 DEF Earned, Invited
      <4>6. QED
        BY <4>1, <4>3, <4>4, <4>5
    <3>3. QED
      BY <3>1, <3>2 DEF TrialsEarned
  <2>9. QED
    BY <1>1, <1>5, <2>4, <2>5, <2>8, LeavesInv
<1>8. QED
  BY <1>6, <1>7

(* What a visitor that does not create may do to the trials.               *)
LEMMA SameTrials ==
  ASSUME AccountsInv, visitor' \in [Visitors -> VisitSet],
         \A w \in Visitors : visitor'[w].pc = "create" => visitor'[w] = visitor[w],
         \A e \in Emails : /\ user'[e].trial = user[e].trial /\ user'[e].there = user[e].there
                           /\ user'[e].referrer = user[e].referrer
  PROVE  TrialsEarned'
<1>1. AccountsTypeOK /\ TrialsEarned
  BY DEF AccountsInv
<1>2. \A w \in Visitors : visitor'[w].pc = "create" /\ visitor'[w].referrer # NoEmail =>
         user[visitor'[w].referrer].there /\ visitor'[w].seen =< Earned(visitor'[w].referrer)
  BY <1>1 DEF TrialsEarned
<1>3. \A w \in Visitors : visitor'[w].referrer \in Codes
  BY DEF VisitSet
<1>4. QED
  BY <1>1, <1>2, <1>3, TrialsQuiet

LEMMA LinkGoogleInv ==
  ASSUME AccountsInv, NEW v \in Visitors, LinkGoogle(v)
  PROVE  AccountsInv'
<1>1. PICK e \in Emails : e = visitor[v].email
  BY DEF AccountsInv, AccountsTypeOK, LinkGoogle, Visiting
<1>2. PICK g \in Ids : g = visitor[v].google
  BY DEF AccountsInv, AccountsTypeOK, VisitSet
<1>3. /\ AccountsTypeOK /\ GoogleOnce /\ EntriesOpen /\ Visiting(v) /\ VisitGoesOn(v, Away)
      /\ stored' = stored /\ resets' = resets /\ mailed' = mailed /\ tokens' = tokens
  BY DEF AccountsInv, LinkGoogle, Leaves, Visiting
<1>4. /\ visitor' \in [Visitors -> VisitSet]
      /\ \A w \in Visitors : visitor'[w].pc = "create" => visitor'[w] = visitor[w]
  BY <1>3, AwayIsAVisit DEF VisitGoesOn, AccountsTypeOK
<1>5. CASE user' = user /\ entries' = entries
  <2>1. RowsKept /\ GoogleOnce' /\ EntriesOpen'
    BY <1>3, <1>5 DEF RowsKept, AccountsTypeOK, GoogleOnce, EntriesOpen
  <2>2. TrialsEarned'
    BY <1>4, <1>5, SameTrials
  <2>3. QED
    BY <1>3, <2>1, <2>2, LeavesInv
<1>6. CASE /\ \A f \in Emails \ {e} : user[f].google # g
           /\ user' = [user EXCEPT ![e].google = g]
           /\ Enter(e, "google")
  <2>1. /\ user' \in [Emails -> Rows] /\ user'[e].google = g
        /\ \A f \in Emails \ {e} : user'[f].google = user[f].google
        /\ \A f \in Emails : /\ user'[f].trial = user[f].trial /\ user'[f].there = user[f].there
                             /\ user'[f].referrer = user[f].referrer /\ user'[f].reset = user[f].reset
    BY <1>3, <1>6 DEF AccountsTypeOK, Rows
  <2>2. RowsKept
    BY <2>1 DEF RowsKept
  <2>3. GoogleOnce'
    BY <1>3, <1>6, <2>1 DEF GoogleOnce
  <2>4. EntriesOpen'
    BY <1>3, <1>6 DEF EntriesOpen, Enter
  <2>5. TrialsEarned'
    BY <1>4, <2>1, SameTrials
  <2>6. QED
    BY <1>3, <2>2, <2>3, <2>4, <2>5, LeavesInv
<1>7. QED
  BY <1>1, <1>2, <1>5, <1>6 DEF LinkGoogle

(* The token of the newest request that has stored one.                    *)
LEMMA StoreTokenInv ==
  ASSUME AccountsInv, NEW v \in Visitors, StoreToken(v)
  PROVE  AccountsInv'
<1>1. PICK e \in Emails : e = visitor[v].email
  BY DEF AccountsInv, AccountsTypeOK, StoreToken, Visiting
<1>2. PICK token \in Nat : token = visitor[v].token
  BY DEF AccountsInv, AccountsTypeOK, VisitSet
<1>3. PICK k \in Nat : k = visitor[v].number
  BY DEF AccountsInv, AccountsTypeOK, VisitSet
<1>4. PICK row : row.token = token /\ row.email = e /\ row.visit = k /\ row = [token |-> token, email |-> e, visit |-> k]
  OBVIOUS
<1>5. /\ visitor[v].pc = "store" /\ Visiting(v) /\ VisitGoesOn(v, Away)
      /\ user' = [user EXCEPT ![e].reset = token]
      /\ mailed' = mailed \cup {[token |-> token, email |-> e]}
      /\ stored' = stored \cup {row}
      /\ UNCHANGED <<tokens, resets, entries>>
  BY <1>1, <1>2, <1>3, <1>4 DEF StoreToken, Leaves, Visiting
<1>6. /\ AccountsTypeOK /\ TokensInv /\ VisitsInOrder /\ TokensStored /\ GoogleOnce /\ EntriesOpen
  BY DEF AccountsInv, TokensInv
<1>7. /\ visitor' \in [Visitors -> VisitSet] /\ visitor'[v] = Away
      /\ \A w \in Visitors \ {v} : visitor'[w] = visitor[w]
      /\ UNCHANGED <<visits, meetings>>
  BY <1>5, <1>6, AwayIsAVisit DEF VisitGoesOn, AccountsTypeOK
<1>8. /\ user' \in [Emails -> Rows] /\ user'[e].reset = token
      /\ \A f \in Emails \ {e} : user'[f].reset = user[f].reset
      /\ \A f \in Emails : /\ user'[f].trial = user[f].trial /\ user'[f].there = user[f].there
                           /\ user'[f].referrer = user[f].referrer /\ user'[f].google = user[f].google
  BY <1>5, <1>6 DEF AccountsTypeOK, Rows
<1>9. /\ token \in 1 .. tokens
      /\ \A n \in stored : n.token # token
      /\ \A w \in Visitors \ {v} : visitor[w].pc = "store" => visitor[w].token # token
  BY <1>2, <1>5, <1>6 DEF TokensStored
<1>10. VisitsInOrder'
  BY <1>3, <1>4, <1>5, <1>6, AwayIsAVisit, GoesOnInOrder
<1>11. AccountsTypeOK'
  <2>1. \A m \in mailed' : m.email \in Emails /\ m.token \in Nat
    BY <1>5, <1>6 DEF AccountsTypeOK
  <2>2. QED
    BY <1>5, <1>6, <1>7, <1>8, <2>1, AwayIsAVisit DEF AccountsTypeOK, Visiting
<1>12. ASSUME NEW w \in Visitors, visitor'[w].pc # "away"
       PROVE  w # v /\ visitor'[w] = visitor[w]
  BY <1>7, <1>12, AwayIsAVisit
<1>13. TokensStored'
  <2>1. \A t, f : StoredFor(t, f) => StoredFor(t, f)'
    BY <1>5 DEF StoredFor
  <2>2. StoredFor(token, e)'
    BY <1>4, <1>5 DEF StoredFor
  <2>3. /\ \A n \in stored' : n.token \in 1 .. tokens'
        /\ \A o, n \in stored' : o.token = n.token => o = n
    BY <1>4, <1>5, <1>6, <1>9 DEF TokensStored
  <2>4. ASSUME NEW w \in Visitors, visitor'[w].pc = "store"
        PROVE  /\ visitor'[w].token \in 1 .. tokens'
               /\ \A n \in stored' : n.token # visitor'[w].token
               /\ \A x \in Visitors \ {w} : visitor'[x].pc = "store" => visitor'[x].token # visitor'[w].token
    <3>1. w # v /\ visitor'[w] = visitor[w]
      BY <1>12, <2>4
    <3>2. \A x \in Visitors : visitor'[x].pc = "store" => visitor'[x] = visitor[x]
      BY <1>12
    <3>3. QED
      BY <1>4, <1>5, <1>6, <1>9, <2>4, <3>1, <3>2 DEF TokensStored
  <2>5. ASSUME NEW f \in Emails, user'[f].reset # 0
        PROVE  StoredFor(user[f].reset, f)'
    <3>1. CASE f = e
      BY <1>8, <2>2, <3>1 DEF StoredFor
    <3>2. CASE f # e
      <4>1. StoredFor(user[f].reset, f) /\ user'[f].reset = user[f].reset
        BY <1>6, <1>8, <2>5, <3>2 DEF TokensStored
      <4>2. QED
        BY <1>5, <4>1 DEF StoredFor
    <3>3. QED
      BY <3>1, <3>2
  <2>6. ASSUME NEW m \in mailed'
        PROVE  StoredFor(m.token, m.email)'
    <3>1. CASE m \in mailed
      BY <1>6, <2>1, <3>1 DEF TokensStored
    <3>2. CASE m = [token |-> token, email |-> e]
      BY <2>2, <3>2
    <3>3. QED
      BY <1>5, <3>1, <3>2
  <2>7. ASSUME NEW w \in Visitors, visitor'[w].pc = "reset"
        PROVE  StoredFor(visitor[w].token, visitor[w].email)'
    <3>1. visitor'[w] = visitor[w]
      BY <1>12, <2>7
    <3>2. StoredFor(visitor[w].token, visitor[w].email)
      BY <1>6, <2>7, <3>1 DEF TokensStored
    <3>3. QED
      BY <1>5, <3>1, <3>2 DEF StoredFor
  <2>8. QED
    BY <2>3, <2>4, <2>5, <2>6, <2>7 DEF TokensStored
<1>14. /\ \A i, j : (Met(i, j)' <=> Met(i, j)) /\ (Before(i, j)' <=> Before(i, j))
       /\ \A o, n : Overtakes(n, o)' <=> Overtakes(n, o)
  BY <1>7 DEF Met, Before, Overtakes
<1>15. \A n \in stored \cup resets : ~Before(k, n.visit)
  BY <1>3, <1>5, <1>6 DEF VisitsInOrder
<1>16. RowsLatest'
  <2>1. ASSUME NEW f \in Emails, user'[f].reset # 0, NEW o \in stored', NEW n \in stored',
               o.token = user'[f].reset
        PROVE  ~Overtakes(n, o)
    <3>1. CASE f = e
      <4>1. o = row
        BY <1>5, <1>8, <1>9, <2>1, <3>1
      <4>2. ~Before(k, k)
        BY DEF Before
      <4>3. QED
        BY <1>4, <1>5, <1>15, <4>1, <4>2 DEF Overtakes
    <3>2. CASE f # e
      <4>1. user'[f].reset = user[f].reset
        BY <1>8, <3>2
      <4>2. PICK s \in stored : s.token = user[f].reset /\ s.email = f
        BY <1>6, <2>1, <4>1 DEF TokensStored, StoredFor
      <4>3. o = s
        BY <1>4, <1>5, <1>6, <1>9, <2>1, <4>1, <4>2 DEF TokensStored
      <4>4. CASE n = row
        BY <1>4, <3>2, <4>2, <4>3, <4>4 DEF Overtakes
      <4>5. CASE n \in stored
        BY <1>6, <2>1, <4>1, <4>2, <4>3, <4>5 DEF TokensInv, RowsLatest
      <4>6. QED
        BY <1>5, <4>4, <4>5
    <3>3. QED
      BY <3>1, <3>2
  <2>2. QED
    BY <1>14, <2>1 DEF RowsLatest
<1>17. PresentedInTime'
  <2>1. ASSUME NEW w \in Visitors, visitor'[w].pc = "reset", NEW o \in stored', NEW n \in stored',
               o.token = visitor'[w].token, Overtakes(n, o)
        PROVE  ~Before(n.visit, visitor'[w].number)
    <3>1. w # v /\ visitor'[w] = visitor[w] /\ Visiting(w)
      BY <1>12, <2>1 DEF Visiting
    <3>2. PICK s \in stored : s.token = visitor[w].token
      BY <1>6, <2>1, <3>1 DEF TokensStored, StoredFor
    <3>3. o \in stored
      BY <1>4, <1>5, <1>9, <2>1, <3>1, <3>2
    <3>4. CASE n \in stored
      BY <1>6, <2>1, <3>1, <3>3, <3>4 DEF TokensInv, PresentedInTime
    <3>5. CASE n = row
      <4>1. Met(k, visitor[w].number)
        BY <1>3, <1>5, <1>6, <3>1 DEF VisitsInOrder
      <4>2. QED
        BY <1>4, <3>1, <3>5, <4>1 DEF Before
    <3>6. QED
      BY <1>5, <3>4, <3>5
  <2>2. QED
    BY <1>14, <2>1 DEF PresentedInTime
<1>18. ResetsInTime'
  <2>1. ASSUME NEW r \in resets, NEW o \in stored', NEW n \in stored', o.token = r.token, Overtakes(n, o)
        PROVE  ~Before(n.visit, r.visit)
    <3>1. PICK s \in stored : s.token = r.token
      BY <1>6 DEF TokensInv, UsedUp
    <3>2. o \in stored
      BY <1>4, <1>5, <1>9, <2>1, <3>1
    <3>3. CASE n \in stored
      BY <1>6, <2>1, <3>2, <3>3 DEF TokensInv, ResetsInTime
    <3>4. CASE n = row
      BY <1>4, <1>15, <3>4
    <3>5. QED
      BY <1>5, <3>3, <3>4
  <2>2. QED
    BY <1>5, <1>14, <2>1 DEF ResetsInTime
<1>19. UsedUp'
  <2>1. ASSUME NEW r \in resets
        PROVE  /\ \E n \in stored' : n.token = r.token
               /\ \A f \in Emails : user'[f].reset # r.token
               /\ \A w \in Visitors : visitor'[w].pc = "reset" /\ visitor'[w].token = r.token =>
                    Met(r.visit, visitor'[w].number)
    <3>1. PICK s \in stored : s.token = r.token
      BY <1>6 DEF TokensInv, UsedUp
    <3>2. r.token # token
      BY <1>9, <3>1
    <3>3. QED
      BY <1>5, <1>6, <1>8, <1>12, <3>1, <3>2 DEF TokensInv, UsedUp
  <2>2. QED
    BY <1>5, <1>14, <2>1 DEF UsedUp
<1>20. UsedOnce'
  BY <1>5, <1>6, <1>14 DEF TokensInv, UsedOnce
<1>21. TokensInv'
  BY <1>10, <1>13, <1>16, <1>17, <1>18, <1>19, <1>20 DEF TokensInv
<1>22. GoogleOnce' /\ EntriesOpen'
  BY <1>5, <1>6, <1>8 DEF GoogleOnce, EntriesOpen
<1>23. TrialsEarned'
  <2>1. \A w \in Visitors : visitor'[w].pc = "create" => visitor'[w] = visitor[w]
    BY <1>12
  <2>2. QED
    BY <1>7, <1>8, <2>1, SameTrials
<1>24. QED
  BY <1>11, <1>21, <1>22, <1>23 DEF AccountsInv

(* A token is spent: nobody has it any more but who came before.           *)
LEMMA CommitResetInv ==
  ASSUME AccountsInv, NEW v \in Visitors, CommitReset(v)
  PROVE  AccountsInv'
<1>1. PICK e \in Emails : e = visitor[v].email
  BY DEF AccountsInv, AccountsTypeOK, CommitReset, Visiting
<1>2. PICK token \in Nat : token = visitor[v].token
  BY DEF AccountsInv, AccountsTypeOK, VisitSet
<1>3. PICK k \in Nat : k = visitor[v].number
  BY DEF AccountsInv, AccountsTypeOK, VisitSet
<1>4. PICK row : row.token = token /\ row.visit = k /\ row = [token |-> token, visit |-> k]
  OBVIOUS
<1>5. /\ visitor[v].pc = "reset" /\ Visiting(v) /\ VisitGoesOn(v, Away)
      /\ user' = [user EXCEPT ![e].password = 1 + token, ![e].reset = 0]
      /\ resets' = resets \cup {row}
      /\ UNCHANGED <<tokens, mailed, entries, stored>>
  BY <1>1, <1>2, <1>3, <1>4 DEF CommitReset, Leaves, Visiting
<1>6. /\ AccountsTypeOK /\ TokensInv /\ VisitsInOrder /\ TokensStored /\ GoogleOnce /\ EntriesOpen
  BY DEF AccountsInv, TokensInv
<1>7. /\ visitor' \in [Visitors -> VisitSet] /\ visitor'[v] = Away
      /\ \A w \in Visitors \ {v} : visitor'[w] = visitor[w]
      /\ UNCHANGED <<visits, meetings>>
  BY <1>5, <1>6, AwayIsAVisit DEF VisitGoesOn, AccountsTypeOK
<1>8. /\ user' \in [Emails -> Rows] /\ user'[e].reset = 0
      /\ \A f \in Emails \ {e} : user'[f].reset = user[f].reset
      /\ \A f \in Emails : /\ user'[f].trial = user[f].trial /\ user'[f].there = user[f].there
                           /\ user'[f].referrer = user[f].referrer /\ user'[f].google = user[f].google
  <2> DEFINE now == [user[e] EXCEPT !.password = 1 + token, !.reset = 0]
  <2>1. user[e] \in Rows
    BY <1>6 DEF AccountsTypeOK
  <2>2. /\ now \in Rows /\ now.reset = 0 /\ now.trial = user[e].trial /\ now.there = user[e].there
        /\ now.referrer = user[e].referrer /\ now.google = user[e].google
    <3> DEFINE mid == [user[e] EXCEPT !.password = 1 + token]
    <3>1. 1 + token \in Nat
      BY <1>2
    <3>2. /\ mid \in Rows /\ mid.trial = user[e].trial /\ mid.there = user[e].there
          /\ mid.referrer = user[e].referrer /\ mid.google = user[e].google
      BY <2>1, <3>1 DEF Rows
    <3>3. now = [mid EXCEPT !.reset = 0]
      BY <2>1, <3>1 DEF Rows
    <3> HIDE DEF now, mid
    <3>4. QED
      BY <3>2, <3>3 DEF Rows
  <2>3. user' = [user EXCEPT ![e] = now]
    BY <1>5
  <2> HIDE DEF now
  <2>4. user' \in [Emails -> Rows] /\ user'[e] = now /\ \A f \in Emails \ {e} : user'[f] = user[f]
    BY <1>6, <2>2, <2>3 DEF AccountsTypeOK
  <2>5. QED
    BY <2>2, <2>4
<1>9. PICK s \in stored : s.token = token /\ s.email = e
  BY <1>1, <1>2, <1>5, <1>6 DEF TokensStored, StoredFor
<1>10. VisitsInOrder'
  BY <1>3, <1>4, <1>5, <1>6, AwayIsAVisit, GoesOnInOrder
<1>11. AccountsTypeOK'
  BY <1>5, <1>6, <1>7, <1>8, AwayIsAVisit DEF AccountsTypeOK, Visiting
<1>12. ASSUME NEW w \in Visitors, visitor'[w].pc # "away"
       PROVE  w # v /\ visitor'[w] = visitor[w]
  BY <1>7, <1>12, AwayIsAVisit
<1>13. TokensStored'
  <2>1. \A t, f : StoredFor(t, f)' <=> StoredFor(t, f)
    BY <1>5 DEF StoredFor
  <2>2. /\ \A n \in stored' : n.token \in 1 .. tokens'
        /\ \A o, n \in stored' : o.token = n.token => o = n
    BY <1>5, <1>6 DEF TokensStored
  <2>3. \A w \in Visitors : visitor'[w].pc = "store" =>
          /\ visitor'[w].token \in 1 .. tokens'
          /\ \A n \in stored' : n.token # visitor'[w].token
          /\ \A x \in Visitors \ {w} : visitor'[x].pc = "store" => visitor'[x].token # visitor'[w].token
    BY <1>5, <1>6, <1>12 DEF TokensStored
  <2>4. \A f \in Emails : user'[f].reset # 0 => StoredFor(user'[f].reset, f)
    BY <1>6, <1>8 DEF TokensStored
  <2>5. \A f \in Emails : user'[f].reset # 0 => StoredFor(user[f].reset, f)'
    BY <1>5, <2>4 DEF StoredFor
  <2>6. \A m \in mailed' : StoredFor(m.token, m.email)'
    BY <1>5, <1>6, <2>1 DEF TokensStored
  <2>7. \A w \in Visitors : visitor'[w].pc = "reset" => StoredFor(visitor'[w].token, visitor'[w].email)
    BY <1>6, <1>12 DEF TokensStored
  <2>8. \A w \in Visitors : visitor'[w].pc = "reset" => StoredFor(visitor[w].token, visitor[w].email)'
    BY <1>5, <2>7 DEF StoredFor
  <2>9. QED
    BY <2>2, <2>3, <2>5, <2>6, <2>8 DEF TokensStored
<1>14. /\ \A i, j : (Met(i, j)' <=> Met(i, j)) /\ (Before(i, j)' <=> Before(i, j))
       /\ \A o, n : Overtakes(n, o)' <=> Overtakes(n, o)
  BY <1>7 DEF Met, Before, Overtakes
<1>15. RowsLatest'
  BY <1>5, <1>6, <1>8, <1>14 DEF TokensInv, RowsLatest
<1>16. PresentedInTime'
  <2>1. ASSUME NEW w \in Visitors, visitor'[w].pc = "reset", NEW o \in stored, NEW n \in stored,
               o.token = visitor'[w].token, Overtakes(n, o)
        PROVE  ~Before(n.visit, visitor'[w].number)
    BY <1>6, <1>12, <2>1 DEF TokensInv, PresentedInTime
  <2>2. QED
    BY <1>5, <1>14, <2>1 DEF PresentedInTime
<1>17. ResetsInTime'
  <2>1. ASSUME NEW o \in stored, NEW n \in stored, o.token = token, Overtakes(n, o)
        PROVE  ~Before(n.visit, k)
    BY <1>2, <1>3, <1>5, <1>6, <2>1 DEF TokensInv, PresentedInTime
  <2>2. ASSUME NEW r \in resets', NEW o \in stored, NEW n \in stored, o.token = r.token, Overtakes(n, o)
        PROVE  ~Before(n.visit, r.visit)
    <3>1. CASE r \in resets
      BY <1>6, <2>2, <3>1 DEF TokensInv, ResetsInTime
    <3>2. CASE r = row
      BY <1>4, <2>1, <2>2, <3>2
    <3>3. QED
      BY <1>5, <2>2, <3>1, <3>2
  <2>3. QED
    BY <1>5, <1>14, <2>2 DEF ResetsInTime
<1>18. UsedUp'
  <2>1. ASSUME NEW r \in resets
        PROVE  /\ \E n \in stored : n.token = r.token
               /\ \A f \in Emails : user'[f].reset # r.token
               /\ \A w \in Visitors : visitor'[w].pc = "reset" /\ visitor'[w].token = r.token =>
                    Met(r.visit, visitor'[w].number)
    <3>1. PICK n \in stored : n.token = r.token
      BY <1>6 DEF TokensInv, UsedUp
    <3>2. r.token # 0
      BY <1>6, <3>1 DEF TokensStored
    <3>3. QED
      BY <1>6, <1>8, <1>12, <3>1, <3>2 DEF TokensInv, UsedUp
  <2>2. \A f \in Emails : user'[f].reset # token
    <3>1. token # 0
      BY <1>6, <1>9 DEF TokensStored
    <3>2. ASSUME NEW f \in Emails \ {e}, user[f].reset = token
          PROVE  FALSE
      <4>1. PICK n \in stored : n.token = token /\ n.email = f
        BY <1>6, <3>1, <3>2 DEF TokensStored, StoredFor
      <4>2. QED
        BY <1>6, <1>9, <3>2, <4>1 DEF TokensStored
    <3>3. QED
      BY <1>8, <3>1, <3>2
  <2>3. ASSUME NEW w \in Visitors, visitor'[w].pc = "reset"
        PROVE  Met(k, visitor'[w].number)
    <3>1. w # v /\ visitor'[w] = visitor[w] /\ Visiting(w)
      BY <1>12, <2>3 DEF Visiting
    <3>2. QED
      BY <1>3, <1>5, <1>6, <3>1 DEF VisitsInOrder
  <2>4. \A r \in resets' :
          /\ \E n \in stored : n.token = r.token
          /\ \A f \in Emails : user'[f].reset # r.token
          /\ \A w \in Visitors : visitor'[w].pc = "reset" /\ visitor'[w].token = r.token =>
               Met(r.visit, visitor'[w].number)
    BY <1>4, <1>5, <1>9, <2>1, <2>2, <2>3
  <2>5. QED
    BY <1>5, <1>14, <2>4 DEF UsedUp
<1>19. UsedOnce'
  <2>1. ASSUME NEW r \in resets, r.token = token
        PROVE  Met(r.visit, k) /\ Met(k, r.visit)
    <3>1. Met(r.visit, k)
      BY <1>2, <1>3, <1>5, <1>6, <2>1 DEF TokensInv, UsedUp
    <3>2. QED
      BY <3>1 DEF Met
  <2>2. Met(k, k)
    BY DEF Met
  <2>3. \A r, q \in resets' : r.token = q.token => Met(r.visit, q.visit)
    BY <1>4, <1>5, <1>6, <2>1, <2>2 DEF TokensInv, UsedOnce
  <2>4. QED
    BY <1>14, <2>3 DEF UsedOnce
<1>20. TokensInv'
  BY <1>10, <1>13, <1>15, <1>16, <1>17, <1>18, <1>19 DEF TokensInv
<1>21. GoogleOnce' /\ EntriesOpen'
  BY <1>5, <1>6, <1>8 DEF GoogleOnce, EntriesOpen
<1>22. TrialsEarned'
  <2>1. \A w \in Visitors : visitor'[w].pc = "create" => visitor'[w] = visitor[w]
    BY <1>12
  <2>2. QED
    BY <1>7, <1>8, <2>1, SameTrials
<1>23. QED
  BY <1>11, <1>20, <1>21, <1>22 DEF AccountsInv

-----------------------------------------------------------------------------
(* Accounts: the first state, and the requests that come or go on.         *)

LEMMA AccountsInitInv == AccountsInit => AccountsInv
<1> SUFFICES ASSUME AccountsInit PROVE AccountsInv
  OBVIOUS
<1>1. /\ visitor = [v \in Visitors |-> Away] /\ tokens = 0 /\ mailed = {} /\ resets = {} /\ visits = 0
      /\ entries = {} /\ stored = {}
      /\ \E known \in SUBSET Emails :
           user = [e \in Emails |-> IF e \in known THEN Registered ELSE NoUserRow]
  BY DEF AccountsInit, AccountsInitWith
<1>2. NoUserRow \in Rows /\ Registered \in Rows
  BY AccountsAssumption DEF NoUserRow, Registered, Rows, Ids, Codes
<1>3. /\ user \in [Emails -> Rows]
      /\ \A e \in Emails : user[e] \in {Registered, NoUserRow}
  <2>1. PICK known \in SUBSET Emails :
          user = [e \in Emails |-> IF e \in known THEN Registered ELSE NoUserRow]
    BY <1>1
  <2>2. \A e \in Emails : user[e] = Registered \/ user[e] = NoUserRow
    BY <2>1
  <2>3. \A e \in Emails : user[e] \in Rows
    BY <1>2, <2>2
  <2>4. user \in [Emails -> Rows]
    BY <2>1, <2>3
  <2>5. QED
    BY <2>2, <2>4
<1>4. \A row \in {Registered, NoUserRow} :
        row.reset = 0 /\ row.google = "none" /\ row.referrer = NoEmail /\ row.trial \in {0, FirstTrial}
  <2>1. /\ NoUserRow.reset = 0 /\ NoUserRow.google = "none" /\ NoUserRow.referrer = NoEmail
        /\ NoUserRow.trial = 0
    BY DEF NoUserRow
  <2>2. /\ Registered.reset = 0 /\ Registered.google = "none" /\ Registered.referrer = NoEmail
        /\ Registered.trial = FirstTrial
    BY DEF Registered, NoUserRow
  <2>3. QED
    BY <2>1, <2>2
<1>5. /\ visitor \in [Visitors -> VisitSet] /\ \A v \in Visitors : visitor[v].pc = "away"
  BY <1>1, AwayIsAVisit
<1>6. AccountsTypeOK
  BY <1>1, <1>3, <1>5 DEF AccountsTypeOK, Visiting
<1>7. TokensInv
  <2>1. \A e \in Emails : user[e].reset = 0
    BY <1>3, <1>4
  <2>2. VisitsInOrder /\ TokensStored
    BY <1>1, <1>5, <2>1 DEF VisitsInOrder, Visiting, TokensStored
  <2>3. RowsLatest /\ PresentedInTime
    BY <1>5, <2>1 DEF RowsLatest, PresentedInTime
  <2>4. ResetsInTime /\ UsedUp /\ UsedOnce
    BY <1>1 DEF ResetsInTime, UsedUp, UsedOnce
  <2>5. QED
    BY <2>2, <2>3, <2>4 DEF TokensInv
<1>8. GoogleOnce /\ EntriesOpen
  BY <1>1, <1>3, <1>4 DEF GoogleOnce, EntriesOpen
<1>9. TrialsEarned
  <2>1. ASSUME NEW e \in Emails
        PROVE  user[e].trial =< Earned(e)
    <3>1. user[e].trial \in {0, FirstTrial}
      BY <1>3, <1>4
    <3>2. Earned(e) \in Nat /\ FirstTrial =< Earned(e)
      BY InvitedIsFinite
    <3>3. QED
      BY <3>1, <3>2
  <2>2. QED
    BY <1>5, <2>1 DEF TrialsEarned
<1>10. QED
  BY <1>6, <1>7, <1>8, <1>9 DEF AccountsInv

(* An active inviter is read with the trial it has.                        *)
LEMMA ReadInviterInv ==
  ASSUME AccountsInv, NEW v \in Visitors, ReadInviter(v)
  PROVE  AccountsInv'
<1>1. PICK t \in VisitSet : t = visitor[v]
  BY DEF AccountsInv, AccountsTypeOK
<1>2. PICK to : /\ to = IF t.referrer # NoEmail /\ user[t.referrer].there /\ user[t.referrer].active
                        THEN [t EXCEPT !.pc = "create", !.seen = user[t.referrer].trial]
                        ELSE [t EXCEPT !.pc = "create", !.referrer = NoEmail]
  OBVIOUS
<1>3. /\ AccountsTypeOK /\ TrialsEarned /\ GoogleOnce /\ EntriesOpen
      /\ t.pc = "referrer" /\ Visiting(v) /\ t.email \in Emails /\ VisitGoesOn(v, to)
      /\ stored' = stored /\ resets' = resets /\ mailed' = mailed /\ tokens' = tokens
      /\ user' = user /\ entries' = entries
  BY <1>1, <1>2 DEF AccountsInv, AccountsTypeOK, ReadInviter, Visiting, OnlyRequests
<1>4. /\ to \in VisitSet /\ to.pc = "create" /\ to.number = t.number /\ to.email = t.email
      /\ to.referrer # NoEmail => /\ user[to.referrer].there /\ to.referrer \in Emails
                                  /\ to.seen = user[to.referrer].trial
  <2>1. CASE t.referrer # NoEmail /\ user[t.referrer].there /\ user[t.referrer].active
    <3>1. t.referrer \in Emails /\ user[t.referrer].trial \in Nat
      BY <1>1, <1>3, <2>1 DEF VisitSet, Codes, AccountsTypeOK, Rows
    <3>2. to = [t EXCEPT !.pc = "create", !.seen = user[t.referrer].trial]
      BY <1>2, <2>1
    <3>3. QED
      BY <2>1, <3>1, <3>2 DEF VisitSet
  <2>2. CASE ~(t.referrer # NoEmail /\ user[t.referrer].there /\ user[t.referrer].active)
    <3>1. to = [t EXCEPT !.pc = "create", !.referrer = NoEmail]
      BY <1>2, <2>2
    <3>2. QED
      BY <3>1 DEF VisitSet, Codes
  <2>3. QED
    BY <2>1, <2>2
<1>5. /\ visitor'[v] = to /\ \A w \in Visitors \ {v} : visitor'[w] = visitor[w]
      /\ visitor' \in [Visitors -> VisitSet]
  BY <1>3, <1>4 DEF VisitGoesOn, AccountsTypeOK
<1>6. RowsKept /\ GoogleOnce' /\ EntriesOpen'
  BY <1>3 DEF RowsKept, AccountsTypeOK, GoogleOnce, EntriesOpen
<1>7. TrialsEarned'
  <2>1. \A w \in Visitors : visitor'[w].pc = "create" /\ visitor'[w].referrer # NoEmail =>
          user[visitor'[w].referrer].there /\ visitor'[w].seen =< Earned(visitor'[w].referrer)
    BY <1>3, <1>4, <1>5 DEF TrialsEarned
  <2>2. \A w \in Visitors : visitor'[w].referrer \in Codes
    BY <1>5 DEF VisitSet
  <2>3. QED
    BY <1>3, <2>1, <2>2, TrialsQuiet
<1>8. to.number = visitor[v].number /\ to.email \in Emails /\ to.pc \notin {"store", "reset", "byEmail"}
  BY <1>1, <1>3, <1>4
<1>9. QED
  BY <1>3, <1>4, <1>6, <1>7, <1>8, GoesOnInv

(* Nobody brings a visitor that comes through Google.                      *)
LEMMA GoogleByEmailInv ==
  ASSUME AccountsInv, NEW v \in Visitors, GoogleByEmail(v)
  PROVE  AccountsInv'
<1>1. PICK t \in VisitSet : t = visitor[v]
  BY DEF AccountsInv, AccountsTypeOK
<1>2. PICK to : to = [t EXCEPT !.pc = IF user[t.email].there THEN "link" ELSE "create"]
  OBVIOUS
<1>3. /\ AccountsTypeOK /\ TrialsEarned /\ GoogleOnce /\ EntriesOpen
      /\ t.pc = "byEmail" /\ Visiting(v) /\ t.email \in Emails /\ t.referrer = NoEmail
      /\ VisitGoesOn(v, to)
      /\ stored' = stored /\ resets' = resets /\ mailed' = mailed /\ tokens' = tokens
      /\ user' = user /\ entries' = entries
  BY <1>1, <1>2 DEF AccountsInv, AccountsTypeOK, GoogleByEmail, Visiting, OnlyRequests
<1>4. /\ to \in VisitSet /\ to.pc \in {"link", "create"} /\ to.number = t.number /\ to.email = t.email
      /\ to.referrer = NoEmail
  BY <1>2, <1>3 DEF VisitSet
<1>5. /\ visitor'[v] = to /\ \A w \in Visitors \ {v} : visitor'[w] = visitor[w]
      /\ visitor' \in [Visitors -> VisitSet]
  BY <1>3, <1>4 DEF VisitGoesOn, AccountsTypeOK
<1>6. RowsKept /\ GoogleOnce' /\ EntriesOpen'
  BY <1>3 DEF RowsKept, AccountsTypeOK, GoogleOnce, EntriesOpen
<1>7. TrialsEarned'
  <2>1. \A w \in Visitors : visitor'[w].pc = "create" /\ visitor'[w].referrer # NoEmail =>
          user[visitor'[w].referrer].there /\ visitor'[w].seen =< Earned(visitor'[w].referrer)
    BY <1>3, <1>4, <1>5 DEF TrialsEarned
  <2>2. \A w \in Visitors : visitor'[w].referrer \in Codes
    BY <1>5 DEF VisitSet
  <2>3. QED
    BY <1>3, <2>1, <2>2, TrialsQuiet
<1>8. to.number = visitor[v].number /\ to.email \in Emails /\ to.pc \notin {"store", "reset", "byEmail"}
  BY <1>1, <1>3, <1>4
<1>9. QED
  BY <1>3, <1>4, <1>6, <1>7, <1>8, GoesOnInv

(* The requests that come.                                                 *)
LEMMA RequestsComeInv ==
  ASSUME AccountsInv, NEW v \in Visitors, NEW e \in Emails,
         \/ TelegramStart(v)
         \/ \E code \in Codes : Register(v, e, code)
         \/ \E g \in GoogleIds : GoogleUnknown(v, g, e)
  PROVE  AccountsInv'
<1>1. LowerCase[e] \in Emails /\ TelegramEmail \in Emails
  BY AccountsAssumption
<1>2. PICK a \in Emails : a = LowerCase[e]
  BY <1>1
<1>3. tokens \in Nat
  BY DEF AccountsInv, AccountsTypeOK
<1>4. CASE TelegramStart(v)
  <2>1. PICK to : to = [Away EXCEPT !.pc = "create", !.kind = "telegram", !.email = TelegramEmail]
    OBVIOUS
  <2>2. to \in VisitSet /\ to.pc = "create" /\ to.email \in Emails /\ to.referrer = NoEmail
    BY <1>1, <2>1 DEF Away, VisitSet, Codes, Ids
  <2>3. Comes(v, to) /\ UNCHANGED <<user, mailed, resets, entries, stored>> /\ tokens' = tokens
    BY <1>4, <2>1 DEF TelegramStart, OnlyRequests
  <2>4. QED
    BY <1>3, <2>2, <2>3, ArrivalInv
<1>5. ASSUME NEW code \in Codes, Register(v, e, code)
      PROVE  AccountsInv'
  <2>1. PICK to : to = [Away EXCEPT !.pc = IF code = NoEmail THEN "create" ELSE "referrer",
                                    !.kind = "register", !.email = a, !.referrer = code]
    OBVIOUS
  <2>2. /\ to \in VisitSet /\ to.pc \in {"create", "referrer"} /\ to.email \in Emails
        /\ to.pc = "create" => to.referrer = NoEmail
    BY <2>1 DEF Away, VisitSet, Codes, Ids
  <2>3. Comes(v, to) /\ UNCHANGED <<user, mailed, resets, entries, stored>> /\ tokens' = tokens
    BY <1>2, <1>5, <2>1 DEF Register, OnlyRequests
  <2>4. QED
    BY <1>3, <2>2, <2>3, ArrivalInv
<1>6. ASSUME NEW g \in GoogleIds, GoogleUnknown(v, g, e)
      PROVE  AccountsInv'
  <2>1. PICK to : to = [Away EXCEPT !.pc = "byEmail", !.kind = "google", !.google = g, !.email = e]
    OBVIOUS
  <2>2. to \in VisitSet /\ to.pc = "byEmail" /\ to.email \in Emails /\ to.referrer = NoEmail
    BY <2>1 DEF Away, VisitSet, Codes, Ids
  <2>3. Comes(v, to) /\ UNCHANGED <<user, mailed, resets, entries, stored>> /\ tokens' = tokens
    BY <1>6, <2>1 DEF GoogleUnknown, OnlyRequests
  <2>4. QED
    BY <1>3, <2>2, <2>3, ArrivalInv
<1>7. QED
  BY <1>4, <1>5, <1>6

(* A token is created that nobody has.                                     *)
LEMMA ForgotPasswordInv ==
  ASSUME AccountsInv, NEW v \in Visitors, NEW e \in Emails, ForgotPassword(v, e)
  PROVE  AccountsInv'
<1>1. PICK a \in Emails : a = LowerCase[e]
  BY AccountsAssumption
<1>2. PICK token \in Nat : token = tokens + 1
  BY DEF AccountsInv, AccountsTypeOK
<1>3. tokens \in Nat /\ TokensStored
  BY DEF AccountsInv, AccountsTypeOK, TokensInv
<1>4. PICK to : to = [Away EXCEPT !.pc = "store", !.kind = "forgot", !.email = a, !.token = token]
  OBVIOUS
<1>5. to \in VisitSet /\ to.pc = "store" /\ to.email \in Emails /\ to.token = token
  BY <1>4 DEF Away, VisitSet, Codes, Ids
<1>6. /\ Comes(v, to) /\ UNCHANGED <<user, mailed, resets, entries, stored>>
      /\ tokens' = token /\ tokens' \in Nat /\ tokens' >= tokens
  BY <1>1, <1>2, <1>3, <1>4 DEF ForgotPassword
<1>7. /\ to.token \in 1 .. tokens'
      /\ \A n \in stored : n.token # to.token
      /\ \A w \in Visitors \ {v} : visitor[w].pc = "store" => visitor[w].token # to.token
  <2>1. \A i \in 1 .. tokens : i # token
    BY <1>2, <1>3
  <2>2. token \in 1 .. tokens'
    BY <1>2, <1>3, <1>6
  <2>3. QED
    BY <1>3, <1>5, <2>1, <2>2 DEF TokensStored
<1>8. QED
  BY <1>5, <1>6, <1>7, ArrivalInv

(* A token that is in a row is the latest one and was not used.            *)
LEMMA ResetPasswordInv ==
  ASSUME AccountsInv, NEW v \in Visitors, NEW m \in mailed, ResetPassword(v, m)
  PROVE  AccountsInv'
<1>1. PICK e \in Emails : e = m.email
  BY DEF AccountsInv, AccountsTypeOK
<1>2. PICK token \in Nat : token = m.token
  BY DEF AccountsInv, AccountsTypeOK
<1>3. /\ tokens \in Nat /\ TokensStored /\ RowsLatest /\ UsedUp /\ user[e].reset = token
      /\ StoredFor(token, e)
  BY <1>1, <1>2 DEF AccountsInv, AccountsTypeOK, TokensInv, TokensStored, ResetPassword, TokenFits
<1>4. token # 0
  BY <1>3 DEF TokensStored, StoredFor
<1>5. PICK to : to = [Away EXCEPT !.pc = "reset", !.kind = "reset", !.email = e, !.token = token]
  OBVIOUS
<1>6. to \in VisitSet /\ to.pc = "reset" /\ to.email = e /\ to.token = token
  BY <1>5 DEF Away, VisitSet, Codes, Ids
<1>7. Comes(v, to) /\ UNCHANGED <<user, mailed, resets, entries, stored>> /\ tokens' = tokens
  BY <1>1, <1>2, <1>5 DEF ResetPassword, OnlyRequests
<1>8. \A o, n \in stored : o.token = token => ~Overtakes(n, o)
  BY <1>3, <1>4 DEF RowsLatest
<1>9. \A r \in resets : r.token # token
  BY <1>3 DEF UsedUp
<1>10. QED
  BY <1>3, <1>6, <1>7, <1>8, <1>9, ArrivalInv

(* The steps of no visitor.                                                *)
LEMMA TokenExpiresInv ==
  ASSUME AccountsInv, NEW m \in mailed, TokenExpires(m)
  PROVE  AccountsInv'
<1>1. /\ UNCHANGED <<visitor, visits, meetings, stored, resets, tokens, user, entries>>
      /\ mailed' \subseteq mailed
  BY DEF TokenExpires
<1>2. user' \in [Emails -> Rows] /\ EntriesOpen'
  BY <1>1 DEF AccountsInv, AccountsTypeOK, EntriesOpen
<1>3. QED
  BY <1>1, <1>2, NobodyMovesInv

(* The tokens that are handed out: only Google's way in does not ask       *)
(* whether the account is on.                                              *)
LEMMA LogInInv ==
  ASSUME AccountsInv, (\E e \in Emails : LogIn(e)) \/ (\E g \in GoogleIds : GoogleKnown(g))
  PROVE  AccountsInv'
<1>1. /\ UNCHANGED <<visitor, visits, meetings, stored, resets, tokens, user, mailed>>
      /\ \E e \in Emails : Enter(e, "google") \/ (user[e].active /\ Enter(e, "password"))
  BY AccountsAssumption DEF LogIn, GoogleKnown
<1>2. \A n \in entries' : n.active \/ n.by = "google"
  BY <1>1 DEF AccountsInv, EntriesOpen, Enter
<1>3. user' \in [Emails -> Rows] /\ EntriesOpen'
  BY <1>1, <1>2 DEF AccountsInv, AccountsTypeOK, EntriesOpen
<1>4. QED
  BY <1>1, <1>3, NobodyMovesInv

LEMMA ToggleActiveInv ==
  ASSUME AccountsInv, NEW e \in Emails, ToggleActive(e)
  PROVE  AccountsInv'
<1>1. UNCHANGED <<visitor, visits, meetings, stored, resets, tokens, mailed, entries>>
  BY DEF ToggleActive
<1>2. AccountsTypeOK /\ EntriesOpen
  BY DEF AccountsInv
<1> DEFINE now == [user[e] EXCEPT !.active = ~@]
<1>3. user' = [user EXCEPT ![e] = now]
  BY DEF ToggleActive
<1>4. /\ now \in Rows /\ now.trial = user[e].trial /\ now.there = user[e].there
      /\ now.referrer = user[e].referrer /\ now.reset = user[e].reset /\ now.google = user[e].google
  <2>1. user[e] \in Rows
    BY <1>2 DEF AccountsTypeOK
  <2>2. QED
    BY <2>1 DEF Rows
<1> HIDE DEF now
<1>5. user' \in [Emails -> Rows] /\ user'[e] = now /\ \A f \in Emails \ {e} : user'[f] = user[f]
  BY <1>2, <1>3, <1>4 DEF AccountsTypeOK
<1>6. \A f \in Emails : /\ user'[f].trial = user[f].trial /\ user'[f].there = user[f].there
                        /\ user'[f].referrer = user[f].referrer /\ user'[f].reset = user[f].reset
                        /\ user'[f].google = user[f].google
  BY <1>4, <1>5
<1>7. EntriesOpen'
  BY <1>1, <1>2 DEF EntriesOpen
<1>8. QED
  BY <1>1, <1>5, <1>6, <1>7, NobodyMovesInv

LEMMA AccountsStepInv == AccountsInv /\ [AccountsNext]_accountVars => AccountsInv'
<1> SUFFICES ASSUME AccountsInv, [AccountsNext]_accountVars PROVE AccountsInv'
  OBVIOUS
<1>1. ASSUME NEW v \in Visitors, ReadInviter(v) \/ CreateUser(v) \/ GoogleByEmail(v) \/ LinkGoogle(v)
      PROVE  AccountsInv'
  BY <1>1, ReadInviterInv, CreateUserInv, GoogleByEmailInv, LinkGoogleInv
<1>2. ASSUME NEW v \in Visitors, StoreToken(v) \/ CommitReset(v)
      PROVE  AccountsInv'
  BY <1>2, StoreTokenInv, CommitResetInv
<1>3. ASSUME NEW v \in Visitors, TelegramStart(v)
      PROVE  AccountsInv'
  <2>1. TelegramEmail \in Emails
    BY AccountsAssumption
  <2>2. QED
    BY <1>3, <2>1, RequestsComeInv
<1>4. ASSUME NEW v \in Visitors, NEW e \in Emails,
             \/ ForgotPassword(v, e)
             \/ \E code \in Emails \cup {NoEmail} : Register(v, e, code)
             \/ \E g \in GoogleIds : GoogleUnknown(v, g, e)
      PROVE  AccountsInv'
  <2>1. CASE ForgotPassword(v, e)
    BY <2>1, ForgotPasswordInv
  <2>2. CASE \E code \in Codes : Register(v, e, code)
    BY <2>2, RequestsComeInv
  <2>3. CASE \E g \in GoogleIds : GoogleUnknown(v, g, e)
    BY <2>3, RequestsComeInv
  <2>4. QED
    BY <1>4, <2>1, <2>2, <2>3 DEF Codes
<1>5. ASSUME NEW v \in Visitors, NEW m \in mailed, ResetPassword(v, m)
      PROVE  AccountsInv'
  BY <1>5, ResetPasswordInv
<1>6. ASSUME NEW m \in mailed, TokenExpires(m)
      PROVE  AccountsInv'
  BY <1>6, TokenExpiresInv
<1>7. ASSUME NEW e \in Emails, ToggleActive(e)
      PROVE  AccountsInv'
  BY <1>7, ToggleActiveInv
<1>8. ASSUME (\E e \in Emails : LogIn(e)) \/ (\E g \in GoogleIds : GoogleKnown(g))
      PROVE  AccountsInv'
  BY <1>8, LogInInv
<1>9. CASE UNCHANGED accountVars
  <2>1. /\ UNCHANGED <<visitor, visits, meetings, stored, resets, tokens, user, mailed, entries>>
    BY <1>9 DEF accountVars
  <2>2. user' \in [Emails -> Rows] /\ EntriesOpen'
    BY <2>1 DEF AccountsInv, AccountsTypeOK, EntriesOpen
  <2>3. QED
    BY <2>1, <2>2, NobodyMovesInv
<1>10. QED
  BY <1>1, <1>2, <1>3, <1>4, <1>5, <1>6, <1>7, <1>8, <1>9 DEF AccountsNext

LEMMA AccountsInvSuffices == AccountsInv => AccountsSound
<1> SUFFICES ASSUME AccountsInv PROVE AccountsSound
  OBVIOUS
<1>1. \A r, s \in resets : r.token = s.token => Met(r.visit, s.visit)
  BY DEF AccountsInv, TokensInv, UsedOnce
<1>2. \A r \in resets : ~Superseded(r)
  BY DEF AccountsInv, TokensInv, ResetsInTime, Superseded, Overtakes
<1>3. \A e, f \in Emails : user[e].google = user[f].google /\ user[e].google # "none" => e = f
  BY DEF AccountsInv, GoogleOnce
<1>4. \A n \in entries : n.active \/ n.by = "google"
  BY DEF AccountsInv, EntriesOpen
<1>5. \A e \in Emails : user[e].trial =< FirstTrial + ReferralDays * Cardinality(Invited(e))
  BY DEF AccountsInv, TrialsEarned, Earned
<1>6. QED
  BY <1>1, <1>2, <1>3, <1>4, <1>5 DEF AccountsSound

(* However the requests interleave: a reset link changes one password,     *)
(* unless two requests with it overlapped, and none at all once a newer    *)
(* one was stored; a Google id has one account; who is switched off gets   *)
(* in through Google only; and the bonus days of a trial were each         *)
(* invited by an account that exists.                                      *)
THEOREM AccountsAreSound == AccountsSpec => []AccountsSound
<1>1. AccountsSpec => []AccountsInv
  BY AccountsInitInv, AccountsStepInv, PTL DEF AccountsSpec
<1>2. QED
  BY <1>1, AccountsInvSuffices, PTL
=============================================================================
