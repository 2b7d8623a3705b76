----------------------------- MODULE DemoMarket -----------------------------
(***************************************************************************)
(* What the market pages of the demo show of a bond: the row of the table  *)
(* and of the search, with the stored score while it agrees with the       *)
(* yield of now; the card, computed from the quote; the yield that the     *)
(* curve takes; the effect of a purchase on the demo portfolio and the     *)
(* return that a strategy promises (api/demo.py).  Units as in Scoring.    *)
(***************************************************************************)
EXTENDS Scoring

CONSTANTS
  Shelves,       \* the bonds of the table, in the order of their names, each
                 \* with what becomes of it: papers as in Scoring, also with the
                 \* yield at the date of the demo (frozen), and whether the
                 \* scraper brings them or only time passes (told)
  SearchLimit,
  Purchases      \* purchases for the demo portfolio: see Impact

\* A paper of the demo is a row of the bonds: it has every field.
DemoPaperType ==
  [price : Int, coupon : Int, life : Int, semi : Int, own : Int, discount : Int, source : Int, frozen : Int,
   issuer : [known : BOOLEAN, profiles : SUBSET Nat, words : SUBSET STRING], currency : STRING, metal : BOOLEAN,
   named : STRING, market : STRING, status : STRING, told : BOOLEAN]

ASSUME DemoAssumption ==
  /\ \A shelf \in Shelves : /\ shelf \in Seq(Seq(DemoPaperType) \ {<< >>})
                            /\ \A b \in DOMAIN shelf : \A i \in DOMAIN shelf[b] : PaperType(shelf[b][i])
  /\ SearchLimit \in Nat
  /\ \A q \in Purchases : {q.ytm, q.duration, q.held, q.allowed, q.bond.ytm, q.bond.duration} \subseteq Int

VARIABLE demo    \* the shelf; of every bond which paper it is by now, the yield
                 \* in its row, the row of bond_scores, and whether the bond
                 \* is what it was when that was computed

NoScoreRow == [total |-> 0, points |-> 0, tier |-> "none"]

ScoreRow(s) == [total |-> s.score, points |-> s.breakdown["yield"], tier |-> s.tier]

PaperNow(b) == demo.shelf[b][demo.at[b]]

DemoInit ==
  \E shelf \in Shelves :
    demo = [shelf |-> shelf, at |-> [b \in DOMAIN shelf |-> 1], ytm |-> [b \in DOMAIN shelf |-> shelf[b][1].source],
            row |-> [b \in DOMAIN shelf |-> NoScoreRow], scored |-> {}]

\* A new quote with the yield of the source, or only another day.
MovesOn(b) ==
  LET next == demo.shelf[b][demo.at[b] + 1]
  IN /\ demo.at[b] < Len(demo.shelf[b])
     /\ demo' = [demo EXCEPT !.at[b] = @ + 1, !.ytm[b] = IF next.told THEN next.source ELSE @,
                             !.scored = @ \ {b}]

\* recompute_all
RecomputeMarket ==
  LET found == [b \in DOMAIN demo.shelf |-> Sanitized(Solved(PaperNow(b), demo.ytm[b]))]
  IN demo' = [demo EXCEPT !.ytm = found, !.scored = DOMAIN demo.shelf,
                          !.row = [b \in DOMAIN @ |-> ScoreRow(ScoreBond(PaperNow(b), found[b], << >>, << >>))]]

DemoNext == RecomputeMarket \/ \E b \in DOMAIN demo.shelf : MovesOn(b)

DemoSpec == DemoInit /\ [][DemoNext]_demo

-----------------------------------------------------------------------------
(* The card: _bond_analytics, _bond_payload.                               *)

Ended(p) == p.life # Absent /\ p.life < 0

\* honest_yield of what is stored, and only if it is positive.
Honest(p, stored) == IF NoCouponMetal(p) \/ stored <= 0 THEN Absent ELSE stored

\* The price of now decides, whatever is stored, and it may decide for a loss.
YieldNow(p, stored) ==
  LET solved == IF ~NoCouponMetal(p) /\ p.price # Absent /\ p.coupon > 0 THEN p.own ELSE Absent
      y == IF solved # Absent THEN solved ELSE Honest(p, stored)
  IN IF Ended(p) \/ y > 100 THEN Absent ELSE y

PriceNow(p) == IF Ended(p) THEN Absent ELSE p.price

Distress(p, y) == PriceNow(p) # Absent /\ PriceNow(p) < 80 /\ y > 30

ScoreNow(p, y) ==
  IF PriceNow(p) = Absent /\ y = Absent THEN NoScoreRow
  ELSE ScoreRow(ScoreBond([p EXCEPT !.price = PriceNow(p)], IF y = 0 THEN Absent ELSE y, << >>, << >>))

\* What the duration is computed from: the payments at a yield, or the life.
PaymentsAt(y) == <<"payments", y>>
CardDuration(p, y) == IF p.life = Absent THEN << >> ELSE IF y = Absent THEN <<"life">> ELSE PaymentsAt(y)

CardAt(p, y) ==
  [ytm |-> y, distressed |-> Distress(p, y), duration |-> CardDuration(p, y), score |-> ScoreNow(p, y)]

Card(b) == CardAt(PaperNow(b), YieldNow(PaperNow(b), demo.ytm[b]))

-----------------------------------------------------------------------------
(* The table and the search: _fast_bond_payload, _build_market_snapshot,   *)
(* _build_search_snapshot.                                                 *)

Apart(m, n) == Larger(m - n, n - m)

\* _score_stale
ScoreStale(row, y) ==
  IF y <= 0 THEN row.points > 0
  ELSE Apart(YieldPoints(y), row.points) > (IF y <= 40 THEN 100 ELSE 150)

\* The score of a row is told nothing of an indexation.
Unindexed(p) == [p EXCEPT !.metal = p.currency \in {"XAU", "XAG", "XPT"}]

TableDuration(p, y) == IF p.life = Absent THEN << >> ELSE PaymentsAt(IF y = Absent THEN 0 ELSE y)

Stored(row, p, y) == row # NoScoreRow /\ ~Ended(p) /\ ~ScoreStale(row, y)

TableRowAt(row, p, y) ==
  [ytm |-> y, distressed |-> Distress(p, y), duration |-> TableDuration(p, y), stored |-> Stored(row, p, y),
   score |-> IF Stored(row, p, y) THEN row ELSE ScoreNow(Unindexed(p), y)]

TableRow(b) == TableRowAt(demo.row[b], PaperNow(b), YieldNow(PaperNow(b), demo.ytm[b]))

Plausible(b) == PaperNow(b).price \in 10 .. 150

OnSale == {b \in DOMAIN demo.shelf : PaperNow(b).status = "active" /\ PaperNow(b).price # Absent}

Table == {b \in OnSale : Plausible(b)}

\* The first matches by name, and of those the plausible ones.
SearchOf(matches) ==
  {b \in matches \cap Table : Cardinality({c \in matches \cap OnSale : c < b}) < SearchLimit}

\* _enrich_ytm_for_curves: what is stored comes first; what is out of reach
\* stays as it is.
CurveYield(p, stored) ==
  LET honest == Honest(p, stored)
      y == IF honest # Absent \/ NoCouponMetal(p) \/ p.price = Absent \/ p.coupon = Absent \/ p.frozen <= 0
           THEN honest ELSE p.frozen
  IN IF y = Absent \/ y > 100 THEN stored ELSE y

-----------------------------------------------------------------------------
(* _build_impact and _guarded_expected_return.                             *)

\* In hundredths: yields and durations before, what the issuer has before and
\* may have, the bond, and how much of the portfolio it takes, in per cent.
Impact(q, alloc) ==
  [ytm |-> q.ytm * (100 - alloc) + q.bond.ytm * alloc,
   duration |-> q.duration * (100 - alloc) + q.bond.duration * alloc,
   fit |-> IF q.held + alloc > q.allowed THEN 0 ELSE IF q.bond.duration > 400 THEN 1 ELSE 2]

\* STRATEGY_PROFILES, in the order of STRATEGY_ORDER.
BaseReturn == <<950, 1100, 1150, 1240, 1350, 1500, 1650>>

ExpectedReturn(i, portfolio) ==
  LET gaps == {BaseReturn[j + 1] - BaseReturn[j] : j \in {i - 1, i} \cap (1 .. 6)}
      band == Larger(20, Min(gaps) \div 2 - 5)
  IN BaseReturn[i] + Larger(-band, Smaller(band, portfolio - 1240))

-----------------------------------------------------------------------------
\* A yield that was stored as 0 or below is wiped by a recomputation, which
\* solves none in its place: until the next one, the stored score is computed
\* from two coupons a year or from the discount, the card from the price.
Wiped(b) == demo.ytm[b] = Absent /\ Card(b).ytm > 0

\* The table and the card never contradict each other: the same yield, warning
\* and, with a yield, duration, and the same score, unless the stored one is shown, whose
\* points for the yield are those of the yield of now; and once the scores
\* were computed for the bond as it is, the score is the same, unless its yield
\* was wiped.
TableMatchesCard ==
  \A b \in Table : \A row \in {TableRow(b)}, card \in {Card(b)}, p \in {PaperNow(b)} :
    /\ row.ytm = card.ytm /\ row.distressed = card.distressed
    /\ row.ytm # Absent => row.duration = card.duration
    /\ ~row.stored /\ (NoCouponMetal(p) => NoCouponMetal(Unindexed(p))) => row.score = card.score
    /\ row.stored => Apart(row.score.points, YieldPoints(Larger(row.ytm, 0))) <= 150
    /\ b \in demo.scored /\ ~Wiped(b) => row.score = card.score
    /\ Ended(p) => row.score = NoScoreRow /\ row.ytm = Absent

\* A search leaves out a bond of the table only where as many as it shows
\* match before it.
SearchInTable ==
  \A matches \in SUBSET DOMAIN demo.shelf :
    \A b \in (matches \cap Table) \ SearchOf(matches) :
      Cardinality({c \in matches : c < b}) >= SearchLimit

\* The curve of a bond whose score was computed as it is has the yield of its
\* card, unless that was wiped.
CurveMatchesCard ==
  \A b \in demo.scored \cap OnSale :
    \A y \in {Card(b).ytm} : y > 0 /\ ~Wiped(b) => CurveYield(PaperNow(b), demo.ytm[b]) = y

\* Whatever the bond, a larger purchase fits the profile no better, and moves
\* the yield and the duration towards those of the bond; whatever two
\* portfolios yield, the bolder strategy promises the higher return.
PromisesOrdered ==
  /\ \A q \in Purchases : \A a, b \in {5, 10, 15} : a < b =>
       /\ Impact(q, b).fit <= Impact(q, a).fit
       /\ Apart(100 * q.bond.ytm, Impact(q, b).ytm) <= Apart(100 * q.bond.ytm, Impact(q, a).ytm)
       /\ Apart(100 * q.bond.duration, Impact(q, b).duration)
            <= Apart(100 * q.bond.duration, Impact(q, a).duration)
  /\ \A i, j \in DOMAIN BaseReturn : i < j =>
       \A x, y \in {0, 1150, 1190, 1240, 1255, 1290, 3000} : ExpectedReturn(i, x) < ExpectedReturn(j, y)

DemoHolds == TableMatchesCard /\ SearchInTable /\ CurveMatchesCard /\ PromisesOrdered
=============================================================================
