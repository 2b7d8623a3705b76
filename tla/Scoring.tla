------------------------------- MODULE Scoring -------------------------------
(***************************************************************************)
(* The Reward/Risk score of a bond: its eleven components and what is      *)
(* derived from them (scoring/engine.py), the yield it is computed from    *)
(* and written back to the row (scoring/repository.py), the profiles of    *)
(* the issuers (scoring/issuer_risk.py), the gate on the input             *)
(* (scoring/data_quality.py) and the explanation (scoring/explain.py).     *)
(*                                                                         *)
(* Yields, prices and coupons are whole per cent, points are hundredths,   *)
(* times are months.  What the solvers and the curves of the code compute  *)
(* is given: by the quotes, by Log and by Sigmoid.                         *)
(***************************************************************************)
EXTENDS Integers, Sequences, FiniteSets, FiniteSetsExt

CONSTANTS
  Papers,        \* the bonds to score: see PaperType
  Log,           \* points beyond 40 per cent, by the per cent beyond 39
  Sigmoid,       \* points of a life above half a year, by its months
  PastYields,    \* yields of the past of a bond, or of its peers, as sequences
  Reports        \* figures of reports of issuers: see ReportType

Absent == -9999  \* None, of a yield, price, coupon or life

Parts == {"yield", "currency", "duration", "liquidity", "metal", "credit", "inflation",
          "coupon", "volatility", "hist_vol", "peer"}

\* PROFILES, in their order.
ProfileCredit ==
  <<1200, 800, 1000, 400, 300, 250, 200, 300, 150, 100, 0, -50, -150, -100, -100, -100, -150, -150,
    -200, -500>>

\* What a paper has: the quote with the yields that solvers find from it (with
\* two coupons a year, with its own number of them, as a discount bond), and
\* what the source and the issuer tell.  A name is the set of the profiles
\* whose alias it holds, and of the kinds of keywords.  The curves are given at
\* the yields and lives that can count.
PaperType(p) ==
  /\ \A field \in {"price", "coupon", "life", "semi", "own", "discount", "source"} : p[field] \in Int
  /\ p.issuer.profiles \subseteq 1 .. Len(ProfileCredit) /\ p.metal \in BOOLEAN
  /\ \A y \in {p.semi, p.coupon} : y > 40 => y - 39 \in DOMAIN Log
  /\ \A y \in {p.discount, p.own, p.source} : y > 40 /\ y <= 1000 => y - 39 \in DOMAIN Log
  /\ p.life > 6 => p.life \in DOMAIN Sigmoid
  /\ p.price = Absent \/ p.life <= 0 => p.semi = Absent /\ p.own = Absent /\ p.discount = Absent
  /\ p.coupon = Absent => p.semi = Absent /\ p.own = Absent
  /\ p.price = Absent \/ p.price > 0
  /\ p.currency \in {"XAU", "XAG", "XPT"} => p.metal

\* The figures of a report; what others are divided by is not negative.
Figures == {"debt", "assets", "equity", "income", "revenue", "current", "due"}
ReportType(r) ==
  /\ \A f \in Figures : r[f] \in Int
  /\ \A f \in {"assets", "revenue", "current", "due"} : r[f] >= 0 \/ r[f] = Absent

ASSUME ScoringAssumption ==
  /\ \A n \in DOMAIN Log : Log[n] \in Nat
  /\ \A m \in DOMAIN Sigmoid : Sigmoid[m] \in -400 .. 800
  /\ \A p \in Papers : PaperType(p)
  /\ \A s \in PastYields : s \in Seq(Int)
  /\ \A r \in Reports : ReportType(r)

VARIABLE rating  \* a bond, the yield in its row, and its score when it was computed last

-----------------------------------------------------------------------------
(* The components.                                                         *)

\* The points of the first rung that the value reaches.
Rung(value, ladder, otherwise) ==
  LET reached == {i \in DOMAIN ladder : value >= ladder[i][1]}
  IN IF reached = {} THEN otherwise ELSE ladder[Min(reached)][2]

\* What stands beside the first kind of keyword that the name holds.
FirstNamed(issuer, list, otherwise) ==
  LET held == {i \in DOMAIN list : list[i][1] \in issuer.words}
  IN IF held = {} THEN otherwise ELSE list[Min(held)][2]

Smaller(a, b) == IF a < b THEN a ELSE b
Larger(a, b) == IF a < b THEN b ELSE a

YieldPoints(y) ==
  IF y <= 0 THEN 0 ELSE IF y <= 40 THEN 100 * y ELSE 4000 + Log[y - 39]

CurrencyPoints(c) ==
  CASE c = "USD" -> 1800 [] c = "XAU" -> 1600 [] c = "BYN" -> 1400 [] c = "XAG" -> 1300
    [] c \in {"RUB", "CNY", "EUR"} -> 1200 [] OTHER -> 1000

DurationPoints(life) ==
  IF life = Absent THEN 0 ELSE IF life <= 6 THEN 800 ELSE Sigmoid[life]

CouponPoints(c, y) ==
  IF c = Absent THEN 0
  ELSE IF c <= 0 THEN -300
  ELSE Smaller(50 * c, 600) + (IF y > 0 /\ 5 * c > 4 * y THEN 100 ELSE 0)

LiquidityPoints(p) ==
    (IF p.price = Absent THEN 0 ELSE IF p.price \in 85 .. 115 THEN 700 ELSE 500)
  + (CASE p.status = "active" -> 400 [] p.status \in {"offer", "matured"} -> -500 [] OTHER -> 0)
  + (IF p.life = Absent \/ p.life >= 12 THEN 0 ELSE IF p.life < 6 THEN 500 ELSE 300)

MetalPoints(p) ==
  CASE p.currency = "XAU" -> 500 [] p.currency = "XAG" -> 400 [] p.currency = "XPT" -> 300
    [] OTHER -> CASE p.named = "gold" -> 500 [] p.named = "silver" -> 300 [] p.named = "platinum" -> 200
                  [] OTHER -> FirstNamed(p.issuer, <<<<"gold", 300>>, <<"norilsk", 200>>, <<"steel", 100>>>>, 0)

\* lookup_issuer_profile: the first of the list whose alias is in the name.
Profile(issuer) == IF issuer.profiles = {} THEN 0 ELSE Min(issuer.profiles)

Classified(issuer) ==
  IF ~issuer.known THEN "unknown"
  ELSE FirstNamed(issuer, <<<<"state", "sovereign">>, <<"systemic", "bank_systemic">>, <<"bank", "bank">>,
                            <<"gas", "state_corp">>, <<"federal", "sub_sovereign">>>>, "corp")

TierPoints(tier) ==
  CASE tier = "sovereign" -> 1200 [] tier = "sub_sovereign" -> 800 [] tier = "state_corp" -> 600
    [] tier = "bank_systemic" -> 300 [] tier = "bank" -> 0 [] tier = "corp" -> -300
    [] tier = "unknown" -> -200

CreditPoints(p) ==
  CASE p.status = "delisted" -> -2800 [] p.status = "matured" -> -1200 [] p.status = "defaulted" -> -3500
    [] OTHER -> IF Profile(p.issuer) # 0 THEN ProfileCredit[Profile(p.issuer)]
                ELSE TierPoints(Classified(p.issuer))

\* A yield that is absent is below every rung.
InflationPoints(p, y) ==
  CASE p.market = "moex" /\ p.currency = "RUB" -> Rung(y, <<<<18, 500>>, <<14, 300>>, <<10, 0>>>>, -200)
    [] p.market = "moex" /\ p.currency = "BYN" -> Rung(y, <<<<10, 200>>>>, -100)
    [] p.market # "moex" /\ p.currency = "BYN" -> Rung(y, <<<<12, 500>>, <<8, 200>>, <<5, -100>>>>, -500)
    [] p.market # "moex" /\ p.currency = "RUB" -> Rung(y, <<<<16, 400>>, <<12, 200>>>>, -100)
    [] p.currency = "USD" -> Rung(y, <<<<10, 600>>, <<5, 400>>>>, 300)
    [] p.currency = "EUR" -> Rung(y, <<<<5, 100>>>>, -200)
    [] p.currency = "CNY" -> Rung(y, <<<<6, 200>>>>, 0)
    [] OTHER -> Rung(y, <<<<2, 0>>>>, -300)

VolatilityPoints(p, y) ==
    (IF y > 60 THEN -700 ELSE IF y > 35 THEN -300 ELSE 0)
  + (CASE p.price = Absent -> 0 [] p.price # Absent /\ p.price \notin 30 .. 200 -> -400
       [] p.price \in (30 .. 49) \cup (151 .. 200) -> -100 [] OTHER -> 0)
  + (IF p.status \in {"delisted", "defaulted", "suspended"} THEN -500 ELSE 0)
  + (IF p.coupon # Absent /\ p.coupon <= 0 /\ y # Absent /\ y < 3 THEN -200 ELSE 0)

\* The values of a function, added up.
Total(values) == MapThenSumSet(LAMBDA x : values[x], DOMAIN values)

\* The yields that are kept, their number and the sums that the deviations are
\* computed from: the variance is spread / (n (n - 1)).
Positive(s) == [i \in {j \in DOMAIN s : s[j] > 0} |-> s[i]]
Number(s) == Cardinality(DOMAIN s)
Spread(s) == Number(s) * Total([i \in DOMAIN s |-> s[i] * s[i]]) - Total(s) * Total(s)

HistoryPoints(past) ==
  LET s == Positive(past)
      pairs == Number(s) * (Number(s) - 1)
  IN IF Number(s) < 3 THEN 0
     ELSE Rung(4 * Spread(s), <<<<400 * pairs, -400>>, <<100 * pairs, -200>>, <<16 * pairs, 0>>,
                                <<4 * pairs, 100>>, <<pairs, 300>>>>, 500)

PeerPoints(peers, y) ==
  LET s == Positive(peers)
      n == Number(s)
      above == n * y - Total(s)
      \* the z-score, squared, against k squared, without the division
      Square == above * above * (n - 1)
      Of(k) == k * k * n * Spread(s)
  IN IF y <= 0 \/ n < 5 \/ 100 * Spread(s) < n * (n - 1) THEN 0
     ELSE IF above >= 0 THEN Rung(Square, <<<<Of(2), 500>>, <<Of(1), 300>>>>, 100)
     ELSE IF Square > Of(2) THEN -500 ELSE IF Square > Of(1) THEN -300 ELSE -100

-----------------------------------------------------------------------------
(* score_bond.                                                             *)

NoCouponMetal(p) == p.metal /\ p.coupon <= 0

\* The yield that counts: the one given, or one derived from the quote; a
\* bond without a price is taken to yield its coupon.
Derived(p, given) ==
  CASE NoCouponMetal(p) -> Absent
    [] ~NoCouponMetal(p) /\ given > 0 -> given
    [] OTHER -> LET solved == IF p.coupon > 0 /\ p.semi > 0 THEN p.semi
                              ELSE IF p.discount > 0 /\ p.discount < 1000 THEN p.discount ELSE Absent
                IN IF solved = Absent /\ p.price = Absent /\ p.coupon > 0 THEN p.coupon ELSE solved

Distressed(p, y) == p.price # Absent /\ p.price < 70 /\ y > 40

PointsOf(part, p, y, past, peers) ==
  CASE part = "yield" -> IF Distressed(p, y) THEN Smaller(YieldPoints(y), 2000) ELSE YieldPoints(y)
    [] part = "currency" -> CurrencyPoints(p.currency)
    [] part = "duration" -> DurationPoints(p.life)
    [] part = "liquidity" -> LiquidityPoints(p)
    [] part = "metal" -> MetalPoints(p)
    [] part = "credit" -> CreditPoints(p)
    [] part = "inflation" -> InflationPoints(p, y)
    [] part = "coupon" -> CouponPoints(p.coupon, y)
    [] part = "volatility" -> VolatilityPoints(p, y) - (IF Distressed(p, y) THEN 1800 ELSE 0)
    [] part = "hist_vol" -> HistoryPoints(past)
    [] part = "peer" -> PeerPoints(peers, y)

Breakdown(p, y, past, peers) == [part \in Parts |-> PointsOf(part, p, y, past, peers)]

Reward(breakdown) == Total([part \in Parts \ {"volatility"} |-> Larger(breakdown[part], 0)])
Risk(breakdown) == Total([part \in Parts |-> -Smaller(breakdown[part], 0)])

\* In hundredths, of 15.
Efficiency(breakdown) ==
  IF Reward(breakdown) < 50 THEN 0
  ELSE (1500 * Reward(breakdown)) \div (Reward(breakdown) + Risk(breakdown) + 100)

Tier(score) == Rung(score, <<<<8500, "S">>, <<7500, "A">>, <<6000, "B">>, <<4500, "C">>>>, "D")

ScoreFrom(breakdown) ==
  [breakdown |-> breakdown, score |-> Total(breakdown), reward |-> Reward(breakdown),
   risk |-> Risk(breakdown), efficiency |-> Efficiency(breakdown), tier |-> Tier(Total(breakdown))]

ScoreBond(p, given, past, peers) == ScoreFrom(Breakdown(p, Derived(p, given), past, peers))

-----------------------------------------------------------------------------
(* recompute_all, for one row.                                             *)

\* _validate_stored_ytm: what the price implies, else a plausible yield.
Validated(p, stored) ==
  IF stored <= 0 THEN Absent
  ELSE IF p.own > 0 THEN p.own
  ELSE IF stored < 100 THEN stored ELSE Absent

\* A yield is solved only where the source gave none.
Solved(p, stored) ==
  IF NoCouponMetal(p) THEN Absent
  ELSE IF stored = Absent THEN (IF p.own > 0 THEN p.own ELSE Absent) ELSE Validated(p, stored)

Sanitized(y) == IF y <= 0 \/ y > 1000 THEN Absent ELSE y

Unscored == [score |-> 0, tier |-> "none"]

ScoringInit ==
  \E p \in Papers :
    rating = [paper |-> p, ytm |-> p.source, score |-> Unscored, runs |-> 0,
              before |-> [ytm |-> p.source, score |-> Unscored]]

Recompute ==
  LET ytm == Sanitized(Solved(rating.paper, rating.ytm))
  IN /\ rating.runs < 3
     /\ rating' = [rating EXCEPT !.ytm = ytm, !.score = ScoreBond(rating.paper, ytm, << >>, << >>),
                                 !.runs = @ + 1,
                                 !.before = [ytm |-> rating.ytm, score |-> rating.score]]

\* The next scrape writes the yield of the source over the one in the row.
ScrapeAgain ==
  /\ rating.runs > 0
  /\ rating' = [rating EXCEPT !.ytm = rating.paper.source, !.runs = 0]

\* top_scores: a comparison with NULL is not true, nor is its negation.
ExcludedStatuses == {"defaulted", "bankrupt", "suspended", "delisted", "matured"}

\* A mistake: a bond is left out only where both values tell so.
MutListed(p, y) ==
  /\ p.status \notin ExcludedStatuses
  /\ y <= 100
  /\ ~(p.price # Absent /\ p.price < 80 /\ y > 30)

Listed(p, y) ==
  /\ p.status \notin ExcludedStatuses
  /\ y = Absent \/ y <= 100
  /\ (p.price # Absent /\ p.price >= 80) \/ (y # Absent /\ y <= 30)

-----------------------------------------------------------------------------
(* validate_bond_data and score_bond_safe: how bad a feed is, 0 to 2.      *)

Severities(p, y, feed) ==
  IF ~feed.named THEN {2}
  ELSE {0}
    \cup (IF feed.isin = "odd" \/ feed.age > 48 THEN {1} ELSE {})
    \cup (IF y = Absent THEN {1} ELSE IF y < -10 \/ y > 100 THEN {2} ELSE {})
    \cup (IF p.life # Absent /\ p.life < -12 THEN {1} ELSE IF p.life > 1200 THEN {2} ELSE {})
    \cup (IF p.price # Absent /\ feed.nominal > 0 /\ p.price * 100 \notin feed.nominal .. (500 * feed.nominal)
          THEN {1} ELSE {})
    \cup (IF p.coupon # Absent /\ p.coupon < 0 THEN {2} ELSE IF p.coupon > 100 THEN {1} ELSE {})
    \cup (IF p.status \in {"defaulted", "bankrupt", "suspended"} THEN {2}
          ELSE IF p.status \in {"delisted", "matured"} THEN {1} ELSE {})
    \cup (IF feed.nominal # Absent /\ feed.nominal <= 0 THEN {2} ELSE {})

Unrated == 2

\* A doubtful feed costs 15 per cent of the score.
Discounted(score, severity) ==
  IF severity = Unrated THEN << >> ELSE IF severity = 1 THEN <<(85 * score) \div 100>> ELSE <<score>>

ScoreSafe(p, y, feed) ==
  Discounted(ScoreBond(p, y, << >>, << >>).score, Max(Severities(p, y, feed)))

-----------------------------------------------------------------------------
(* explain_score, and what the card tells of the issuer.                   *)

Factors(breakdown) ==
  {part \in Parts : part \in {"volatility", "hist_vol", "peer", "metal"} => breakdown[part] # 0}

Weight(breakdown, part) == Larger(breakdown[part], -breakdown[part])

\* Of the negative factors the three heaviest.
Weaknesses(breakdown) ==
  LET negative == {f \in Factors(breakdown) : breakdown[f] < 0}
  IN {f \in negative : Cardinality({g \in negative : Weight(breakdown, g) > Weight(breakdown, f)}) < 3}

\* profile_risk_ladder
Ladder(credit) ==
  IF credit > -500 /\ credit < 0 THEN IF credit > -200 THEN 50 ELSE 44
  ELSE Rung(credit, <<<<1000, 90>>, <<800, 82>>, <<600, 75>>, <<400, 68>>, <<200, 62>>, <<100, 58>>, <<0, 56>>>>, 36)

\* _issuer_risk_payload: the higher, the safer.
Safety(p, credit) ==
  LET tier == Classified(p.issuer)
      Steps == <<<<"sovereign", 1000, 90>>, <<"sub_sovereign", 800, 82>>, <<"state_corp", 600, 75>>,
                 <<"bank_systemic", 400, 68>>, <<"bank", 200, 62>>, <<"corp", 0, 56>>>>
      fitting == {i \in DOMAIN Steps : Steps[i][1] = tier \/ credit >= Steps[i][2]}
  IN IF p.status \in {"defaulted", "delisted"} THEN 15
     ELSE IF Profile(p.issuer) # 0 THEN Ladder(ProfileCredit[Profile(p.issuer)])
     ELSE IF fitting = {} THEN 36 ELSE Steps[Min(fitting)][3]

\* score_from_financials: figures of a report, Absent where it has none.
Given(report, figures) == \A f \in figures : report[f] # Absent

ReportPoints(r) ==
  LET debt == IF ~Given(r, {"debt", "assets"}) \/ r.assets = 0 THEN 0
              ELSE IF 5 * r.debt < r.assets THEN 200 ELSE IF 2 * r.debt < r.assets THEN 50
              ELSE IF 10 * r.debt > 8 * r.assets THEN -200 ELSE -50
      equity == IF ~Given(r, {"equity", "assets"}) \/ r.assets = 0 THEN 0
                ELSE IF 2 * r.equity > r.assets THEN 100 ELSE IF 5 * r.equity < r.assets THEN -150 ELSE 0
      liquid == IF ~Given(r, {"current", "due"}) \/ r.current = 0 \/ r.due = 0 THEN 0
                ELSE IF r.current < r.due THEN -150 ELSE IF 2 * r.current > 3 * r.due THEN 100 ELSE 0
      profit == IF ~Given(r, {"income", "revenue"}) \/ r.revenue = 0 THEN 0
                ELSE IF r.income < 0 THEN -150
                ELSE IF 10 * r.income > r.revenue THEN 150 ELSE IF 100 * r.income > 3 * r.revenue THEN 50 ELSE 0
  IN Larger(-400, Smaller(400, debt + equity + liquid + profit))

\* credit_for_issuer
CreditFor(issuer, r) ==
  LET base == IF Profile(issuer) = 0 THEN 0 ELSE ProfileCredit[Profile(issuer)]
  IN Larger(-600, Smaller(1200, (base + ReportPoints(r)) \div 2))

ScoringNext == Recompute \/ ScrapeAgain

ScoringSpec == ScoringInit /\ [][ScoringNext]_rating

-----------------------------------------------------------------------------
\* Once the scores were recomputed twice, a third time changes neither the row
\* nor the score, whatever the source gave; a stored yield fits its column.
Settles ==
  /\ rating.runs = 3 => rating.before = [ytm |-> rating.ytm, score |-> rating.score]
  /\ rating.runs > 0 => rating.ytm = Absent \/ (0 < rating.ytm /\ rating.ytm <= 1000)

\* The score is what the reward is above the risk, and the factors of its
\* explanation add up to it.
ScoreExplained ==
  rating.runs > 0 =>
    LET s == rating.score
    IN /\ s.score = s.reward - s.risk
       /\ s.score = Total([f \in Factors(s.breakdown) |-> s.breakdown[f]])

\* A bond whose score was capped for distress is not of the two best tiers,
\* has the reason among its weaknesses, and is not in the list of the best,
\* even where its row has no yield; and what is listed passes the gate on the
\* input, unless its own terms are out of reach.
DistressKeptOut ==
  rating.runs > 0 =>
    LET p == rating.paper
    IN /\ Distressed(p, Derived(p, rating.ytm)) =>
            /\ rating.score.tier \notin {"S", "A"}
            /\ "volatility" \in Weaknesses(rating.score.breakdown)
            /\ ~Listed(p, rating.ytm)
       /\ Listed(p, rating.ytm) /\ p.life <= 1200 /\ (p.coupon = Absent \/ p.coupon >= 0) =>
            ScoreSafe(p, rating.ytm, [named |-> TRUE, isin |-> "fits", age |-> 1, nominal |-> 1000]) # << >>

\* The card calls the risk of an issuer very low only where its bonds are
\* credited for it; a report moves the credit no further than half way; a
\* better yield is never a worse one among the same peers.
SafetyCredited ==
  LET p == rating.paper
  IN rating.runs = 1 =>
       /\ Safety(p, CreditPoints(p)) >= 82 /\ p.status # "matured" => CreditPoints(p) >= 800
       /\ \A r \in Reports :
            LET base == IF Profile(p.issuer) = 0 THEN 0 ELSE ProfileCredit[Profile(p.issuer)]
            IN CreditFor(p.issuer, r) \in
                 (Smaller(base, ReportPoints(r)) .. Larger(base, ReportPoints(r)))
       /\ \A peers \in PastYields, y \in 1 .. 8 : PeerPoints(peers, y) <= PeerPoints(peers, y + 1)

ScoresHold == Settles /\ ScoreExplained /\ DistressKeptOut /\ SafetyCredited
=============================================================================
