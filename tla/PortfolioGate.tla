---------------------------- MODULE PortfolioGate ----------------------------
(***************************************************************************)
(* Which bonds get into a basket: the eligibility gate of                  *)
(* scoring/eligibility.py and the four answers that pass through it, each  *)
(* computed on a chosen market: a portfolio for a strategy, a portfolio of *)
(* bonds the visitor picked, the figures of bonds the visitor holds        *)
(* (api/demo.py) and the recommendations (recommendations/engine.py).      *)
(*                                                                         *)
(* Prices and yields are whole per cent; a lot costs its price.            *)
(***************************************************************************)
EXTENDS PortfolioMath

CONSTANTS
  Markets,      \* the rows of bonds by id: see Row
  Wishes,       \* what visitors ask: see the answers
  MinPeers,     \* ANOMALY_MIN_PEERS
  HigherYields  \* yields to which a row may rise

RowType ==
  [state : STRING, life : STRING, fresh : BOOLEAN, currency : STRING, dollar : BOOLEAN, price : Nat,
   ytm : Int, solved : Int, vol : Nat \ {0}, score : Nat, advice : Nat, issuer : STRING]

\* The shares of a user's preferences.
ShareNames == {"USD", "BYN", "metals"}

Objectives == {"equal_weight", "min_variance", "risk_parity", "max_sharpe"}

StrategyWishes == [kind : {"strategy"}, capital : Nat, special : BOOLEAN, fails : BOOLEAN, top : Nat]
CustomWishes == [kind : {"custom"}, capital : Nat, ids : Seq(Nat), objective : Objectives]
FixedWishes == [kind : {"fixed"}, ids : Seq(Nat), amounts : Seq(Nat)]
RecommendWishes ==
  [kind : {"recommend"}, top : Nat, cap : Nat, watched : SUBSET Nat, unwanted : SUBSET ShareNames]

ASSUME GateAssumption ==
  /\ MinPeers \in Nat \ {0} /\ HigherYields \subseteq Nat
  /\ Markets \subseteq Seq(RowType)
  /\ \A wish \in Wishes :
       \/ wish \in StrategyWishes \/ wish \in CustomWishes \/ wish \in RecommendWishes
       \/ wish \in FixedWishes /\ Len(wish.amounts) = Len(wish.ids)

VARIABLE basket  \* a market, a wish and, once given, the answer

NoYield == -1000
NoQuotation == 0
NoIssuer == "none"

Row(price, ytm) ==
  [state |-> "active", life |-> "long", fresh |-> TRUE, currency |-> "BYN", dollar |-> FALSE,
   price |-> price, ytm |-> ytm, solved |-> ytm, vol |-> 1, score |-> 1, advice |-> 301,
   issuer |-> "m"]

-----------------------------------------------------------------------------
(* check_eligibility and filter_eligible.                                  *)

\* The k-th of the values in ascending order.
AtRank(values, k) ==
  CHOOSE v \in Range(values) :
    /\ Cardinality({i \in DOMAIN values : values[i] < v}) < k
    /\ k <= Cardinality({i \in DOMAIN values : values[i] <= v})

\* Twice the median.
Median(values) ==
  LET n == Cardinality(DOMAIN values)
  IN AtRank(values, (n + 1) \div 2) + AtRank(values, (n \div 2) + 1)

Magnitude(n) == IF n < 0 THEN -n ELSE n

\* A mistake: a yield far below the others is an anomaly too.
MutExcess(ytm, peers) == Magnitude(2 * ytm - Median(peers))

Excess(ytm, peers) == 2 * ytm - Median(peers)

Distances(peers, m) == [i \in DOMAIN peers |-> Magnitude(2 * peers[i] - m)]

MedianDistance(peers) == Median(Distances(peers, Median(peers)))

SquaredSpread(peers) ==
  Cardinality(DOMAIN peers) * SumOf([i \in DOMAIN peers |-> peers[i] * peers[i]]) - SumOf(peers) * SumOf(peers)

\* _robust_anomaly_z above 4: the distance to the median in deviations of
\* 1.4826 times the median distance, or standard ones where that is zero.
TooFar(above, mad, spread, n) ==
  \/ mad > 0 /\ 5000 * above > 14826 * mad
  \/ mad = 0 /\ spread > 0 /\ n * (n - 1) * above * above > 64 * spread

Anomalous(ytm, peers) ==
  /\ Cardinality(DOMAIN peers) >= MinPeers
  /\ Excess(ytm, peers) > 0
  /\ TooFar(Excess(ytm, peers), MedianDistance(peers), SquaredSpread(peers), Cardinality(DOMAIN peers))

TooRisky(row) ==
  \/ row.ytm # NoYield /\ (row.ytm < 0 \/ row.ytm > 100)
  \/ row.ytm > 30 /\ row.price < 80 /\ row.price # NoQuotation
  \/ row.price # NoQuotation /\ (row.price < 30 \/ row.price > 150)

Eligible(row, peers) ==
  /\ row.state # "delisted" /\ row.life # "over"
  /\ ~(row.price = NoQuotation /\ row.ytm = NoYield)
  /\ ~TooRisky(row)
  /\ ~(row.ytm # NoYield /\ DOMAIN peers # {} /\ Anomalous(row.ytm, peers))

\* peer_ytms_by_currency: a bond is among its own peers.
Peers(market, universe, currency) ==
  [b \in {c \in universe : market[c].ytm > 0 /\ market[c].currency = currency} |-> market[b].ytm]

EligibleOf(market, bonds, universe) ==
  {b \in bonds : Eligible(market[b], Peers(market, universe, market[b].currency))}

\* The best first; of two alike the one listed first.
Before(market, merit, b, c) ==
  market[b][merit] > market[c][merit] \/ (market[b][merit] = market[c][merit] /\ b < c)

Ranked(market, bonds, merit) == InOrder([b \in bonds |-> {c \in bonds : Before(market, merit, c, b)}])

AsListed(bonds) == InOrder([b \in bonds |-> {c \in bonds : c < b}])

FirstFew(n, s) == SubSeq(s, 1, Least(n, Len(s)))

-----------------------------------------------------------------------------
(* POST /portfolio/optimize.                                               *)

Tradable(row) ==
  row.state = "active" /\ row.price # NoQuotation /\ row.ytm > 0 /\ row.life = "long"

\* Stale rows where there are no fresh ones; any bond of the currency where
\* the special strategy finds none of its own.
Pool(market, wish) ==
  LET Fits(b) == IF wish.special THEN market[b].dollar ELSE market[b].currency = "BYN"
      tradable == {b \in DOMAIN market : Tradable(market[b])}
      own == {b \in tradable : Fits(b)}
      recent == {b \in own : market[b].fresh}
  IN IF recent # {} THEN recent
     ELSE IF own = {} /\ wish.special THEN {b \in tradable : market[b].currency = "BYN"}
     ELSE own

\* Bonds without points, which come last, are left out unless there are no others.
WithPoints(market, s) ==
  IF \A i \in DOMAIN s : market[s[i]].score = 0 THEN s
  ELSE FirstFew(Cardinality({i \in DOMAIN s : market[s[i]].score > 0}), s)

\* rank_bonds lets the bonds through the gate again, now among themselves.
Chosen(market, bonds, wish) ==
  WithPoints(market, FirstFew(wish.top, Ranked(market, EligibleOf(market, bonds, bonds), "score")))

\* When `allocate` raises every bond weighs the same, the best yield first.
Ordered(market, bonds, wish) ==
  IF wish.fails THEN FirstFew(wish.top, Ranked(market, bonds, "ytm"))
  ELSE Chosen(market, bonds, wish)

PriceOf(row) == IF row.price = NoQuotation THEN 100 ELSE row.price

Prices(market, s) == [i \in DOMAIN s |-> PriceOf(market[s[i]])]

\* max(score_weight, 0.01), in hundredths.
AtLeastOne(amounts) == [i \in DOMAIN amounts |-> IF amounts[i] > 0 THEN 100 * amounts[i] ELSE 1]

Weights(market, s, wish) ==
  IF wish.fails THEN [i \in DOMAIN s |-> 1]
  ELSE AtLeastOne(Split([capital |-> wish.capital, weight |-> [i \in DOMAIN s |-> market[s[i]].score]]))

Lots(s, order) == [b \in Range(s) |-> order.lots[CHOOSE i \in DOMAIN s : s[i] = b]]

NothingBought(excluded) == [lots |-> << >>, left |-> 0, excluded |-> excluded]

Filled(s, order, excluded) == [lots |-> Lots(s, order), left |-> order.left, excluded |-> excluded]

\* The bonds of a list are bought with the capital.
BuyListed(market, s, weights, excluded, wish) ==
  Filled(s, BuyMore([capital |-> wish.capital, weight |-> weights, price |-> Prices(market, s)]), excluded)

BuyRanked(market, s, excluded, wish) ==
  IF wish.capital = 0 \/ \A i \in DOMAIN s : wish.capital < Prices(market, s)[i] THEN NothingBought({})
  ELSE BuyListed(market, s, Weights(market, s, wish), excluded, wish)

BuyFromPool(market, pool, bonds, wish) ==
  IF bonds = {} THEN NothingBought(pool)
  ELSE BuyRanked(market, Ordered(market, bonds, wish), pool \ bonds, wish)

StrategyOf(market, pool, wish) == BuyFromPool(market, pool, EligibleOf(market, pool, pool), wish)

StrategyAnswer(market, wish) == StrategyOf(market, Pool(market, wish), wish)

-----------------------------------------------------------------------------
(* POST /portfolio/custom/optimize and /portfolio/custom/calculate.        *)

\* The peers of a picked bond are the active ones in the currency of the
\* request: a bond of another currency has none.
PickedBonds(market, wish) ==
  EligibleOf(market, Range(wish.ids) \cap DOMAIN market,
             {b \in DOMAIN market : market[b].state = "active" /\ market[b].currency = "BYN"})

\* optimize_weights, times 4 (volatilities of 1 and 2); a bond that loses money has none.
ObjectiveWeight(row, objective) ==
  IF row.solved < 0 THEN 0
  ELSE CASE objective = "equal_weight" -> 4
         [] objective = "min_variance" -> 4 \div (row.vol * row.vol)
         [] objective = "risk_parity"  -> 4 \div row.vol
         [] objective = "max_sharpe"   -> (IF row.solved > 4 THEN row.solved - 4 ELSE 0) * (4 \div (row.vol * row.vol))

WeightOf(market, b, wish) == ObjectiveWeight(market[b], wish.objective)

BuyPicked(market, s, excluded, wish) ==
  IF wish.ids = << >> \/ wish.capital = 0 THEN NothingBought({})
  ELSE IF s = << >> THEN NothingBought(excluded)
  ELSE BuyListed(market, s, [i \in DOMAIN s |-> WeightOf(market, s[i], wish)], excluded, wish)

CustomOf(market, bonds, wish) ==
  BuyPicked(market, AsListed({b \in bonds : WeightOf(market, b, wish) > 0}),
            Range(wish.ids) \ bonds, wish)

CustomAnswer(market, wish) == CustomOf(market, PickedBonds(market, wish), wish)

\* dict(holdings): of two amounts for one bond the later counts.
AmountOf(wish, b) == wish.amounts[Max({i \in DOMAIN wish.ids : wish.ids[i] = b})]

FixedOf(bonds, wish) ==
  [amounts |-> [b \in bonds |-> AmountOf(wish, b)],
   total |-> SumOf([b \in bonds |-> AmountOf(wish, b)]), excluded |-> Range(wish.ids) \ bonds]

FixedAnswer(market, wish) == FixedOf(PickedBonds(market, wish), wish)

-----------------------------------------------------------------------------
(* recommend_bonds.                                                        *)

\* The decision (avoid, wait, hold, buy) in hundreds, then confidence and score.
Buys(row) == row.advice >= 400

ShareOf(currency) == IF currency \in {"XAU", "XAG", "XPT"} THEN "metals" ELSE currency

\* Of a watchlist and bonds to buy; of a currency the user has a share for.
Suitable(market, wish) ==
  {b \in EligibleOf(market, DOMAIN market, DOMAIN market) :
     /\ wish.watched = {} \/ b \in wish.watched \/ Buys(market[b])
     /\ ShareOf(market[b].currency) \notin wish.unwanted}

\* A share of 0 is none, and a bond without an issuer has no others.
Capped(row, cap) == cap > 0 /\ row.issuer # NoIssuer

\* Of an issuer the best `cap` stay.
Diversified(market, bonds, cap) ==
  {b \in bonds : Capped(market[b], cap) =>
     Cardinality({c \in bonds : /\ market[c].issuer = market[b].issuer
                                /\ Before(market, "advice", c, b)}) < cap}

RecommendAnswer(market, wish) ==
  [list |-> FirstFew(wish.top, Ranked(market, Diversified(market, Suitable(market, wish), wish.cap), "advice"))]

-----------------------------------------------------------------------------

Unanswered == [excluded |-> {}]

Answered(kind) == basket.wish.kind = kind /\ basket.answer = Unanswered

demo_portfolio_optimize ==
  /\ Answered("strategy")
  /\ basket' = [basket EXCEPT !.answer = StrategyAnswer(basket.market, basket.wish)]

demo_custom_optimize ==
  /\ Answered("custom")
  /\ basket' = [basket EXCEPT !.answer = CustomAnswer(basket.market, basket.wish)]

demo_custom_calculate ==
  /\ Answered("fixed")
  /\ basket' = [basket EXCEPT !.answer = FixedAnswer(basket.market, basket.wish)]

recommend_bonds ==
  /\ Answered("recommend")
  /\ basket' = [basket EXCEPT !.answer = RecommendAnswer(basket.market, basket.wish)]

GateInit == basket \in [market : Markets, wish : Wishes, answer : {Unanswered}]

GateNext ==
  \/ demo_portfolio_optimize
  \/ demo_custom_optimize
  \/ demo_custom_calculate
  \/ recommend_bonds

GateSpec == GateInit /\ [][GateNext]_basket

-----------------------------------------------------------------------------
(* Properties.                                                             *)

\* Whatever else is in the market, a bond that the gate keeps out stays out
\* when its yield is higher still.
HigherYieldNeverHelps(market) ==
  \A b \in DOMAIN market, y \in HigherYields :
    LET higher == [market EXCEPT ![b].ytm = y]
    IN /\ market[b].ytm >= 0 /\ y > market[b].ytm
       /\ b \notin EligibleOf(market, DOMAIN market, DOMAIN market)
       => b \notin EligibleOf(higher, DOMAIN market, DOMAIN market)

\* Where the median distance tells, how far a quote lies above a bond's own
\* decides nothing about the bond.
FartherOutlierChangesNothing(market) ==
  \A b, c \in DOMAIN market, y \in HigherYields :
    LET all == DOMAIN market
        farther == [market EXCEPT ![c].ytm = y]
    IN /\ b # c /\ 0 < market[b].ytm /\ market[b].ytm <= market[c].ytm /\ market[c].ytm < y
       /\ MedianDistance(Peers(market, all, market[b].currency)) > 0
       => (b \in EligibleOf(farther, all, all) <=> b \in EligibleOf(market, all, all))

Bought(answer) == {b \in DOMAIN answer.lots : answer.lots[b] > 0}

SpentOn(market, answer) ==
  SumOf([b \in DOMAIN answer.lots |-> answer.lots[b] * PriceOf(market[b])])

TooDear(market, b, answer) == PriceOf(market[b]) > answer.left

AtLeastAs(market, wish, c, b) ==
  IF wish.fails THEN market[c].ytm >= market[b].ytm ELSE market[c].score >= market[b].score

\* Every bond of the pool is bought, or there is a reason why it is not.
StrategySound(market, wish, answer) ==
  LET pool == Pool(market, wish)
      good == EligibleOf(market, pool, pool)
      best == {b \in good : market[b].score > 0}
  IN /\ Bought(answer) \subseteq good \ answer.excluded
     /\ answer.lots # << >> =>
          /\ SpentOn(market, answer) + answer.left = wish.capital
          /\ \A b \in pool \ Bought(answer) :
               \/ b \in answer.excluded
               \/ b \notin EligibleOf(market, good, good)
               \/ TooDear(market, b, answer)
               \/ market[b].score = 0 /\ best # {}
               \/ wish.top <= Cardinality({c \in good \ {b} : AtLeastAs(market, wish, c, b)})

\* A bond the visitor picked is bought, reported, without weight or too dear.
CustomSound(market, wish, answer) ==
  /\ Bought(answer) \cap answer.excluded = {}
  /\ wish.capital > 0 => \A b \in Range(wish.ids) \ Bought(answer) :
       \/ b \in answer.excluded
       \/ ObjectiveWeight(market[b], wish.objective) = 0
       \/ TooDear(market, b, answer)
  /\ answer.lots # << >> => SpentOn(market, answer) + answer.left = wish.capital

\* Unless one bond is named twice, every amount counts or is reported.
FixedSound(wish, answer) ==
  IsInjective(wish.ids) =>
    answer.total = SumOf([i \in DOMAIN wish.ids |->
                            IF wish.ids[i] \in answer.excluded THEN 0 ELSE wish.amounts[i]])

\* No issuer has more than its share of the list, and a bond that passes the
\* gate is missing for a reason: it is neither watched nor to be bought, the
\* user wants none of its currency, the list is full of bonds no worse, or its
\* issuer has its share with bonds no worse.
RecommendSound(market, wish, answer) ==
  LET listed == Range(answer.list)
      NoWorse(b) == {c \in listed : market[c].advice >= market[b].advice}
      IssuedBy(b) == {c \in listed : market[c].issuer = market[b].issuer}
  IN /\ \A b \in listed : Capped(market[b], wish.cap) => Cardinality(IssuedBy(b)) <= wish.cap
     /\ \A b \in EligibleOf(market, DOMAIN market, DOMAIN market) \ listed :
          \/ wish.watched # {} /\ b \notin wish.watched /\ ~Buys(market[b])
          \/ ShareOf(market[b].currency) \in wish.unwanted
          \/ Cardinality(listed) = wish.top /\ listed \subseteq NoWorse(b)
          \/ /\ Capped(market[b], wish.cap)
             /\ Cardinality(IssuedBy(b) \cap NoWorse(b)) = wish.cap

\* The gate, and what the answers that pass it owe the one who asks.
BasketsSound ==
  /\ HigherYieldNeverHelps(basket.market) /\ FartherOutlierChangesNothing(basket.market)
  /\ basket.answer # Unanswered =>
       CASE basket.wish.kind = "strategy"  -> StrategySound(basket.market, basket.wish, basket.answer)
         [] basket.wish.kind = "custom"    -> CustomSound(basket.market, basket.wish, basket.answer)
         [] basket.wish.kind = "fixed"     -> FixedSound(basket.wish, basket.answer)
         [] basket.wish.kind = "recommend" -> RecommendSound(basket.market, basket.wish, basket.answer)
=============================================================================
