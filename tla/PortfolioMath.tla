---------------------------- MODULE PortfolioMath ----------------------------
(***************************************************************************)
(* The figures of the portfolio pages, each computed step by step on a     *)
(* chosen input: the FIFO ledger of profit and loss (portfolio/pnl.py),    *)
(* the backtest (portfolio/backtest.py), the dates of the coupons          *)
(* (portfolio/income.py), the split of the capital by the optimizer        *)
(* (portfolio/optimizer.py) and the purchase of whole lots for a basket    *)
(* (portfolio/custom_optimizer.py).                                        *)
(*                                                                         *)
(* Money and face are whole numbers of their smallest unit, prices are     *)
(* money for a unit of face.                                               *)
(***************************************************************************)
EXTENDS Integers, Sequences, FiniteSets, SequencesExt, Functions

CONSTANTS
  Faces,          \* face of a transaction
  TradePrices,    \* prices of a transaction
  MaxTrades,      \* bound on the transactions of one bond
  Studies,        \* backtests: see Study
  RebalanceDays, TopN,
  Baskets,        \* [capital, weight: Seq(Nat), price: Seq(Nat)]
  CouponDays,     \* days of the month on which bonds mature
  CouponSteps     \* months between two coupons

ASSUME FiguresAssumption ==
  /\ Faces \subseteq Nat \ {0} /\ TradePrices \subseteq Nat \ {0} /\ MaxTrades \in Nat
  /\ RebalanceDays \in Nat \ {0} /\ TopN \in Nat \ {0}
  /\ CouponDays \subseteq 1 .. 31 /\ CouponSteps \subseteq Nat
  /\ \A b \in Baskets : /\ b.capital \in Nat /\ b.weight \in Seq(Nat) /\ b.price \in Seq(Nat \ {0})
                        /\ Len(b.weight) = Len(b.price)

VARIABLE figure  \* the computation in progress

SumOf(f) == SumFunction(f)
Least(a, b) == IF a < b THEN a ELSE b

\* The elements of a set in order; `ahead` has those that come before each.
InOrder(ahead) ==
  [k \in 1 .. Cardinality(DOMAIN ahead) |-> CHOOSE x \in DOMAIN ahead : Cardinality(ahead[x]) = k - 1]

\* Decimal.quantize: n / d to the nearest, halves to the even one.
Rounded(n, d) ==
  LET q == n \div d
      r == 2 * (n % d)
  IN IF r > d \/ (r = d /\ q % 2 = 1) THEN q + 1 ELSE q

-----------------------------------------------------------------------------
(* compute_pnl: one bond, its transactions in the order of execution.      *)

NoTrades == [kind |-> "ledger", lots |-> << >>, invested |-> 0, realized |-> 0,
             trades |-> << >>]

BuyLot(t, face, price) ==
  [t EXCEPT !.lots = Append(@, [face |-> face, price |-> price]),
            !.invested = @ + face * price]

\* One round of `while remaining > 0 and buys`: a lot gives what it has.
MatchLot(acc, lot) ==
  LET matched == Least(acc.remaining, lot.face)
  IN [remaining |-> acc.remaining - matched,
      cost |-> acc.cost + matched * lot.price,
      sold |-> acc.sold + matched,
      kept |-> IF matched = lot.face THEN acc.kept
               ELSE Append(acc.kept, [lot EXCEPT !.face = @ - matched])]

\* A mistake: the last lot is sold first.
MutFirstOut(lots) == Reverse(lots)

FirstOut(lots) == lots

\* What is sold beyond the lots is passed over.
SellLots(t, face, price) ==
  LET end == FoldLeft(MatchLot, [remaining |-> face, cost |-> 0, sold |-> 0, kept |-> << >>],
                      FirstOut(t.lots))
  IN [t EXCEPT !.lots = end.kept,
               !.invested = @ - end.cost,
               !.realized = @ + end.sold * price - end.cost]

Trade(side, face, price) ==
  /\ figure.kind = "ledger" /\ Len(figure.trades) < MaxTrades
  /\ figure' = [IF side = "buy" THEN BuyLot(figure, face, price) ELSE SellLots(figure, face, price)
                EXCEPT !.trades = Append(@, [side |-> side, face |-> face, price |-> price])]

\* The position at a market price: 0 for a bond that defaulted; a bond
\* without a price counts for what it cost.
NoPrice == -1
Value(t, market) ==
  IF market = NoPrice THEN t.invested
  ELSE SumOf([i \in DOMAIN t.lots |-> t.lots[i].face]) * market

Unrealized(t, market) == Value(t, market) - t.invested

-----------------------------------------------------------------------------
(* run_backtest on two inputs at once: the rows of every bond by day, and  *)
(* the yields of the catalogue of today.                                   *)

Study(rows, today) ==
  [kind |-> "backtest", day |-> 0, rows |-> rows, today |-> today,
   sim |-> [i \in 1 .. 2 |-> [cash |-> 100, held |-> [b \in DOMAIN today[1] |-> 0],
                              last |-> 1 - RebalanceDays]]]

NoRow == [price |-> 0, ytm |-> 0]

ASSUME StudiesAssumption ==
  \A s \in Studies :
    /\ s = Study(s.rows, s.today) /\ DOMAIN s.rows = 1 .. 2 /\ DOMAIN s.today = 1 .. 2 /\ Len(s.today[1]) > 0
    /\ \A i \in 1 .. 2 :
         /\ s.today[i] \in Seq(Int) /\ Len(s.today[i]) = Len(s.today[1])
         /\ s.rows[i] \in Seq(Seq([price : Nat \ {0}, ytm : Nat] \cup {NoRow})) /\ Len(s.rows[i]) = Len(s.today[1])
         /\ \A b \in DOMAIN s.rows[i] : Len(s.rows[i][b]) = Len(s.rows[1][1])

\* _snapshot_on_or_before: the last row with a price, up to the day.
Rows(rows, b, day) == {d \in DOMAIN rows[b] : d <= day /\ rows[b][d] # NoRow}

Snapshot(rows, b, day) ==
  LET known == Rows(rows, b, day)
  IN IF known = {} THEN NoRow ELSE rows[b][CHOOSE d \in known : \A e \in known : e <= d]

\* `float(ytm) if ytm else ...`: a row without a yield (0) takes the yield
\* that the catalogue has now.  The strategy is Balanced, times 200.
Score(study, i, b, day) ==
  LET row == Snapshot(study.rows[i], b, day)
  IN 100 * (IF row.ytm = 0 THEN study.today[i][b] ELSE row.ytm) - row.price

Scored(study, i, day) == {b \in DOMAIN study.today[i] : Snapshot(study.rows[i], b, day) # NoRow}

\* The best TopN; of two with one score the earlier in the catalogue.
Selected(study, i, day) ==
  {b \in Scored(study, i, day) :
     Cardinality({c \in Scored(study, i, day) :
        \/ Score(study, i, c, day) > Score(study, i, b, day)
        \/ Score(study, i, c, day) = Score(study, i, b, day) /\ c < b}) < TopN}

Worth(study, i, day) ==
  study.sim[i].cash + SumOf([b \in DOMAIN study.today[i] |->
    study.sim[i].held[b] * Snapshot(study.rows[i], b, day).price])

\* Everything is sold, and the money is split over the selected: the amount
\* of each is rounded, so that the cash may end below zero.
Rebalanced(study, i, day) ==
  LET all == Worth(study, i, day)
      chosen == Selected(study, i, day)
      n == Cardinality(chosen)
      price(b) == Snapshot(study.rows[i], b, day).price
      held == [b \in DOMAIN study.today[i] |->
                 IF b \in chosen /\ all > 0 THEN Rounded(all, n * price(b)) ELSE 0]
  IN [cash |-> all - SumOf([b \in DOMAIN held |-> held[b] * price(b)]),
      held |-> held, last |-> day]

\* A day on which no bond has a row is not simulated.
Simulated(study, i, day) ==
  IF /\ day - study.sim[i].last >= RebalanceDays
     /\ \E b \in DOMAIN study.rows[i] : study.rows[i][b][day] # NoRow
  THEN Rebalanced(study, i, day) ELSE study.sim[i]

LastDayOf(study) == Len(study.rows[1][1])

SimulateDay ==
  /\ figure.kind = "backtest" /\ figure.day < LastDayOf(figure)
  /\ figure' = [figure EXCEPT !.day = @ + 1,
                              !.sim = [i \in 1 .. 2 |-> Simulated(figure, i, figure.day + 1)]]
-----------------------------------------------------------------------------
(* discrete_allocate: lots by weight, rounded down, then more of them from *)
(* what is left, the heaviest bond first.                                  *)

Candidates(basket) == {i \in DOMAIN basket.weight : basket.weight[i] > 0}

ByWeight(basket) ==
  InOrder([i \in Candidates(basket) |->
             {j \in Candidates(basket) : \/ basket.weight[j] > basket.weight[i]
                                         \/ basket.weight[j] = basket.weight[i] /\ j < i}])

LotsByWeight(basket) ==
  [i \in DOMAIN basket.weight |->
     IF i \notin Candidates(basket) THEN 0
     ELSE (basket.capital * basket.weight[i]) \div (SumOf(basket.weight) * basket.price[i])]

Cost(basket, lots) == SumOf([i \in DOMAIN lots |-> lots[i] * basket.price[i]])

Buy(basket, acc, i, n) ==
  [left |-> acc.left - n * basket.price[i], lots |-> [acc.lots EXCEPT ![i] = @ + n]]

\* With no lot at all the rest buys one of each at most.
BuyMore(basket) ==
  LET first == LotsByWeight(basket)
      order == ByWeight(basket)
      More(most) == IF SumOf(first) = 0 THEN Least(1, most) ELSE most
      after[k \in 0 .. Len(order)] ==
        IF k = 0 THEN [left |-> basket.capital - Cost(basket, first), lots |-> first]
        ELSE Buy(basket, after[k - 1], order[k], More(after[k - 1].left \div basket.price[order[k]]))
  IN after[Len(order)]

\* allocate: shares of the capital by score, rounded; the first takes the
\* difference.  Bonds without a score are left out unless all are.
Split(basket) ==
  LET some == Candidates(basket)
      kept == IF some = {} THEN DOMAIN basket.weight ELSE some
      sum == IF some = {} THEN 1 ELSE SumOf(basket.weight)
      items == [i \in kept |-> Rounded(basket.capital * basket.weight[i], sum)]
  IN [items EXCEPT ![Min(kept)] = @ + basket.capital - SumOf(items)]

FillBasket ==
  /\ figure.kind = "basket" /\ figure.lots = << >>
  /\ LET bought == BuyMore(figure.basket)
     IN figure' = [figure EXCEPT !.lots = bought.lots, !.left = bought.left,
                                 !.split = Split(figure.basket)]

-----------------------------------------------------------------------------
(* bond_cashflows without a day of issue: the dates of the coupons, back   *)
(* from the maturity.  Months are counted through; January is 1.           *)

MonthDays(month) == <<31, 28, 31, 30, 31, 30, 31, 31, 30, 31, 30, 31>>[((month - 1) % 12) + 1]

\* _add_months: a day the month does not have becomes its last.
AddMonths(date, months) ==
  [month |-> date.month + months, day |-> Least(date.day, MonthDays(date.month + months))]

AsOf == [month |-> 1, day |-> 15]
After(date, other) ==
  \/ date.month > other.month
  \/ date.month = other.month /\ date.day > other.day

CouponBefore ==
  /\ figure.kind = "coupons" /\ After(figure.next, AsOf)
  /\ figure' = [figure EXCEPT !.dates = <<figure.next>> \o @, !.next = AddMonths(@, -figure.step)]

-----------------------------------------------------------------------------

FiguresInit ==
  \/ figure = NoTrades
  \/ figure \in Studies
  \/ figure \in {[kind |-> "basket", basket |-> b, lots |-> << >>, left |-> 0, split |-> << >>] : b \in Baskets}
  \/ figure \in {[kind |-> "coupons", dates |-> << >>, step |-> step, maturity |-> [month |-> 20, day |-> day],
                  next |-> [month |-> 20, day |-> day]] : step \in CouponSteps, day \in CouponDays}

FiguresNext ==
  \/ \E side \in {"buy", "sell"}, face \in Faces, price \in TradePrices : Trade(side, face, price)
  \/ SimulateDay
  \/ FillBasket
  \/ CouponBefore

FiguresSpec == FiguresInit /\ [][FiguresNext]_figure

-----------------------------------------------------------------------------
(* Properties.                                                             *)

\* The reference of the ledger: face by face, a sale takes what was bought
\* first and is not yet sold.
FaceByFace(trades) ==
  LET Units(t) == [u \in 1 .. t.face |-> t.price]
      Step(acc, t) ==
        IF t.side = "buy" THEN [acc EXCEPT !.units = @ \o Units(t), !.paid = @ + t.face * t.price]
        ELSE LET n == Least(t.face, Len(acc.units))
             IN [acc EXCEPT !.units = SubSeq(@, n + 1, Len(@)), !.received = @ + n * t.price]
  IN FoldLeft(Step, [units |-> << >>, paid |-> 0, received |-> 0], trades)

LedgerAddsUp(t) ==
  LET ref == FaceByFace(t.trades)
  IN /\ FlattenSeq([i \in DOMAIN t.lots |-> [u \in 1 .. t.lots[i].face |-> t.lots[i].price]]) = ref.units
     /\ t.invested = SumOf(ref.units)
     /\ t.realized = ref.received - (ref.paid - t.invested)
     /\ \A market \in TradePrices \cup {0} :
          t.realized + Unrealized(t, market) = ref.received + Len(ref.units) * market - ref.paid
     /\ Unrealized(t, NoPrice) = 0

\* The bonds whose score may come from the catalogue.
Unquoted(study, i, day) ==
  {b \in Scored(study, i, day) :
     \E d \in 1 .. day : d \in Rows(study.rows[i], b, day) /\ study.rows[i][b][d].ytm = 0}

SameSoFar(study, day) ==
  /\ \A b \in DOMAIN study.today[1], d \in 1 .. day : study.rows[1][b][d] = study.rows[2][b][d]
  /\ \A b \in Unquoted(study, 1, day) : study.today[1][b] = study.today[2][b]

NoLookahead(study) ==
  /\ SameSoFar(study, study.day) => study.sim[1] = study.sim[2]
  /\ \A i \in 1 .. 2 : study.sim[i].last >= 1 =>
       \/ \A b \in DOMAIN study.today[i] : study.sim[i].held[b] = 0
       \/ 2 * study.sim[i].cash >= -SumOf([b \in DOMAIN study.today[i] |->
                                         IF study.sim[i].held[b] = 0 THEN 0
                                         ELSE Snapshot(study.rows[i], b, study.sim[i].last).price])

BasketFits(t) ==
  /\ Cost(t.basket, t.lots) + t.left = t.basket.capital /\ t.left >= 0
  /\ \A i \in Candidates(t.basket) :
       t.basket.price[i] > t.left \/ (t.lots[i] = 1 /\ SumOf(LotsByWeight(t.basket)) = 0)
  /\ SumOf(t.split) = t.basket.capital

\* Walked back step by step, a coupon never falls after the day it has when
\* counted from the maturity, and only a day past the 28th can be lost.
CouponsInStep(t) ==
  \A k \in DOMAIN t.dates :
    LET meant == AddMonths(t.maturity, -t.step * (Len(t.dates) - k))
    IN /\ t.dates[k].month = meant.month /\ t.dates[k].day <= meant.day
       /\ t.maturity.day <= 28 => t.dates[k] = meant
       /\ After(t.dates[k], AsOf)

\* The ledger gives what selling face by face gives, and profit is what came
\* in, and is held, above what was paid; the backtest knows no row of a later
\* day, and of the catalogue no more than the yields that rows lack, and
\* while it holds a bond overdraws by no more than the rounding; a basket spends what it has, and what
\* is left buys no further lot unless the capital was too small for any by
\* weight; coupons keep their distance.
FiguresAddUp ==
  /\ figure.kind = "ledger" => LedgerAddsUp(figure)
  /\ figure.kind = "backtest" => NoLookahead(figure)
  /\ figure.kind = "basket" /\ figure.lots # << >> => BasketFits(figure)
  /\ figure.kind = "coupons" => CouponsInStep(figure)
=============================================================================
