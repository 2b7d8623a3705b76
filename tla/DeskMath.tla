------------------------------ MODULE DeskMath ------------------------------
(***************************************************************************)
(* The trading desk: the coupon schedule and the accrued interest          *)
(* (desk/cashflow.py), duration, key rates and stress tests                *)
(* (desk/duration.py, desk/stress.py, the stress test of api/demo.py),     *)
(* relative value, carry, repo, the curve and the spreads against it, and  *)
(* the rows that the desk commands store (desk/repository.py).             *)
(*                                                                         *)
(* A book is a sequence of bonds [id, currency, eligible, left, rate,      *)
(* coupon, price, government, issuer]: the half-years it has left (0: none *)
(* or not known), the yield in tenths of a percent and the coupon in       *)
(* percent a year.  Yields are compounded by half-years.  The gate of      *)
(* eligibility is PortfolioGate's: here a bond has passed it or not.       *)
(***************************************************************************)
EXTENDS PortfolioMath

CONSTANTS
  Issues,        \* schedules: [issue, maturity, freq, rate]
  AsOfDates,     \* days on which an issue is looked at
  MaxPeriods,    \* bound: periods of an issue
  FirstBooks,    \* books to start with
  RateMoves,     \* by how much the yield of a bond may move
  CurveRate,     \* rate of the fitted curve, in tenths of a percent
  Funding,       \* funding rates of the carry trade
  Dialects,      \* "postgresql", "sqlite"
  LastDeskDay, MaxMoves, MaxRuns   \* bounds

ASSUME DeskAssumption ==
  /\ MaxPeriods \in Nat \ {0} /\ CurveRate \in 1 .. 600 /\ Funding \subseteq Nat
  /\ Dialects \subseteq {"postgresql", "sqlite"} /\ LastDeskDay \in Nat
  /\ MaxMoves \in Nat /\ MaxRuns \in Nat

VARIABLES
  desk,      \* the issue or the book looked at, and the database it is in
  tables,    \* rows of the desk: table -> set of rows
  deskRuns   \* the commands so far: [day, table, found]

deskVars == <<desk, tables, deskRuns>>

-----------------------------------------------------------------------------
(* Coupon dates and accrued interest; a year has 365 days.                 *)

StepOf(freq) == 12 \div (IF freq \in {1, 2, 4, 12} THEN freq ELSE 2)

DayNumber(d) ==
  365 * ((d.month - 1) \div 12) + SumOf([m \in 1 .. (d.month - 1) % 12 |-> MonthDays(m)]) + d.day

\* Every date is a step after the one before it, which may have lost days to
\* a shorter month; the last period is what is left, with a coupon of its own.
CouponDates(i) ==
  LET walked[k \in 0 .. MaxPeriods] ==
        IF k = 0 THEN i.issue ELSE AddMonths(walked[k - 1], StepOf(i.freq))
  IN <<i.issue>> \o SelectSeq([k \in 1 .. MaxPeriods |-> walked[k]], LAMBDA d : After(i.maturity, d))
       \o <<i.maturity>>

\* Days of a year and days between two dates.
YearFraction(from, to, convention) ==
  IF convention = "30/360"
  THEN <<30 * (to.month - from.month) + Least(to.day, 30) - Least(from.day, 30), 360>>
  ELSE <<DayNumber(to) - DayNumber(from), IF convention = "ACT/360" THEN 360 ELSE 365>>

\* Thousandths of a percent of face: the coupon of a period (by the frequency
\* as it is given), in the share of the period that has passed.
AccruedInterest(i, asof) ==
  IF After(i.issue, asof) \/ ~After(i.maturity, asof) THEN 0
  ELSE LET dates == CouponDates(i)
           next == CHOOSE k \in DOMAIN dates : After(dates[k], asof) /\ ~After(dates[k - 1], asof)
           days(d) == YearFraction(dates[next - 1], d, "ACT/365")[1]
       IN (1000 * i.rate * days(asof)) \div (i.freq * days(dates[next]))

\* The flows still to come: counted from the issue, or back from the maturity
\* for a bond whose issue date is not known.
PricingDates(i, asof) == SelectSeq(Tail(CouponDates(i)), LAMBDA d : After(d, asof))

PricingDatesBack(i, asof) ==
  LET walked[k \in 0 .. MaxPeriods] ==
        IF k = 0 THEN i.maturity ELSE AddMonths(walked[k - 1], -StepOf(i.freq))
  IN Reverse(SelectSeq([k \in 1 .. MaxPeriods |-> walked[k - 1]], LAMBDA d : After(d, asof)))

-----------------------------------------------------------------------------
(* Prices and durations; a price has the unit of Flat halves of a percent. *)

Flat == 2000

\* What one unit paid after so many half-years is worth at a yield.
Discount(rate, periods) ==
  LET worth[n \in 0 .. periods] == IF n = 0 THEN Flat ELSE (worth[n - 1] * 2000) \div (2000 + rate)
  IN worth[periods]

Flow(b, at) == b.coupon + (IF at = b.left THEN 200 ELSE 0)

\* The price when the yield of some half-years' flows is a tenth of a percent higher.
PriceShifted(b, raised) ==
  SumOf([at \in 1 .. b.left |-> Flow(b, at) * Discount(b.rate + (IF at \in raised THEN 1 ELSE 0), at)])

PriceAt(b, rate) == PriceShifted([b EXCEPT !.rate = rate], {})

\* In twentieths of a year.
Macaulay(b) ==
  IF b.left = 0 THEN 0
  ELSE (10 * SumOf([at \in 1 .. b.left |-> at * Flow(b, at) * Discount(b.rate, at)])) \div PriceAt(b, b.rate)

Modified(b) == (Macaulay(b) * 2000) \div (2000 + b.rate)

Convexity(b) ==
  IF b.left = 0 THEN 0
  ELSE SumOf([at \in 1 .. b.left |-> Flow(b, at) * Discount(b.rate, at + 2) * at * (at + 1)])
         \div PriceAt(b, b.rate)

\* The loss when the yield rises by a tenth of a percent.
Dv01(b) == PriceAt(b, b.rate) - PriceAt(b, b.rate + 1)

KeyTenors == <<1, 4, 8, 12, 20, 28, 40, 80, 120>>   \* in quarters of a year

Off(tenor, at) == IF tenor > 2 * at THEN tenor - 2 * at ELSE 2 * at - tenor

\* The tenor of a flow; of two equally near the shorter.
NearestKey(at) ==
  {k \in DOMAIN KeyTenors :
     \A j \in DOMAIN KeyTenors :
       \/ Off(KeyTenors[k], at) < Off(KeyTenors[j], at)
       \/ Off(KeyTenors[k], at) = Off(KeyTenors[j], at) /\ k <= j}

KeyRate(b, k) == PriceAt(b, b.rate) - PriceShifted(b, {at \in 1 .. b.left : k \in NearestKey(at)})

\* A bond without a maturity has nothing to report.
DurationReport(b) ==
  [modified |-> Modified(b), macaulay |-> Macaulay(b), convexity |-> Convexity(b), dv01 |-> Dv01(b)]

\* Every figure by weight; without any weight, nothing.
PortfolioDuration(book, weight) ==
  LET report == [i \in DOMAIN book |-> DurationReport(book[i])]
      total == SumOf([i \in DOMAIN book |-> weight[i]])
  IN [figureOf \in {"modified", "macaulay", "convexity", "dv01"} |->
        SumOf([i \in DOMAIN book |-> weight[i] * report[i][figureOf]]) \div (IF total = 0 THEN 1 ELSE total)]

-----------------------------------------------------------------------------
(* Stress: shocks in tenths of a percent.                                  *)

Scenario(short, middle, long, longest, credit, fx) ==
  [rates |-> "1Y" :> short @@ "5Y" :> middle @@ "10Y" :> long @@ "30Y" :> longest, credit |-> credit, fx |-> fx]
Parallel(shock) == Scenario(shock, shock, shock, shock, 0, 0)
Presets ==
  "parallel_+100bp" :> Parallel(10) @@ "parallel_+300bp" :> Parallel(30) @@ "parallel_-100bp" :> Parallel(-10)
    @@ "steepener_+50_+150" :> Scenario(5, 10, 13, 15, 0, 0) @@ "flattener_+150_+50" :> Scenario(15, 10, 7, 5, 0, 0)
    @@ "inversion_+200_-50" :> Scenario(20, 10, 0, -5, 0, 0) @@ "credit_shock_+150bp" :> Scenario(0, 0, 0, 0, 15, 0)
    @@ "fx_shock_-20%" :> Scenario(0, 0, 0, 0, 0, 20)

BucketTenor(left) ==
  IF left <= 2 THEN "1Y" ELSE IF left <= 10 THEN "5Y" ELSE IF left <= 20 THEN "10Y" ELSE "30Y"

Shock(scenario, b) ==
  scenario.rates[BucketTenor(b.left)] + (IF b.government THEN 0 ELSE scenario.credit)

\* By duration, and its square for convexity: x is duration times shock, and
\* the price is 40000ths of what it was.
PriceAfter(scenario, b) ==
  LET x == Modified(b) * Shock(scenario, b)
  IN 40000 - 2 * x + (x * x) \div 20000

\* Twentieths: dollars gain what the national currency loses, and what is
\* neither loses it where the books are kept in dollars.
FxImpact(scenario, b, base) ==
  CASE scenario.fx = 0 \/ b.currency = base -> 20
    [] b.currency = "USD" -> 25
    [] OTHER -> IF base = "USD" THEN 16 ELSE 20

Stressed(book) == {i \in DOMAIN book : book[i].left > 0 /\ book[i].priced}

\* The result of a position, in 800000ths of a percent of its face.
PositionPnl(scenario, b, base) ==
  b.price * (PriceAfter(scenario, b) * FxImpact(scenario, b, base) - 800000)

RunStress(scenario, book, base) ==
  LET gain == [i \in Stressed(book) |-> PositionPnl(scenario, book[i], base)]
      Of(S) == SumOf([i \in DOMAIN book |-> IF i \in S THEN gain[i] ELSE 0])
  IN [pnl |-> Of(Stressed(book)),
      byPosition |-> [i \in Stressed(book) |-> Of({i})],
      byTenor |-> [t \in {BucketTenor(book[i].left) : i \in Stressed(book)} |->
                     Of({i \in Stressed(book) : BucketTenor(book[i].left) = t})]]

\* demo_desk_stress: whole papers of equal shares of the capital, prices with
\* the interest accrued; when no share buys any, the first that the capital
\* buys without its interest.
StressLots(capital, offers) ==
  LET lots == [i \in DOMAIN offers |-> (capital \div Len(offers)) \div (offers[i].price + offers[i].accrued)]
      cheap == {i \in DOMAIN offers : offers[i].price <= capital}
  IN IF \E i \in DOMAIN offers : lots[i] > 0 THEN lots
     ELSE [i \in DOMAIN offers |-> IF cheap # {} /\ i = (CHOOSE j \in cheap : \A k \in cheap : j <= k) THEN 1 ELSE 0]

-----------------------------------------------------------------------------
(* Relative value, the curve, the spreads, carry and repo.                 *)

Traded(book) == {i \in DOMAIN book : book[i].eligible /\ book[i].left > 0}
RvGroup(book, i) ==
  {j \in Traded(book) : /\ book[j].currency = book[i].currency
                        /\ (book[j].left <= 2) = (book[i].left <= 2)
                        /\ (book[j].left <= 10) = (book[i].left <= 10)}

\* How many times the group a yield is above its mean, and the square of its
\* deviation in the same unit.
Above(book, i) ==
  LET G == RvGroup(book, i)
  IN Cardinality(G) * book[i].rate - SumOf([j \in DOMAIN book |-> IF j \in G THEN book[j].rate ELSE 0])
Dispersion(book, i) ==
  LET G == RvGroup(book, i)
      sum == SumOf([j \in DOMAIN book |-> IF j \in G THEN book[j].rate ELSE 0])
  IN Cardinality(G) * SumOf([j \in DOMAIN book |-> IF j \in G THEN book[j].rate * book[j].rate ELSE 0]) - sum * sum

Signalled(book) == {i \in Traded(book) : Cardinality(RvGroup(book, i)) >= 3}

\* A bond at least one deviation from the mean.
RvSide(book, i) ==
  CASE Above(book, i) * Above(book, i) < Dispersion(book, i) \/ Above(book, i) = 0 -> "hold"
    [] OTHER -> IF Above(book, i) > 0 THEN "buy" ELSE "sell"

TenorMonths == <<1, 3, 6, 12, 24, 36, 60, 84, 120, 240, 360>>
FromTenor(k, left) == IF TenorMonths[k] > 6 * left THEN TenorMonths[k] - 6 * left ELSE 6 * left - TenorMonths[k]
NearestTenor(left) ==
  CHOOSE k \in DOMAIN TenorMonths :
    \A j \in DOMAIN TenorMonths \ {k} :
      \/ FromTenor(k, left) < FromTenor(j, left)
      \/ FromTenor(k, left) = FromTenor(j, left) /\ k < j

\* curve_from_bonds: twice the median of the yields of a tenor.
OnTenor(book, currency, k) ==
  {i \in Traded(book) : book[i].currency = currency /\ NearestTenor(book[i].left) = k}
TwiceMedian(book, S) ==
  LET rates == SortSeq(SelectSeq([i \in DOMAIN book |-> IF i \in S THEN book[i].rate ELSE -1], LAMBDA r : r >= 0), <)
      n == Len(rates)
  IN rates[(n + 1) \div 2] + rates[(n + 2) \div 2]
CurvePoints(book, currency) ==
  [k \in {NearestTenor(book[i].left) : i \in {j \in Traded(book) : book[j].currency = currency}} |->
     TwiceMedian(book, OnTenor(book, currency, k))]

\* fit_nelson_siegel on fewer than three points: their mean, twice.
FlatFit(points) ==
  IF DOMAIN points = {} THEN 0
  ELSE SumOf([k \in DOMAIN TenorMonths |-> IF k \in DOMAIN points THEN points[k] ELSE 0])
         \div Cardinality(DOMAIN points)

\* solve_flat_yield: bisection between 0.1 % and 60 %.
Unsolved == -1
FlatYield(b, dirty) ==
  LET PvGap(rate) == PriceAt(b, rate) - dirty
      Halve(s, n) ==
        LET mid == (s.lo + s.hi) \div 2
        IN CASE s.done -> s
             [] ~s.done /\ (s.hi - s.lo <= 1 \/ PvGap(mid) = 0) -> [s EXCEPT !.lo = mid, !.done = TRUE]
             [] OTHER -> IF (PvGap(s.lo) < 0) # (PvGap(mid) < 0) THEN [s EXCEPT !.hi = mid] ELSE [s EXCEPT !.lo = mid]
  IN IF (PvGap(1) > 0 /\ PvGap(600) > 0) \/ (PvGap(1) < 0 /\ PvGap(600) < 0) THEN Unsolved
     ELSE FoldLeft(Halve, [lo |-> 1, hi |-> 600, done |-> FALSE], [n \in 1 .. 12 |-> n]).lo

\* A coupon has just been paid: the dirty price is the price.
Dirty(b) == 2 * Flat * b.price
Mispriced(b) ==
  LET over == PriceAt(b, CurveRate) - Dirty(b)
  IN IF 100 * over >= Dirty(b) THEN "cheap" ELSE IF 100 * over <= -Dirty(b) THEN "rich" ELSE "fair"

\* The bonds with a curve of their currency; the curve has three points.
Spreads(book) ==
  {i \in DOMAIN book : /\ book[i].left > 0 /\ book[i].priced
                       /\ Cardinality(DOMAIN CurvePoints(book, book[i].currency)) >= 3}

\* What 90 days bring above the funding, with the roll to a yield of a
\* shorter tenor, in 292200ths of a percent; no caller has a curve to roll on.
Expected(b, funding, next) == 72000 * (b.coupon - funding) + 1461 * Modified(b) * (b.rate - next)
Carry(b, funding) == Expected(b, funding, b.rate)
RankCarry(book, funding) ==
  SortSeq([i \in DOMAIN book |-> i], LAMBDA i, j : Carry(book[i], funding) > Carry(book[j], funding))

Haircut(issuer) == IF issuer = "state" THEN 1 ELSE IF issuer = "bank" THEN 3 ELSE 5
RepoCash(notional, haircut) ==
  (notional * (100 - (IF haircut >= 0 /\ haircut < 100 THEN haircut ELSE 0))) \div 100

-----------------------------------------------------------------------------
(* The commands: what is computed for a day replaces what that day has,    *)
(* and a row keeps the time at which it was made.                          *)

NoTables == [t \in {"curve", "rv", "carry", "stress", "spreads", "repo"} |-> {}]

PutRows(rows, found) ==
  {r \in rows : r.key \notin DOMAIN found}
    \cup {[key |-> k, value |-> found[k],
           made |-> IF \E r \in rows : r.key = k THEN (CHOOSE r \in rows : r.key = k).made ELSE Len(deskRuns) + 1] :
            k \in DOMAIN found}

Saves(table, kept, found) ==
  /\ desk.kind = "book" /\ Len(deskRuns) < MaxRuns /\ DOMAIN found # {}
  /\ tables' = [tables EXCEPT ![table] = PutRows(kept, found)]
  /\ deskRuns' = Append(deskRuns, [day |-> desk.day, table |-> table, found |-> found])
  /\ UNCHANGED desk

Currencies == {desk.book[i].currency : i \in DOMAIN desk.book}

\* SQLite forgets the points of the day first; PostgreSQL keeps those that
\* the new curve has no tenor for.
cmd_desk_curve ==
  /\ desk.kind = "book"
  /\ LET points(c) == CurvePoints(desk.book, c)
         keys == {<<c, k, desk.day>> : c \in Currencies, k \in DOMAIN TenorMonths}
         found == [key \in {x \in keys : x[2] \in DOMAIN points(x[1])} |-> points(key[1])[key[2]]]
         drawn == {<<x[1], x[3]>> : x \in DOMAIN found}
     IN Saves("curve", {r \in tables["curve"] : desk.dialect = "sqlite" => <<r.key[1], r.key[3]>> \notin drawn}, found)

cmd_desk_rv ==
  /\ desk.kind = "book"
  /\ Saves("rv", tables["rv"], [key \in {<<i, desk.book[i].currency, desk.day>> : i \in Signalled(desk.book)} |->
                                  RvSide(desk.book, key[1])])

cmd_desk_carry(funding) ==
  /\ desk.kind = "book"
  /\ Saves("carry", tables["carry"], [key \in {<<i, "", desk.day>> : i \in {j \in DOMAIN desk.book : desk.book[j].left > 0}} |->
                                        Carry(desk.book[key[1]], funding)])

\* The converters of the rows do not pass on which issuers are the state.
Converted(book) == [i \in DOMAIN book |-> [book[i] EXCEPT !.government = FALSE]]

cmd_desk_stress ==
  /\ desk.kind = "book"
  /\ Saves("stress", tables["stress"], [key \in {<<name, "", desk.day>> : name \in DOMAIN Presets} |->
                                          RunStress(Presets[key[1]], Converted(desk.book), "BYN").pnl])

spreads ==
  /\ desk.kind = "book"
  /\ Saves("spreads", tables["spreads"], [key \in {<<i, "", desk.day>> : i \in Spreads(desk.book)} |->
                                            Mispriced(desk.book[key[1]])])

\* Every deal is a row of its own.
cmd_desk_repo(i) ==
  /\ desk.kind = "book" /\ i \in DOMAIN desk.book
  /\ Saves("repo", tables["repo"], <<Len(deskRuns), "", desk.day>> :> RepoCash(1000, Haircut(desk.book[i].issuer)))

YieldMoves(i, by) ==
  /\ desk.kind = "book" /\ desk.moves < MaxMoves /\ i \in DOMAIN desk.book
  /\ desk' = [desk EXCEPT !.book[i].rate = @ + by, !.moves = @ + 1]
  /\ UNCHANGED <<tables, deskRuns>>

DeskDayPasses ==
  /\ desk.kind = "book" /\ desk.day < LastDeskDay
  /\ desk' = [desk EXCEPT !.day = @ + 1]
  /\ UNCHANGED <<tables, deskRuns>>

LookLater(date) ==
  /\ desk.kind = "issue" /\ After(date, desk.asof)
  /\ desk' = [desk EXCEPT !.asof = date]
  /\ UNCHANGED <<tables, deskRuns>>

DeskInit ==
  /\ \/ \E i \in Issues, d \in AsOfDates : desk = [kind |-> "issue", issue |-> i, asof |-> d]
     \/ \E b \in FirstBooks, d \in Dialects :
          desk = [kind |-> "book", book |-> b, dialect |-> d, day |-> 1, moves |-> 0]
  /\ tables = NoTables /\ deskRuns = << >>

DeskNext ==
  \/ \E date \in AsOfDates : LookLater(date)
  \/ \E i \in 1 .. 2, by \in RateMoves : YieldMoves(i, by)
  \/ DeskDayPasses
  \/ cmd_desk_curve
  \/ cmd_desk_rv
  \/ \E funding \in Funding : cmd_desk_carry(funding)
  \/ cmd_desk_stress
  \/ spreads
  \/ \E i \in {1} : cmd_desk_repo(i)

-----------------------------------------------------------------------------
(* Properties.                                                             *)

Months(i) == i.maturity.month - i.issue.month

\* Dates go forward and end at the maturity.  An issue of whole periods on a
\* day that every month has pays once a period, and its dates counted back
\* are the same; days lost to short months may cost it one coupon more.  The
\* interest accrued starts at nothing and never reaches a coupon.
ScheduleSound(i, asof) ==
  LET dates == CouponDates(i)
      whole == (Months(i) + StepOf(i.freq) - 1) \div StepOf(i.freq)
      plain == i.issue.day <= 28 /\ i.maturity.day = i.issue.day
  IN /\ \A k \in 2 .. Len(dates) : After(dates[k], dates[k - 1])
     /\ Len(dates) - 1 \in (IF plain THEN {whole} ELSE {whole, whole + 1})
     /\ plain /\ Months(i) % StepOf(i.freq) = 0 /\ ~After(i.issue, asof) =>
          PricingDates(i, asof) = PricingDatesBack(i, asof)
     /\ AccruedInterest(i, asof) * i.freq \in 0 .. 1000 * i.rate
     /\ (\/ ~After(asof, i.issue) \/ ~After(i.maturity, asof)
         \/ \E k \in DOMAIN dates : dates[k] = asof) <=> AccruedInterest(i, asof) = 0
     /\ \A d \in AsOfDates : After(d, asof) /\ AccruedInterest(i, d) < AccruedInterest(i, asof) =>
          \E k \in DOMAIN dates : After(dates[k], asof) /\ ~After(dates[k], d)
     /\ plain /\ Months(i) % StepOf(i.freq) = 0 => \A k \in 2 .. Len(dates) :
          LET f == YearFraction(dates[k - 1], dates[k], "30/360") IN 12 * f[1] = StepOf(i.freq) * f[2]

\* The shifts of the key rates add up to the shift of the whole; a bond's
\* duration is within its life, and the portfolio's within its bonds'.
DurationsAddUp(book) ==
  /\ \A i \in DOMAIN book :
       /\ SumOf([k \in DOMAIN KeyTenors |-> KeyRate(book[i], k)]) = Dv01(book[i])
       /\ Macaulay(book[i]) <= 10 * book[i].left
       /\ book[i].rate >= 0 => Modified(book[i]) <= Macaulay(book[i])
       /\ book[i].rate >= 0 => Convexity(book[i]) <= book[i].left * (book[i].left + 1)
  /\ LET whole == PortfolioDuration(book, [i \in DOMAIN book |-> i])
         given == [i \in DOMAIN book |-> DurationReport(book[i])]
     IN \A f \in DOMAIN whole : \E i, j \in DOMAIN book : given[i][f] <= whole[f] /\ whole[f] <= given[j][f]

\* The result of a stress is that of its positions and of its tenors; the
\* state bears no shock of spreads, one's own currency none of exchange; and
\* among the preset scenarios a greater rise never costs less.
StressAddsUp(book) ==
  \A base \in {"BYN", "USD"}, name \in DOMAIN Presets :
    LET r == RunStress(Presets[name], book, base)
    IN /\ r.pnl = FoldFunction(+, 0, r.byPosition) /\ r.pnl = FoldFunction(+, 0, r.byTenor)
       /\ \A i \in Stressed(book) :
            /\ book[i].government /\ name = "credit_shock_+150bp" => r.byPosition[i] = 0
            /\ book[i].currency = base /\ name = "fx_shock_-20%" => r.byPosition[i] = 0
            /\ name = "parallel_+300bp" => r.byPosition[i] <= PositionPnl(Presets["parallel_+100bp"], book[i], base)
            /\ name = "parallel_+100bp" => r.byPosition[i] <= PositionPnl(Presets["parallel_-100bp"], book[i], base)

\* What is bought for a stress fits in the capital, at prices without the
\* interest that its whole papers are counted with.
LotsFit(book) ==
  LET offers == [i \in DOMAIN book |-> [price |-> book[i].price, accrued |-> i % 3]]
  IN \A capital \in {50, 100, 400} :
       LET lots == StressLots(capital, offers)
       IN /\ SumOf([i \in DOMAIN offers |-> lots[i] * offers[i].price]) <= capital
          /\ (\A i \in DOMAIN offers : lots[i] = 0) => \A i \in DOMAIN offers : offers[i].price > capital

\* What to buy yields more than what to sell among its like, and neither is
\* the greater part of them; a curve is not moved beyond its other bonds by
\* one of three; a yield solved prices the bond, and agrees on which side of
\* the curve the bond is with the comparison of the prices.
ValuesAgree(book) ==
  /\ \A i \in Signalled(book) :
       /\ \A j \in RvGroup(book, i) :
            RvSide(book, i) = "buy" /\ RvSide(book, j) = "sell" => book[i].rate > book[j].rate
       /\ \A side \in {"buy", "sell"} :
            2 * Cardinality({j \in RvGroup(book, i) : RvSide(book, j) = side}) <= Cardinality(RvGroup(book, i))
  /\ \A currency \in {book[i].currency : i \in DOMAIN book} :
       LET points == CurvePoints(book, currency)
       IN \A k \in DOMAIN points :
            \A odd \in OnTenor(book, currency, k) :
              Cardinality(OnTenor(book, currency, k)) >= 3 =>
                LET others == OnTenor(book, currency, k) \ {odd}
                IN /\ \E i \in others : 2 * book[i].rate <= points[k]
                   /\ \E i \in others : points[k] <= 2 * book[i].rate
  /\ \A i \in Spreads(book) :
       LET b == book[i]
           flat == FlatYield(b, Dirty(b))
       IN flat # Unsolved =>
            /\ PriceAt(b, flat + 1) <= Dirty(b) /\ Dirty(b) <= PriceAt(b, flat - 1)
            /\ Mispriced(b) = "cheap" => flat >= CurveRate
            /\ Mispriced(b) = "rich" => flat <= CurveRate

\* Dearer money never brings more and changes no rank; cash lent is covered.
CarryAndRepo(book) ==
  /\ \A f \in Funding, g \in Funding :
       /\ f <= g => \A i \in DOMAIN book : Carry(book[i], g) <= Carry(book[i], f)
       /\ RankCarry(book, f) = RankCarry(book, g)
  /\ \A haircut \in {-1, 0, 1, 3, 5, 99, 100, 150} : RepoCash(1000, haircut) \in 0 .. 1000

LastFound(table, key) ==
  LET S == {k \in DOMAIN deskRuns : deskRuns[k].table = table /\ key \in DOMAIN deskRuns[k].found}
  IN CHOOSE k \in S : \A j \in S : j <= k

\* A day has one row of a kind, the last computed, and the newest days are
\* the newest rows; on SQLite the points of a curve are of one computation.
TablesFaithful ==
  /\ \A t \in DOMAIN tables : \A r \in tables[t] :
       /\ r.value = deskRuns[LastFound(t, r.key)].found[r.key]
       /\ \A s \in tables[t] \ {r} : s.key # r.key /\ (s.key[3] < r.key[3] => s.made < r.made)
  /\ \A t \in DOMAIN tables \ {"curve"}, k \in DOMAIN deskRuns :
       deskRuns[k].table = t => DOMAIN deskRuns[k].found \subseteq {r.key : r \in tables[t]}
  /\ desk.kind = "book" /\ desk.dialect = "sqlite" =>
       \A r, s \in tables["curve"] : r.key[1] = s.key[1] /\ r.key[3] = s.key[3] =>
         LastFound("curve", r.key) = LastFound("curve", s.key)

\* The desk: schedules, durations, stress, relative value, spreads, carry and
\* repo agree with themselves and with each other, and its tables hold what
\* was computed last.
DeskHolds ==
  /\ desk.kind = "issue" => ScheduleSound(desk.issue, desk.asof)
  /\ desk.kind = "book" /\ deskRuns = << >> /\ desk.day = 1 =>
       /\ DurationsAddUp(desk.book) /\ StressAddsUp(desk.book) /\ LotsFit(desk.book)
       /\ ValuesAgree(desk.book) /\ CarryAndRepo(desk.book)
  /\ TablesFaithful
=============================================================================
