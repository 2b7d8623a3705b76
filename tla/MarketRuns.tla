----------------------------- MODULE MarketRuns -----------------------------
(***************************************************************************)
(* The MOEX sources: the client of ISS and what it takes for a price and a *)
(* yield (scraper/moex.py), the run that stores the bonds beside those of  *)
(* the Belarusian exchange (run_once_moex), and the stocks with their      *)
(* candles (moex_stocks.py, run_once_moex_stocks, repositories/stocks.py)  *)
(* as api/stocks.py shows them.                                            *)
(*                                                                         *)
(* A bond of the Belarusian exchange with the ISIN of a MOEX bond may be   *)
(* written at any time by the run of the other source or by /parse.  The   *)
(* yield that the solver finds depends on the price alone: the terms of a  *)
(* bond do not change, the listing may leave them out.                     *)
(***************************************************************************)
EXTENDS Integers, Sequences, SequencesExt, FiniteSets, FiniteSetsExt

CONSTANTS
  Securities,   \* MOEX bonds; a security also names its ISIN
  FaceUnit,     \* the currency code of a bond on the exchange
  Boards,       \* the boards of the bonds, in the order they are asked
  TradedOn,     \* the boards that list a bond
  Structured,   \* bonds that are structured notes
  Quoted,       \* what ISS may tell of a bond: price, yield, coupon, period
  Implied,      \* yield that the solver finds, by the price
  YieldTolerance,
  RunCurrencies, BondCap, SampleCap, MaxBondRuns, MaxBoardFailures, MaxQuoteMoves,
  Shares, ShareBoards, ShareOn,  \* stocks, their boards in order, and the boards that list a stock
  StaleHours, CriticalHours, LastHour, MaxStockRuns

NotTold == -999  \* None

\* What ISS tells of a bond; the solver gives no yield of -99 or less.
ToldType(q) ==
  /\ \A field \in {"price", "yield", "percent", "amount", "period"} : q[field] \in Int
  /\ q.price # NotTold => Implied[q.price] \in Int /\ (Implied[q.price] = NotTold \/ Implied[q.price] > -99)

ASSUME MarketAssumption ==
  /\ FaceUnit \in [Securities -> STRING] /\ Structured \subseteq Securities
  /\ Boards \in Seq(STRING) /\ ShareBoards \in Seq(STRING) /\ "none" \notin Range(ShareBoards)
  /\ YieldTolerance \in Nat /\ StaleHours \in Nat
  /\ \A q \in Quoted : ToldType(q)
  /\ \A s \in Securities : TradedOn[s] \subseteq Range(Boards)
  /\ \A s \in Shares : ShareOn[s] \subseteq Range(ShareBoards) /\ ShareOn[s] # {}
  /\ StaleHours <= CriticalHours

VARIABLES
  quoted,       \* what ISS tells now, by bond
  bondRow,      \* committed rows of the MOEX bonds
  belarusian,   \* ISINs that a row of the Belarusian exchange holds
  bondRun,      \* run_once_moex
  doubted,      \* bonds whose price was last told without their terms
  bondRuns, boardFailures, quoteMoves,
  stockRow, candles, stockHour, failures, stockRuns, answers  \* stocks, and when a board answered last

marketVars == <<quoted, bondRow, belarusian, bondRun, doubted, bondRuns, boardFailures, quoteMoves>>
stockVars == <<stockRow, candles, stockHour, failures, stockRuns, answers>>

-----------------------------------------------------------------------------
(* What the client makes of a row of ISS.                                  *)

\* _norm_currency; a bond in pounds is no Bond and is left out.
NormCurrency(unit) ==
  IF unit \in {"USD", "EUR", "BYN", "CNY", "CHF", "GBP", "JPY", "KZT"} THEN unit ELSE "RUB"

Representable(s) == NormCurrency(FaceUnit[s]) # "GBP" /\ s \notin Structured

\* _freq_from_coupon_period: a number of coupons, or a period in days.
FrequencyOf(period) ==
  CASE period \in {1, 2, 4, 12} -> period
    [] period \in 360 .. 370 -> 1 [] period \in 180 .. 185 -> 2
    [] period \in 88 .. 95 -> 4 [] period \in 28 .. 32 -> 12
    [] OTHER -> 0

\* _coupon_rate_pct: the rate, or the amount on a face of 1000 made annual.
CouponRate(q) ==
  IF q.percent # NotTold /\ q.percent > 0 THEN q.percent
  ELSE IF q.amount = NotTold \/ q.period = NotTold \/ q.period <= 0 THEN NotTold
  ELSE (q.amount * 365) \div (10 * q.period)

Terms(q) == CouponRate(q) > 0 /\ FrequencyOf(q.period) # 0

Close(y, z) == y - z <= YieldTolerance /\ z - y <= YieldTolerance

\* The yield of _quote_and_yield.
YieldOf(q) ==
  LET computed == IF Terms(q) THEN Implied[q.price] ELSE NotTold
  IN IF q.price = NotTold THEN NotTold
     ELSE IF q.yield \in 1 .. 99 /\ (computed = NotTold \/ Close(q.yield, computed)) THEN q.yield
     ELSE IF computed # NotTold /\ computed > -99 THEN computed
     ELSE NotTold

ParsedBond(board, s, q) ==
  [board |-> board, id |-> s, price |-> q.price, yield |-> YieldOf(q), coupon |-> CouponRate(q),
   frequency |-> FrequencyOf(q.period), currency |-> NormCurrency(FaceUnit[s])]

\* fetch_bonds: one board after the other up to the cap, a board that fails is
\* passed over; the order of a board is the exchange's.
Offered(currency, failed) ==
  {o \in (DOMAIN Boards) \X Securities : /\ Boards[o[1]] \in TradedOn[o[2]] \ failed /\ Representable(o[2])
                                        /\ NormCurrency(FaceUnit[o[2]]) = currency}

FetchedBonds(currency, failed) ==
  LET offered == Offered(currency, failed)
      Capped == {S \in SUBSET offered : /\ Cardinality(S) = Min({Cardinality(offered), BondCap})
                                        /\ \A o \in S, p \in offered \ S : o[1] <= p[1]}
  IN {{ParsedBond(o[1], o[2], quoted[o[2]]) : o \in S} : S \in Capped}

-----------------------------------------------------------------------------
(* run_once_moex.                                                          *)

Unstored == [kept |-> FALSE]

BondRunRests == [step |-> "rest", left |-> << >>, batch |-> {}, pending |-> {}, tx |-> << >>, told |-> {},
                 sample |-> {}, overtaken |-> FALSE]

MarketInitWith(failuresDone, movesDone) ==
  /\ quoted \in [Securities -> {q \in Quoted : q.price # NotTold /\ Terms(q)}]
  /\ bondRow = [s \in Securities |-> Unstored] /\ belarusian = {}
  /\ bondRun = BondRunRests /\ doubted = {}
  /\ bondRuns = 0 /\ boardFailures = failuresDone /\ quoteMoves = movesDone

MarketInit == MarketInitWith(0, 0)

QuoteMoves ==
  /\ quoteMoves < MaxQuoteMoves
  /\ \E s \in Securities, q \in Quoted : quoted' = [quoted EXCEPT ![s] = q]
  /\ quoteMoves' = quoteMoves + 1
  /\ UNCHANGED <<bondRow, belarusian, bondRun, doubted, bondRuns, boardFailures>>

\* The rouble is added to the currencies that are configured.
BeginBondRun ==
  /\ bondRun.step = "rest" /\ bondRuns < MaxBondRuns
  /\ bondRun' = [BondRunRests EXCEPT !.step = "fetch",
                   !.left = IF "RUB" \in Range(RunCurrencies) THEN RunCurrencies ELSE <<"RUB">> \o RunCurrencies]
  /\ bondRuns' = bondRuns + 1
  /\ UNCHANGED <<quoted, bondRow, belarusian, doubted, boardFailures, quoteMoves>>

FetchCurrency ==
  /\ bondRun.step = "fetch" /\ bondRun.left # << >>
  /\ \E failed \in SUBSET Range(Boards) :
       /\ boardFailures + Cardinality(failed) <= MaxBoardFailures
       /\ boardFailures' = boardFailures + Cardinality(failed)
       /\ \E batch \in FetchedBonds(Head(bondRun.left), failed) :
            bondRun' = IF batch = {} THEN [bondRun EXCEPT !.left = Tail(@)]
                       ELSE [bondRun EXCEPT !.batch = batch, !.tx = bondRow, !.told = doubted, !.step = "put"]
  /\ UNCHANGED <<quoted, bondRow, belarusian, doubted, bondRuns, quoteMoves>>

\* A mistake: a loss is taken for a missing yield.
MutStoredYield(b, old) == IF b.yield <= 0 THEN old ELSE b.yield

\* What the run writes into a row that is there: a yield of 0 or None keeps
\* the old one.  A price without terms is solved with two coupons a year.
Solvable(b) == b.price # NotTold /\ b.coupon # NotTold /\ Implied[b.price] > -99
StoredYield(b, old) ==
  LET yield == IF b.yield <= 0 /\ Solvable(b) THEN Implied[b.price] ELSE b.yield
  IN IF yield \in {NotTold, 0} THEN old ELSE yield

Merged(b, row) ==
  LET old == IF row.kept THEN row
             ELSE [price |-> NotTold, yield |-> NotTold, coupon |-> NotTold, frequency |-> 0, history |-> {}]
      Or(new, kept) == IF new \in {NotTold, 0} THEN kept ELSE new
  IN [kept |-> TRUE, currency |-> b.currency,
      price |-> IF b.price = NotTold THEN old.price ELSE b.price,
      yield |-> StoredYield(b, old.yield),
      coupon |-> IF b.coupon = NotTold THEN old.coupon ELSE b.coupon,
      frequency |-> Or(b.frequency, old.frequency), history |-> old.history, scored |-> FALSE]

\* A row that was added reaches the database with the next query; an ISIN that
\* was taken in between is refused and ends the run.
Refused(pending) == pending \cap belarusian # {}

PutBond ==
  /\ bondRun.step = "put" /\ ~Refused(bondRun.pending)
  /\ \E b \in bondRun.batch :
       /\ \A c \in bondRun.batch : b.board <= c.board
       /\ LET rest == [bondRun EXCEPT !.batch = @ \ {b}, !.pending = {}]
          IN bondRun' = IF b.id \in belarusian THEN rest
                        ELSE [rest EXCEPT !.tx[b.id] = Merged(b, @),
                                          !.pending = IF bondRun.tx[b.id].kept THEN {} ELSE {b.id},
                                          !.told = IF b.price = NotTold THEN @
                                                   ELSE IF b.coupon > 0 /\ b.frequency # 0 THEN @ \ {b.id}
                                                   ELSE @ \cup {b.id}]
  /\ UNCHANGED <<quoted, bondRow, belarusian, doubted, bondRuns, boardFailures, quoteMoves>>

RunRaises ==
  /\ bondRun.step = "put" /\ Refused(bondRun.pending)
  /\ bondRun' = [BondRunRests EXCEPT !.step = "raised", !.overtaken = bondRun.overtaken]
  /\ UNCHANGED <<quoted, bondRow, belarusian, doubted, bondRuns, boardFailures, quoteMoves>>

CommitBonds ==
  /\ bondRun.step = "put" /\ bondRun.batch = {} /\ ~Refused(bondRun.pending)
  /\ bondRow' = bondRun.tx /\ doubted' = bondRun.told
  /\ bondRun' = [bondRun EXCEPT !.left = Tail(@), !.tx = << >>, !.told = {}, !.pending = {}, !.step = "fetch"]
  /\ UNCHANGED <<quoted, belarusian, bondRuns, boardFailures, quoteMoves>>

\* recompute_all, as far as it changes the row: see Scoring.
Rescored(row) ==
  LET own == IF row.price = NotTold \/ row.coupon = NotTold THEN NotTold ELSE Implied[row.price]
      yield == IF row.yield = NotTold THEN own
               ELSE IF row.yield <= 0 THEN NotTold
               ELSE IF own > 0 THEN own ELSE IF row.yield < 100 THEN row.yield ELSE NotTold
  IN IF row.kept THEN [row EXCEPT !.yield = IF yield > 0 THEN yield ELSE NotTold, !.scored = TRUE] ELSE row

RescoreBonds ==
  /\ bondRun.step = "fetch" /\ bondRun.left = << >>
  /\ bondRow' = [s \in Securities |-> Rescored(bondRow[s])]
  /\ bondRun' = [bondRun EXCEPT !.step = "sample"]
  /\ UNCHANGED <<quoted, belarusian, doubted, bondRuns, boardFailures, quoteMoves>>

\* Of each currency the first in descending order; NULL comes before all.
SampleBonds ==
  /\ bondRun.step = "sample"
  /\ LET Kept(c) == {s \in Securities : bondRow[s].kept /\ bondRow[s].currency = c}
         Before(s, t) == bondRow[s].yield = NotTold \/ (bondRow[t].yield # NotTold /\ bondRow[s].yield > bondRow[t].yield)
         First(c) == {S \in SUBSET Kept(c) :
                        /\ Cardinality(S) = Min({SampleCap, Cardinality(Kept(c))})
                        /\ \A s \in S, t \in Kept(c) \ S : Before(s, t) \/ bondRow[s].yield = bondRow[t].yield}
         currencies == {bondRow[s].currency : s \in {k \in Securities : bondRow[k].kept}}
     IN \E choice \in [currencies -> SUBSET Securities] :
          /\ \A c \in currencies : choice[c] \in First(c)
          /\ bondRun' = [bondRun EXCEPT !.step = "history", !.sample = UNION Range(choice)]
  /\ UNCHANGED <<quoted, bondRow, belarusian, doubted, bondRuns, boardFailures, quoteMoves>>

\* fetch_history takes the first board that has rows; a request that fails is
\* passed over.
GatherHistory ==
  /\ bondRun.step = "history" /\ bondRun.sample # {}
  /\ LET s == CHOOSE t \in bondRun.sample : TRUE
     IN \E failed \in SUBSET Range(Boards) :
          LET answering == {i \in DOMAIN Boards : Boards[i] \in TradedOn[s] \ failed}
          IN /\ boardFailures + Cardinality(failed) <= MaxBoardFailures
             /\ boardFailures' = boardFailures + Cardinality(failed)
             /\ bondRow' = IF answering = {} THEN bondRow
                           ELSE [bondRow EXCEPT ![s].history = @ \cup {Boards[Min(answering)]}]
             /\ bondRun' = [bondRun EXCEPT !.sample = @ \ {s}]
  /\ UNCHANGED <<quoted, belarusian, doubted, bondRuns, quoteMoves>>

EndBondRun ==
  /\ bondRun.step = "raised" \/ (bondRun.step = "history" /\ bondRun.sample = {})
  /\ bondRun' = BondRunRests
  /\ UNCHANGED <<quoted, bondRow, belarusian, doubted, bondRuns, boardFailures, quoteMoves>>

\* The other source stores a bond of that ISIN; a row that MOEX has holds it
\* off, a transaction that is about to commit one makes it wait.
BelarusianWrites ==
  /\ \E s \in Securities \ belarusian :
       /\ ~bondRow[s].kept
       /\ bondRun.step = "put" => ~(bondRun.tx[s].kept /\ s \notin bondRun.pending)
       /\ belarusian' = belarusian \cup {s}
  /\ bondRun' = [bondRun EXCEPT !.overtaken = bondRun.step # "rest"]
  /\ UNCHANGED <<quoted, bondRow, doubted, bondRuns, boardFailures, quoteMoves>>

MarketNext ==
  \/ QuoteMoves \/ BeginBondRun \/ FetchCurrency \/ PutBond \/ RunRaises \/ CommitBonds
  \/ RescoreBonds \/ SampleBonds \/ GatherHistory \/ EndBondRun \/ BelarusianWrites

-----------------------------------------------------------------------------
(* The stocks.                                                             *)

StocksInit ==
  /\ stockRow = [s \in Shares |-> Unstored] /\ candles = [s \in Shares |-> {}]
  /\ stockHour = 0 /\ failures = 0 /\ stockRuns = 0
  /\ answers = [b \in Range(ShareBoards) |-> NotTold]

\* The last of the boards that answered and list the stock: it overwrites both
\* the row and the board that the client remembers.
BoardTold(s, failed) ==
  LET listing == {i \in DOMAIN ShareBoards : ShareBoards[i] \in ShareOn[s] \ failed}
  IN IF listing = {} THEN "none" ELSE ShareBoards[Max(listing)]

\* run_once_moex_stocks: nothing but the failed boards distinguishes two runs,
\* so it is one step.  Candles of a stock that was not listed now are asked of
\* the first board.
RunStocks ==
  /\ stockRuns < MaxStockRuns /\ stockRuns' = stockRuns + 1
  /\ \E failed \in SUBSET Range(ShareBoards) :
       LET told == [s \in Shares |-> BoardTold(s, failed)]
           nothing == \A s \in Shares : told[s] = "none"
           rows == [s \in Shares |-> IF told[s] = "none" THEN stockRow[s]
                                     ELSE [kept |-> TRUE, board |-> told[s], fetched |-> stockHour]]
           Asked(s) == IF told[s] = "none" THEN ShareBoards[1] ELSE told[s]
       IN IF nothing
          THEN failures' = failures + 1 /\ UNCHANGED <<stockRow, candles, answers>>
          ELSE /\ failures' = 0
               /\ stockRow' = rows
               /\ candles' = [s \in Shares |->
                                IF rows[s].kept /\ Asked(s) \in ShareOn[s] THEN candles[s] \cup {Asked(s)} ELSE candles[s]]
               /\ answers' = [b \in Range(ShareBoards) |-> IF b \in failed THEN answers[b] ELSE stockHour]
  /\ UNCHANGED stockHour

StockHourPasses == stockHour < LastHour /\ stockHour' = stockHour + 1 /\ UNCHANGED <<stockRow, candles, failures, stockRuns, answers>>

\* stock_freshness: boards of no row are not in the answer.
Freshness(board) ==
  LET rows == {s \in Shares : stockRow[s].kept /\ stockRow[s].board = board}
      age == stockHour - Max({stockRow[s].fetched : s \in rows})
  IN IF rows = {} THEN "absent"
     ELSE IF age <= StaleHours THEN "ok" ELSE IF age <= CriticalHours THEN "stale" ELSE "critical"

StocksNext == RunStocks \/ StockHourPasses

\* Bonds and stocks, beside each other.
MarketsSpec ==
  /\ MarketInit /\ StocksInit
  /\ [][(MarketNext /\ UNCHANGED stockVars) \/ (StocksNext /\ UNCHANGED marketVars)]_<<marketVars, stockVars>>

-----------------------------------------------------------------------------
\* Once the bonds were scored, the yield of a row is one that its price
\* implies, to the tolerance, or none; unless the listing that told the price
\* left out what the yield is checked with, and unless the solver finds none for
\* the price or finds 0, which the run takes for none.
YieldsOfQuotes ==
  \A s \in Securities :
    LET row == bondRow[s]
    IN row.kept /\ row.scored /\ s \notin doubted /\ row.yield # NotTold =>
         /\ row.yield > 0 /\ row.price # NotTold
         /\ Implied[row.price] \in {0, NotTold} \/ Close(row.yield, Implied[row.price])

\* A run ends with an exception only where a bond of the other exchange took
\* an ISIN meanwhile, and no ISIN is stored for both.
RaisesOnlyOvertaken ==
  /\ bondRun.step = "raised" => bondRun.overtaken
  /\ \A s \in belarusian : ~bondRow[s].kept

\* A board is shown as fresh only if it answered within the hours shown, and a
\* board that answered and has a stock of its own is shown.
FreshnessTold ==
  \A b \in Range(ShareBoards) :
    /\ Freshness(b) = "ok" => answers[b] # NotTold /\ stockHour - answers[b] <= StaleHours
    /\ answers[b] # NotTold /\ (\E s \in Shares : ShareOn[s] = {b}) => Freshness(b) # "absent"

MarketsHold == YieldsOfQuotes /\ RaisesOnlyOvertaken /\ FreshnessTold
=============================================================================
