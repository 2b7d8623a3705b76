----------------------------- MODULE FeedQuotes -----------------------------
(***************************************************************************)
(* What the scraper makes of a bond that the site of the Belarusian        *)
(* broker tells it (sources/aigenis/client.py, api/__init__.py), and how   *)
(* the row takes it (repositories/bonds.py, pipeline.collect_details).     *)
(*                                                                         *)
(* The site quotes in roubles; the row holds percents of the face.  The    *)
(* rate comes from a cache of the process, on a miss from the table, else  *)
(* from the national bank: only a miss suspends the request, and another   *)
(* one may go on.  Amounts, percents and yields are whole numbers; the     *)
(* yield found by the solver is a given function of percent and coupon.    *)
(***************************************************************************)
EXTENDS Integers, FiniteSets, Sequences

CONSTANTS
  FeedBonds,        \* internal ids
  CurrencyOf,       \* their currencies; MinfinBonds are those in roubles of the state
  MinfinBonds,
  FeedAnswers,      \* what the site may tell of every bond; see FeedAnswerType
  BankRates,        \* roubles per unit of a foreign currency
  ImpliedYield,     \* the solver: coupon, percent -> yield
  FeedTolerance,    \* MOEX_YTM_SANITY_TOL_PP
  FeedTasks,        \* requests under way at once
  ScrapeProcs,      \* the processes that scrape: the scheduler and the bot
  MaxDetails,
  MaxUpsets         \* site and rates that move, queries that fail, restarts

NoFigure == -1000   \* None
Gone == [known |-> FALSE]

FeedAnswerType(a) ==
  /\ a.freq \in {NoFigure} \cup Nat /\ a.live \in BOOLEAN /\ a.metal \in BOOLEAN
  /\ \A f \in {"price", "bid", "ask", "nominal", "yield", "coupon"} : a[f] \in Int

ASSUME FeedAssumption ==
  /\ CurrencyOf \in [FeedBonds -> STRING] /\ BankRates \subseteq Nat \ {0, 1}
  /\ \A b \in MinfinBonds : CurrencyOf[b] = "BYN"
  /\ \A b \in FeedBonds : \A a \in FeedAnswers[b] : FeedAnswerType(a)

VARIABLES
  feed,       \* what the site tells of a bond now, or Gone
  bankRate,   \* what the bank publishes now
  fxTable,    \* latest row of fx_rates, 0 when there is none
  fxCache,    \* _FX_CACHE of every process, 0 when the currency is not in it
  feedRow,    \* rows of the bonds
  detail,     \* fetch_detail and what stores it, by task
  origin,     \* history: for every field of a row the answer that told it last
  era,        \* history: the rates a process may have met since it started
  guessed,    \* history: bonds whose currency was written without being known
  details, upsets

feedCounts == <<details, upsets>>
feedVars == <<feed, bankRate, fxTable, fxCache, feedRow, detail, origin, era, guessed, feedCounts>>

-----------------------------------------------------------------------------
(* The conversions.                                                        *)

\* _to_price_pct: an amount that cannot be a percent, and one whose face is
\* unknown, stays as it is; without a rate there is no price.
ToPercent(v, nominal, rate) ==
  IF v = NoFigure \/ v <= 0 THEN NoFigure
  ELSE IF nominal = NoFigure \/ nominal <= 0 THEN v
  ELSE IF rate = 0 THEN NoFigure
  ELSE LET percent == (v * 100) \div (nominal * rate) IN IF percent \in 1 .. 500 THEN percent ELSE v

\* to_price_pct, by which everybody reads a row: amounts beyond any percent
\* are divided by the face, without a rate.
ReadPercent(p, nominal) ==
  LET Apart(x, y) == IF x > y THEN x - y ELSE y - x
      amount == p > 500 \/ (nominal >= 2000 /\ p > 150 /\ Apart(p, nominal) < Apart(p, 100))
  IN IF nominal > 0 /\ amount THEN (p * 100) \div nominal ELSE p

SaneCoupon(v) == IF v > 0 THEN v ELSE NoFigure

NoCouponMetalYield(a) == a.metal /\ a.coupon <= 0

Agrees(y, computed) == y - computed <= FeedTolerance /\ computed - y <= FeedTolerance

\* A change: what the price implies is not asked.
MutSanitizedYield(a, percent) ==
  IF a.yield = NoFigure \/ a.yield <= 0 \/ NoCouponMetalYield(a) THEN NoFigure ELSE a.yield

\* _sanitize_yield.  A coupon that is told to be 0 counts as one of 0 here.
SanitizedYield(a, percent) ==
  LET computed == IF percent # NoFigure /\ a.coupon # NoFigure /\ a.freq # 0 /\ a.live
                  THEN ImpliedYield[a.coupon][percent] ELSE NoFigure
  IN IF a.yield = NoFigure \/ a.yield <= 0 \/ NoCouponMetalYield(a) THEN NoFigure
     ELSE IF computed # NoFigure THEN (IF Agrees(a.yield, computed) THEN a.yield ELSE computed)
     ELSE IF a.yield < 100 THEN a.yield ELSE NoFigure

-----------------------------------------------------------------------------
(* The row.                                                                *)

MinfinNominal == 1000

SanitizedNominal(b, n) == IF b \in MinfinBonds /\ n > 0 /\ n < MinfinNominal THEN MinfinNominal ELSE n

\* The fields of Bond that are literals: another frequency makes the whole
\* answer invalid.
Valid(a) == a.freq \in {NoFigure, 1, 2, 4, 12}

Figures == {"price", "bid", "ask", "nominal", "yield", "coupon", "freq"}

BondOf(b, a, got) ==
  [price |-> got.price, bid |-> got.bid, ask |-> got.ask, nominal |-> SanitizedNominal(b, a.nominal),
   yield |-> SanitizedYield(a, got.check), coupon |-> SaneCoupon(a.coupon), freq |-> a.freq]

NoFeedRow ==
  [price |-> NoFigure, bid |-> NoFigure, ask |-> NoFigure, nominal |-> NoFigure,
   yield |-> NoFigure, coupon |-> NoFigure, freq |-> NoFigure, kept |-> FALSE]

\* upsert_bond with merge_missing.
Upserted(row, figures, currency, status) ==
  LET Merged(f) == IF figures[f] = NoFigure THEN row[f] ELSE figures[f]
  IN [price |-> Merged("price"), bid |-> Merged("bid"), ask |-> Merged("ask"), nominal |-> Merged("nominal"),
      yield |-> Merged("yield"), coupon |-> Merged("coupon"), freq |-> Merged("freq"),
      kept |-> TRUE, currency |-> currency, status |-> status]

Nothing == [f \in Figures |-> NoFigure]
NoOrigin == [answer |-> Gone, rates |-> {}]

-----------------------------------------------------------------------------
(* A request for the detail of a bond.                                     *)

NoDetail == [step |-> "rest"]
Conversions == <<"check", "bid", "ask", "price">>

FeedInit ==
  /\ feed \in {f \in [FeedBonds -> UNION {FeedAnswers[b] : b \in FeedBonds}] : \A b \in FeedBonds : f[b] \in FeedAnswers[b]}
  /\ bankRate \in BankRates /\ fxTable \in {0, bankRate}
  /\ fxCache = [p \in ScrapeProcs |-> 0] /\ feedRow = [b \in FeedBonds |-> NoFeedRow]
  /\ detail = [t \in FeedTasks |-> NoDetail]
  /\ origin = [b \in FeedBonds |-> [f \in Figures |-> NoOrigin]]
  /\ era = [p \in ScrapeProcs |-> {bankRate}] /\ guessed = {}
  /\ details = 0 /\ upsets = 0

\* An answer, or a bond that the site does not know (any more).
BeginDetail(t) ==
  /\ detail[t].step = "rest" /\ details < MaxDetails
  /\ \E b \in FeedBonds, p \in ScrapeProcs :
       detail' = [detail EXCEPT ![t] =
         IF feed[b] = Gone THEN [step |-> "missing", bond |-> b, proc |-> p]
         ELSE [step |-> "convert", bond |-> b, proc |-> p, answer |-> feed[b], at |-> 1, value |-> 0,
               got |-> [c \in {"check", "bid", "ask", "price"} |-> NoFigure]]]
  /\ details' = details + 1
  /\ UNCHANGED <<feed, bankRate, fxTable, fxCache, feedRow, origin, era, guessed, upsets>>

RawOf(a, c) == IF c = "check" THEN a.price ELSE a[c]

\* The conversions from the next one to the one at position `upto`.
ConvertedTo(d, upto, rate) ==
  [d EXCEPT !.at = upto + 1,
            !.got = [c \in DOMAIN @ |->
               IF \E i \in d.at .. upto : Conversions[i] = c
               THEN ToPercent(RawOf(d.answer, c), d.answer.nominal, rate) ELSE @[c]],
            !.step = IF upto = Len(Conversions) THEN "store" ELSE "convert"]

NeedsRate(d) ==
  LET a == d.answer
      raw == RawOf(a, Conversions[d.at])
  IN raw > 0 /\ a.nominal > 0

Cached(d) == IF CurrencyOf[d.bond] = "BYN" THEN 1 ELSE fxCache[d.proc]

\* With a rate at hand the rest is converted without a pause.
Convert(t) ==
  LET d == detail[t]
  IN /\ d.step = "convert"
     /\ \/ Cached(d) # 0 /\ detail' = [detail EXCEPT ![t] = ConvertedTo(d, Len(Conversions), Cached(d))]
        \/ Cached(d) = 0 /\ ~NeedsRate(d) /\ detail' = [detail EXCEPT ![t] = ConvertedTo(d, d.at, 0)]
     /\ UNCHANGED <<feed, bankRate, fxTable, fxCache, feedRow, origin, era, guessed, feedCounts>>

\* The table is asked first; the bank when it is empty or the query fails.
ReadRate(t) ==
  LET d == detail[t]
  IN /\ d.step = "convert" /\ Cached(d) = 0 /\ NeedsRate(d)
     /\ detail' = [detail EXCEPT ![t].value = fxTable, ![t].step = IF fxTable = 0 THEN "bank" ELSE "looked"]
     /\ UNCHANGED <<feed, bankRate, fxTable, fxCache, feedRow, origin, era, guessed, feedCounts>>

AskBank(t) ==
  LET d == detail[t]
  IN /\ d.step = "bank"
     /\ \/ /\ fxTable' = bankRate
           /\ detail' = [detail EXCEPT ![t].value = bankRate, ![t].step = "looked"]
           /\ UNCHANGED upsets
        \/ /\ upsets < MaxUpsets /\ upsets' = upsets + 1
           /\ detail' = [detail EXCEPT ![t] = ConvertedTo(d, d.at, 0)]
           /\ UNCHANGED fxTable
     /\ UNCHANGED <<feed, bankRate, fxCache, feedRow, origin, era, guessed, details>>

\* The rate is cached for the life of the process and used at once, for all
\* that is left.
RateLooked(t) ==
  LET d == detail[t]
  IN /\ d.step = "looked"
     /\ fxCache' = [fxCache EXCEPT ![d.proc] = d.value]
     /\ detail' = [detail EXCEPT ![t] = ConvertedTo(d, Len(Conversions), d.value)]
     /\ UNCHANGED <<feed, bankRate, fxTable, feedRow, origin, era, guessed, feedCounts>>

\* What is about to be written of a bond, with the row it is merged with.
Writing(d, figures, currency, status, known, told) ==
  [step |-> "write", bond |-> d.bond, proc |-> d.proc, figures |-> figures, currency |-> currency,
   status |-> status, known |-> known, told |-> told, old |-> feedRow[d.bond], oldOrigin |-> origin[d.bond]]

\* The answer becomes a Bond, if it can, and the row is read to be merged.
Merge(t) ==
  LET d == detail[t]
  IN /\ d.step = "store"
     /\ detail' = [detail EXCEPT ![t] =
          IF Valid(d.answer)
          THEN Writing(d, BondOf(d.bond, d.answer, d.got), CurrencyOf[d.bond], "active", TRUE,
                       [answer |-> d.answer, got |-> d.got, rates |-> era[d.proc]])
          ELSE NoDetail]
     /\ UNCHANGED <<feed, bankRate, fxTable, fxCache, feedRow, origin, era, guessed, feedCounts>>

\* _delisted_placeholder reads the currency in a session of its own.
MissingRead(t) ==
  LET d == detail[t]
      row == feedRow[d.bond]
  IN /\ d.step = "missing"
     /\ detail' = [detail EXCEPT ![t] = [step |-> "delist", bond |-> d.bond, proc |-> d.proc,
                     known |-> row.kept /\ d.bond \notin guessed,
                     currency |-> IF row.kept THEN row.currency ELSE "USD"]]
     /\ UNCHANGED <<feed, bankRate, fxTable, fxCache, feedRow, origin, era, guessed, feedCounts>>

MergeDelisted(t) ==
  LET d == detail[t]
  IN /\ d.step = "delist"
     /\ detail' = [detail EXCEPT ![t] = Writing(d, Nothing, d.currency, "delisted", d.known, NoOrigin)]
     /\ UNCHANGED <<feed, bankRate, fxTable, fxCache, feedRow, origin, era, guessed, feedCounts>>

\* The row as it was read, under what was told: a write in between is lost.
Stored(t) ==
  LET d == detail[t]
  IN /\ d.step = "write"
     /\ feedRow' = [feedRow EXCEPT ![d.bond] = Upserted(d.old, d.figures, d.currency, d.status)]
     /\ origin' = [origin EXCEPT ![d.bond] =
          [f \in Figures |-> IF d.figures[f] = NoFigure THEN d.oldOrigin[f] ELSE d.told]]
     /\ guessed' = IF d.known THEN guessed \ {d.bond} ELSE guessed \cup {d.bond}
     /\ detail' = [detail EXCEPT ![t] = NoDetail]
     /\ UNCHANGED <<feed, bankRate, fxTable, fxCache, era, feedCounts>>

-----------------------------------------------------------------------------
(* What goes on around it.                                                 *)

FeedMoves ==
  /\ upsets < MaxUpsets /\ upsets' = upsets + 1
  /\ \E b \in FeedBonds : \E a \in FeedAnswers[b] \cup {Gone} : feed' = [feed EXCEPT ![b] = a]
  /\ UNCHANGED <<bankRate, fxTable, fxCache, feedRow, detail, origin, era, guessed, details>>

\* The bank publishes, and the job of the morning stores it (or fails).
RatePublished ==
  /\ upsets < MaxUpsets /\ upsets' = upsets + 1
  /\ bankRate' \in BankRates \ {bankRate}
  /\ fxTable' \in {fxTable, bankRate'}
  /\ era' = [p \in ScrapeProcs |-> era[p] \cup {bankRate'}]
  /\ UNCHANGED <<feed, fxCache, feedRow, detail, origin, guessed, details>>

ProcRestarts ==
  /\ upsets < MaxUpsets /\ upsets' = upsets + 1
  /\ \E p \in ScrapeProcs :
       /\ fxCache' = [fxCache EXCEPT ![p] = 0]
       /\ era' = [era EXCEPT ![p] = {bankRate} \cup ({fxTable} \ {0})]
       /\ detail' = [t \in FeedTasks |->
                       IF detail[t].step # "rest" /\ detail[t].proc = p THEN NoDetail ELSE detail[t]]
  /\ UNCHANGED <<feed, bankRate, fxTable, feedRow, origin, guessed, details>>

FeedNext ==
  \/ \E t \in FeedTasks : \/ BeginDetail(t) \/ Convert(t) \/ ReadRate(t) \/ AskBank(t) \/ RateLooked(t)
                          \/ Merge(t) \/ MissingRead(t) \/ MergeDelisted(t) \/ Stored(t)
  \/ FeedMoves \/ RatePublished \/ ProcRestarts

-----------------------------------------------------------------------------
(* Properties.                                                             *)

\* Whatever an answer leaves out stays, so that every figure of a row is one
\* that was told, converted at one rate for the whole answer: a rate that the
\* process may have met since its start, not that of the day.
FiguresFromAnswers(b) ==
  \A f \in {"price", "bid", "ask"} :
    LET from == origin[b][f]
        a == from.answer
    IN /\ (from = NoOrigin) <=> (feedRow[b][f] = NoFigure)
       /\ from # NoOrigin => \E r \in (IF CurrencyOf[b] = "BYN" THEN {1} ELSE from.rates) :
            /\ feedRow[b][f] = ToPercent(a[f], a.nominal, r)
            /\ \A g \in {"price", "bid", "ask"} :
                 origin[b][g] = from => feedRow[b][g] = ToPercent(a[g], a.nominal, r)

\* No yield is kept that the feed made up: beyond 100 it agrees with the price.
YieldsBelieved(b) ==
  LET from == origin[b]["yield"]
      y == feedRow[b].yield
      a == from.answer
  IN /\ (from = NoOrigin) <=> (y = NoFigure)
     /\ from # NoOrigin =>
          /\ ~NoCouponMetalYield(a)
          /\ \/ y = a.yield /\ y \in 1 .. 99
             \/ /\ a.coupon # NoFigure
                /\ \E q \in {ToPercent(a.price, a.nominal, r) : r \in from.rates \cup {1}} \ {NoFigure} :
                     y = ImpliedYield[a.coupon][q] \/ Agrees(y, ImpliedYield[a.coupon][q])

\* A bond of the state told with a wrong small face is read at its percent of
\* the true one, when the amount is too large for a percent either way.
FaceCorrected(b) ==
  LET from == origin[b]["price"]
      a == from.answer
  IN (/\ from # NoOrigin /\ b \in MinfinBonds /\ origin[b]["nominal"] = from
      /\ a.price > 500 /\ a.nominal \in 1 .. MinfinNominal /\ (a.price * 100) \div a.nominal > 500)
     => ReadPercent(feedRow[b].price, feedRow[b].nominal) = (a.price * 100) \div MinfinNominal

\* A bond that leaves the site keeps its currency; the only one that is
\* written without being known is that of a bond nobody had stored.
CurrencyKept(b) == feedRow[b].kept /\ b \notin guessed => feedRow[b].currency = CurrencyOf[b]

\* What the rows hold of the site's answers (client._to_price_pct,
\* _sanitize_yield, repositories/bonds.upsert_bond).
QuotesSound ==
  \A b \in FeedBonds :
    FiguresFromAnswers(b) /\ YieldsBelieved(b) /\ FaceCorrected(b) /\ CurrencyKept(b)

=============================================================================
