---------------------------- MODULE MCAnalytics ----------------------------
(* Instances for TLC of the Stars handlers when they overlap, and of the   *)
(* analytics: a behaviour is one of a single part, the variables of the    *)
(* others keep their values.                                               *)
EXTENDS StarsPayments, ModelLifecycle, TrainingSamples, PortfolioMath, PortfolioGate, Scoring,
        MarketRuns, DeskMath, Workbooks, DemoMarket, SnapshotCache, NewsFeed

CONSTANTS c1, c2, alice, bob

AllByAlice == [c \in Charges |-> alice]
FirstEnterprise == [c \in Charges |-> IF c = c1 THEN "enterprise" ELSE "pro"]
EachRefersOther == {<<bob, alice>>, <<alice, bob>>}

\* Two ordinary bonds and two of which any may be odd: distressed, quoted out
\* of reach, without price or yield, delisted, of a low yield, in dollars,
\* without an issuer.
Ordinary == {Row(90, 21), [Row(100, 24) EXCEPT !.score = 2, !.advice = 205, !.issuer = "n"]}
Odd == {Row(70, 40), Row(100, 40), Row(100, 120), Row(0, 23), [Row(90, NoYield) EXCEPT !.solved = -2],
        [Row(60, 20) EXCEPT !.state = "delisted"], [Row(110, 3) EXCEPT !.score = 0],
        [Row(100, 22) EXCEPT !.dollar = TRUE, !.currency = "USD", !.vol = 2, !.fresh = FALSE, !.issuer = "n",
                             !.advice = 410],
        [Row(95, 22) EXCEPT !.issuer = NoIssuer, !.advice = 402]}
FourBonds == {<<Row(90, 20), [Row(100, 24) EXCEPT !.score = 2, !.advice = 205, !.issuer = "n"], c, d>> :
                c \in Ordinary \cup Odd, d \in Ordinary \cup Odd}
\* One yield far above three others, and one that is farther still.
FiveBonds == {<<Row(90, 20), Row(90, 21), Row(90, 22), Row(100, 45), Row(100, y)>> : y \in {50, 95, 120}}
SomeMarkets == FourBonds \cup FiveBonds
FewWishes ==
  [kind : {"strategy"}, capital : {0, 80, 250}, special : BOOLEAN, fails : BOOLEAN, top : {2}]
    \cup [kind : {"custom"}, capital : {80, 250}, ids : {<<1, 2, 5>>},
          objective : {"equal_weight", "min_variance", "risk_parity", "max_sharpe"}]
    \cup [kind : {"fixed"}, ids : {<<1, 2>>, <<1, 1>>, <<1, 7>>}, amounts : {<<3, 5>>}]
    \cup [kind : {"recommend"}, top : {2}, cap : {1}, watched : {{}, {1, 2, 3}}, unwanted : {{}, {"BYN"}}]
    \cup [kind : {"recommend"}, top : {2}, cap : {0}, watched : {{}}, unwanted : {{}}]
\* Two bonds for three days; the rows of the first differ between the inputs.
Series == [1 .. 3 -> {[price |-> 3, ytm |-> 1], [price |-> 6, ytm |-> 0], NoRow}]
SecondBond == <<[price |-> 4, ytm |-> 2], NoRow, [price |-> 7, ytm |-> 1]>>
TwoInputs == {Study(<<<<s, SecondBond>>, <<r, SecondBond>>>>, <<<<1, 1>>, <<y, 1>>>>) :
                s \in Series, r \in Series, y \in {1, 3}}
SmallBaskets ==
  {[capital |-> 19, weight |-> <<1, 9>>, price |-> <<3, 20>>]}
    \cup [capital : {10, 19, 31}, weight : [1 .. 3 -> {0, 1, 4}], price : [1 .. 3 -> {3, 7}]]

LogPoints ==
  2 :> 139 @@ 3 :> 220 @@ 5 :> 322 @@ 6 :> 358 @@ 19 :> 589 @@ 28 :> 666 @@ 81 :> 879 @@ 139 :> 987 @@ 194 :> 1054
    @@ 211 :> 1070 @@ 641 :> 1293 @@ 861 :> 1352
SigmoidPoints == 12 :> 731 @@ 24 :> 700 @@ 36 :> 657

DemoPaper(price, coupon, life, semi, own, discount, frozen, source) ==
  [price |-> price, coupon |-> coupon, life |-> life, semi |-> semi, own |-> own, discount |-> discount,
   issuer |-> [known |-> TRUE, profiles |-> {}, words |-> {}], source |-> source, currency |-> "BYN", metal |-> FALSE,
   named |-> "none", market |-> "bcse", status |-> "active", frozen |-> frozen, told |-> TRUE]
Later(p) == [p EXCEPT !.told = FALSE]
\* A bond whose yield turns into a loss and that is repaid; one that falls
\* into distress; a loss with a yield of the source; quotes out of reach; a
\* bond indexed by gold; one without a coupon; one that is suspended; one with
\* four coupons a year whose yield is stored as 0.
Stories ==
  {<<DemoPaper(95, 8, 24, 12, 11, 3, 10, 0), Later(DemoPaper(96, 8, 12, 11, 10, 3, 10, 0))>>,
   <<DemoPaper(100, 12, 24, 12, 12, Absent, 11, Absent), Later(DemoPaper(110, 3, 6, -15, -16, -17, 5, Absent)),
     Later(DemoPaper(110, 3, -1, Absent, Absent, Absent, Absent, Absent))>>,
   <<DemoPaper(72, 20, 24, 42, 44, 18, 43, 30), DemoPaper(69, 20, 24, 45, 45, 20, 43, Absent),
     Later(DemoPaper(60, 10, 24, 41, 40, 29, 43, 1))>>,
   <<DemoPaper(110, 3, 6, -15, -16, -17, 2, 12), DemoPaper(104, 3, 6, 0, 0, -4, 2, 45)>>,
   <<DemoPaper(1, 5, 24, 680, 1205, 900, 600, 120), DemoPaper(30, 5, 12, 178, 250, 233, 120, Absent),
     Later(DemoPaper(90, 5, 12, 12, 12, 20, 13, Absent))>>,
   <<[DemoPaper(90, 0, 24, 5, 5, 5, 4, 12) EXCEPT !.metal = TRUE],
     [DemoPaper(88, 0, 24, 6, 6, 6, 4, Absent) EXCEPT !.metal = TRUE]>>,
   <<DemoPaper(90, 0, 24, 5, 5, 5, 4, 12), DemoPaper(102, Absent, Absent, Absent, Absent, Absent, Absent, 120),
     DemoPaper(Absent, 8, 24, Absent, Absent, Absent, Absent, 7)>>,
   <<DemoPaper(95, 8, 24, 11, 11, 3, 10, 11), [DemoPaper(95, 8, 24, 11, 11, 3, 10, 11) EXCEPT !.status = "suspended"]>>}
SomeShelves == Stories \X Stories
SomePurchases ==
  [ytm : {950}, duration : {240}, held : {0, 10, 18}, allowed : {25},
   bond : [ytm : {0, 950, 1400}, duration : {50, 400, 500}]]

\* A bond looked at every third day, with gaps and a row that may lack its
\* yield, and a bond of the same currency.
HistoryOf(days, unpriced) ==
  LET Kept == SelectSeq([k \in 1 .. 25 |-> k - 1], LAMBDA d : d \in days)
  IN [k \in DOMAIN Kept |-> [day |-> Kept[k], ytm |-> IF Kept[k] = unpriced THEN NoYieldYet ELSE 4 + (k % 3)]]
SomeHistories ==
  {<<HistoryOf({0, 24} \cup days, unpriced),
     <<[day |-> 0, ytm |-> 9], [day |-> 4, ytm |-> 8], [day |-> 16, ytm |-> 3]>>>> :
     days \in SUBSET {2, 5, 8, 11, 13, 16}, unpriced \in {5, 13, 30}}
SomeMoves == -3 .. 4

\* Bonds to score: quotes with what solvers find from them, issuers, and the
\* yield that the source tells.
Quote(price, coupon, life, semi, own, discount) ==
  [price |-> price, coupon |-> coupon, life |-> life, semi |-> semi, own |-> own, discount |-> discount]
Quotes ==
  {Quote(100, 12, 36, 12, 12, Absent), Quote(60, 10, 24, 41, 40, 29), Quote(110, 3, 6, -15, -16, -17),
   Quote(30, 5, 12, 178, 250, 233), Quote(90, 0, 24, 5, 5, 5), Quote(1, 5, 24, 680, 1205, 900),
   Quote(69, 20, 24, 45, 44, 20), Quote(72, 20, 24, 42, 44, 18), Quote(Absent, 8, 24, Absent, Absent, Absent),
   Quote(95, 9, -24, Absent, Absent, Absent), Quote(60, 0, 12, 58, 67, 67),
   Quote(102, Absent, Absent, Absent, Absent, Absent)}
IssuerOf(profiles, words) == [known |-> TRUE, profiles |-> profiles, words |-> words]
Issuers ==
  {[known |-> FALSE, profiles |-> {}, words |-> {}], IssuerOf({1}, {"state"}), IssuerOf({}, {"state", "bank"}),
   IssuerOf({20}, {}), IssuerOf({3, 6}, {"bank"}), IssuerOf({}, {"systemic", "bank", "gas"}), IssuerOf({}, {"gas"}),
   IssuerOf({}, {"federal"}), IssuerOf({}, {"gold"}), IssuerOf({}, {})}
PaperOf(q, issuer, source, rest) ==
  [price |-> q.price, coupon |-> q.coupon, life |-> q.life, semi |-> q.semi, own |-> q.own, discount |-> q.discount,
   issuer |-> issuer, source |-> source, currency |-> rest[1], metal |-> rest[1] = "XAU", named |-> "none",
   market |-> rest[2], status |-> rest[3]]
SomePapers ==
  {PaperOf(q, i, y, r) : q \in Quotes, i \in Issuers, y \in {Absent, -5, 12, 45, 120},
     r \in {<<"BYN", "bcse", "active">>, <<"RUB", "moex", "suspended">>, <<"XAU", "bcse", "active">>,
            <<"USD", "bcse", "delisted">>}}
Pasts == {<< >>, <<1, 2, 3>>, <<4, 4, 4, 4, 4>>, <<2, 3, 4, 5, 6>>, <<0, 1, 1, 1, 1, 9>>, <<3, 9, 27>>}
ReportOf(debt, assets, equity, income, revenue, current, due) ==
  [debt |-> debt, assets |-> assets, equity |-> equity, income |-> income, revenue |-> revenue,
   current |-> current, due |-> due]
SomeReports ==
  {ReportOf(1, 10, 8, 3, 10, 5, 2), ReportOf(9, 10, 1, -3, 10, 1, 2), ReportOf(Absent, 10, Absent, 1, 20, 3, 3)}

\* Three MOEX bonds, of which one is no bond to the client, and stocks on one
\* board or two.
MoexBonds == {"x", "y", "z"}
MoexUnits == "x" :> "SUR" @@ "y" :> "CNY" @@ "z" :> "GBP"
MoexBoards == <<"TQCB", "TQOB">>
MoexListing == "x" :> {"TQCB", "TQOB"} @@ "y" :> {"TQOB"} @@ "z" :> {"TQCB"}
MoexImplied == 90 :> 15 @@ 100 :> 8 @@ 105 :> 0 @@ 112 :> -5
Told(price, yield, percent, period) ==
  [price |-> price, yield |-> yield, percent |-> percent, amount |-> 40, period |-> period]
MoexQuotes ==
  {Told(90, 20, 10, 182), Told(112, -26, 10, 182), Told(100, 137, NotTold, 91), Told(112, 60, 10, 61),
   Told(NotTold, NotTold, NotTold, NotTold), Told(112, NotTold, NotTold, NotTold), Told(105, 0, 10, 182)}
YuanOnly == <<"CNY">>
StockBoards == <<"TQBR", "TQOD", "TQDE">>
StockListing == "s" :> {"TQBR"} @@ "t" :> {"TQBR", "TQOD"} @@ "u" :> {"TQDE"}

\* Issues of half-years and quarters, of a day that months lack, with a short
\* last period, of an odd frequency; and books of two currencies.
On(month, day) == [month |-> month, day |-> day]
IssueOf(from, to, freq) == [issue |-> from, maturity |-> to, freq |-> freq, rate |-> 12]
SomeIssues ==
  {IssueOf(On(3, 15), On(27, 15), f) : f \in {1, 2, 4, 3}}
    \cup {IssueOf(On(1, 31), On(13, 31), 12), IssueOf(On(12, 31), On(36, 31), 4), IssueOf(On(2, 10), On(12, 25), 4)}
SomeDates == {On(2, 1), On(3, 15), On(4, 3), On(9, 14), On(9, 15), On(9, 16), On(14, 28), On(26, 30), On(27, 15)}
DeskBond(currency, left, rate, coupon, price) ==
  [currency |-> currency, eligible |-> rate < 300, left |-> left, rate |-> rate, coupon |-> coupon, price |-> price,
   priced |-> rate # 0, government |-> currency = "BYN" /\ left = 8, issuer |-> IF left = 8 THEN "state" ELSE "bank"]
SomeBooks ==
  {<<DeskBond("BYN", 8, 100, 10, 100), DeskBond("BYN", 7, 140, 12, 95), DeskBond("BYN", 8, 110, 10, 99),
     DeskBond("BYN", 2, 90, 11, 101), DeskBond("BYN", 20, 120, 12, 130), DeskBond("USD", 8, 40, 4, 100),
     DeskBond("BYN", 4, 500, 10, 50), DeskBond("RUB", 0, 120, 12, 100)>>,
   <<DeskBond("USD", 2, 60, 5, 99), DeskBond("USD", 1, 20, 5, 101), DeskBond("USD", 2, 50, 0, 94),
     DeskBond("USD", 24, 30, 3, 90), DeskBond("EUR", 12, 0, 0, 80), DeskBond("USD", 16, 100, 8, 105)>>}
YieldSteps == {30}

\* Bonds of a page and two editions of the workbooks: 5 is mistaken for 51,
\* 30 and the indexed 17 for nothing else.
BookIssues == {"five", "fiftyone", "thirty", "op"}
BookIds == "five" :> 5 @@ "fiftyone" :> 51 @@ "thirty" :> 30 @@ "op" :> 17
TimesAYear == "five" :> 2 @@ "fiftyone" :> 1 @@ "thirty" :> 4 @@ "op" :> 12
NamesInCode == [b \in BookIssues |-> IF b = "op" THEN [op |-> TRUE, number |-> 17] ELSE NoName]

Section(kind, rate, n, unit) == [kind |-> kind, rate |-> rate, per |-> <<unit, n>>]
BlockOf(b, code, shown, sections) ==
  [of |-> b, id |-> BookIds[b], code |-> code, told |-> TRUE, shown |-> shown, sections |-> sections]
DataOf(b, coupon, freq, code) == [id |-> BookIds[b], of |-> b, coupon |-> coupon, freq |-> freq, code |-> code]
SomePages ==
  {[blocks |-> <<BlockOf("fiftyone", 62, 7, << >>), BlockOf("five", 8, -1, <<Section("main", 9, 2, "year")>>),
                 BlockOf("thirty", 44, -1, <<Section("schedule", -1, 0, "none"), Section("main", 12, 1, "quarter")>>)>>,
    data |-> << >>, links |-> {}],
   [blocks |-> << >>, data |-> <<DataOf("thirty", 0, 4, 44), DataOf("op", -1, 12, 71), DataOf("five", 9, 6, 8)>>,
    links |-> {5, 51}],
   [blocks |-> <<[BlockOf("thirty", 44, -1, <<Section("schedule", 13, 3, "months")>>) EXCEPT !.told = FALSE]>>,
    data |-> << >>, links |-> {30, 17}]}

Periods(n, days, amount) == [k \in 1 .. n |-> [start |-> (k - 1) * days, days |-> days, amount |-> amount]]
SheetOf(b, number, periods) == [of |-> b, number |-> number, periods |-> periods]
ColumnOf(b, number, coupon) == [of |-> b, number |-> number, coupon |-> coupon]
Edition(rate, more) ==
  [columns |-> <<ColumnOf("five", 8, 9), ColumnOf("fiftyone", 62, -1), ColumnOf("thirty", 44, rate)>> \o more,
   sheets |-> <<SheetOf("fiftyone", 62, Periods(3, 365, 70)), SheetOf("thirty", 44, Periods(6, 91, 30))>>,
   indexed |-> <<ColumnOf("op", 17, 6)>>, opSheets |-> <<SheetOf("op", 17, Periods(13, 30, 5))>>,
   prices |-> {[of |-> "thirty", number |-> 44], [of |-> "fiftyone", number |-> 62]}]
SomeEditions == <<Edition(14, << >>), Edition(15, <<ColumnOf("fiftyone", 8, 3)>>)>>

\* Whoever runs at once in a part is one of the same two.
TaskSymmetry == Permutations(Handlers)

VARIABLE part

analyticsVars == <<account, now, starsVars, modelVars, lesson, figure, basket, rating, marketVars, stockVars, deskVars,
                   bookVars, demo, snapshotVars, newsVars>>

(* A part that is not at work keeps nothing but what its properties look   *)
(* at.                                                                     *)
StarsRest ==
  /\ account = [u \in Users |-> NewAccount] /\ now = 1
  /\ charged = {} /\ chargedBack = {} /\ attempts = 0
  /\ chargeGrants = [c \in Charges |-> 0] /\ attachments = [u \in Users |-> 0]
  /\ earned = 0
  /\ handler = [h \in Handlers |-> Resting]

\* Of a link to bob and what else may happen to a purchase (a refund, the
\* admin panel), a behaviour has one.
UpsetOrSecondLink ==
  LET came(op, u) == \E m \in Update : m.op = op /\ m.user = u /\ attempts'[m] > 0
  IN  came("refer", alice) => chargedBack' = {} /\ \A u \in Users : ~came("admin", u)

\* Of a reader, an early end and a promotion, a behaviour has one; the reader
\* meets the second training.
ModelsInit ==
  \/ LifecycleInitWith(TRUE, 0, 1, 1)
  \/ LifecycleInitWith(FALSE, 1, 0, 1)
  \/ LifecycleInitWith(FALSE, 1, 1, 0)

ModelsRest ==
  /\ second = 0 /\ files = [k \in Kinds |-> << >>] /\ champion = None
  /\ modelRow = {} /\ forecast = {}
  /\ loaded = [p \in Processes |-> << >>] /\ model = [p \in Processes |-> Idle]
  /\ finished = 0 /\ trainings = 0 /\ reads = 0 /\ trainerDeaths = 0 /\ promotions = 0
  /\ named = {} /\ shared = {} /\ abandoned = {} /\ unannounced = {} /\ passedOver = {}

SamplesRest == lesson = [histories |-> << >>, samples |-> << >>, cut |-> TRUE]
FiguresRest == figure = [kind |-> "none"]
BasketsRest == basket = [market |-> << >>, answer |-> Unanswered]
ScoresRest == rating = [runs |-> 0]
\* Of a board that fails and a quote that moves, a behaviour has one.
MoexInit == \E done \in {<<1, 0>>, <<0, 1>>} : MarketInitWith(done[1], done[2])

MoexRest ==
  /\ quoted = << >> /\ bondRow = [s \in Securities |-> Unstored] /\ belarusian = {}
  /\ bondRun = BondRunRests /\ doubted = {} /\ bondRuns = 0 /\ boardFailures = 0 /\ quoteMoves = 0

DeskRest == desk = [kind |-> "none"] /\ tables = NoTables /\ deskRuns = << >>

WorkbooksRest ==
  /\ sitePage = "none" /\ edition = 0 /\ bookFile = [p \in Scrapers |-> NoBookFile]
  /\ issueRow = [b \in Issued |-> NoIssueRow] /\ accrued = {}
  /\ nameMap = [p \in Scrapers |-> FirstNames] /\ listedIds = [p \in Scrapers |-> {}]
  /\ enriching = [p \in Scrapers |-> NotEnriching] /\ met = {} /\ overwritten = {} /\ turns = 0 /\ bookUpsets = 0

DemoRest == demo = [shelf |-> << >>]

Init ==
  /\ part \in {"stars", "models", "samples", "figures", "baskets", "scores", "moex", "stocks", "desk",
              "workbooks", "demo", "snapshots", "news"}
  /\ IF part = "stars" THEN StarsInit ELSE StarsRest
  /\ IF part = "models" THEN ModelsInit ELSE ModelsRest
  /\ IF part = "samples" THEN LessonInit ELSE SamplesRest
  /\ IF part = "figures" THEN FiguresInit ELSE FiguresRest
  /\ IF part = "baskets" THEN GateInit ELSE BasketsRest
  /\ IF part = "scores" THEN ScoringInit ELSE ScoresRest
  /\ IF part = "moex" THEN MoexInit ELSE MoexRest
  /\ StocksInit
  /\ IF part = "desk" THEN DeskInit ELSE DeskRest
  /\ IF part = "workbooks" THEN WorkbooksInit ELSE WorkbooksRest
  /\ IF part = "demo" THEN DemoInit ELSE DemoRest
  /\ SnapshotInit /\ NewsInit

RestStays ==
  /\ UNCHANGED part
  /\ IF part = "stars" THEN TRUE ELSE UNCHANGED <<account, now, starsVars>>
  /\ IF part = "models" THEN TRUE ELSE UNCHANGED modelVars
  /\ IF part = "samples" THEN TRUE ELSE UNCHANGED lesson
  /\ IF part = "figures" THEN TRUE ELSE UNCHANGED figure
  /\ IF part = "baskets" THEN TRUE ELSE UNCHANGED basket
  /\ IF part = "scores" THEN TRUE ELSE UNCHANGED rating
  /\ IF part = "moex" THEN TRUE ELSE UNCHANGED marketVars
  /\ IF part = "stocks" THEN TRUE ELSE UNCHANGED stockVars
  /\ IF part = "desk" THEN TRUE ELSE UNCHANGED deskVars
  /\ IF part = "workbooks" THEN TRUE ELSE UNCHANGED bookVars
  /\ IF part = "demo" THEN TRUE ELSE UNCHANGED demo
  /\ IF part = "snapshots" THEN TRUE ELSE UNCHANGED snapshotVars
  /\ IF part = "news" THEN TRUE ELSE UNCHANGED newsVars

Next ==
  \/ part = "stars"      /\ (StarsTick \/ StarsStep) /\ UpsetOrSecondLink /\ RestStays
  \/ part = "models"     /\ LifecycleNext /\ RestStays
  \/ part = "samples"    /\ LessonNext /\ RestStays
  \/ part = "figures"    /\ FiguresNext /\ RestStays
  \/ part = "baskets"    /\ GateNext /\ RestStays
  \/ part = "scores"     /\ ScoringNext /\ RestStays
  \/ part = "moex"       /\ MarketNext /\ RestStays
  \/ part = "stocks"     /\ StocksNext /\ RestStays
  \/ part = "desk"       /\ DeskNext /\ RestStays
  \/ part = "workbooks"  /\ WorkbooksNext /\ RestStays
  \/ part = "demo"       /\ DemoNext /\ RestStays
  \/ part = "snapshots"  /\ SnapshotNext /\ RestStays
  \/ part = "news"       /\ NewsNext /\ RestStays

Spec == Init /\ [][Next]_<<part, analyticsVars>>

-----------------------------------------------------------------------------
\* What the portfolio endpoints and the desk compute adds up, the models learn
\* from samples that do not look ahead, the workbooks of the broker are stored
\* with the very bond they are about, and what the pages of the market and of
\* the news show is what is known, computed once.
FiguresSound ==
  /\ part = "figures" => FiguresAddUp
  /\ part = "samples" => SamplesSound
  /\ part = "desk" => DeskHolds
  /\ part = "workbooks" => WorkbooksSound
  /\ part = "demo" => DemoHolds
  /\ part = "snapshots" => SnapshotsHold
  /\ part = "news" => NewsHold
=============================================================================
