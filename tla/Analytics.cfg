SPECIFICATION Spec
CONSTANTS
    c1 = c1
    c2 = c2
    alice = alice
    bob = bob
    NoUser = NoUser
    NoCharge = NoCharge
    Duration = 2
    BonusDays = 1
    ChargeUser <- AllByAlice
    ChargePlan <- FirstEnterprise
    Users = {alice, bob}
    Charges = {c1, c2}
    TrialDays = 1
    ReferralLinks <- EachRefersOther
    AdminTiers = {"free"}
    Handlers = {t1, t2}
    MaxAttempts = 1
    LastDay = 2
    Trainers = {t1, t2}
    Readers = {"api"}
    Keep = 1
    CacheSize = 2
    LastSecond = 2
    MaxTrainings = 2
    MaxReads = 1
    MaxTrainerDeaths = 1
    MaxPromotions = 1
    Horizon = 9
    Tolerance = 2
    CursorStep = 3
    MinSpan = 6
    AvgTolerance = 3
    Histories <- SomeHistories
    Moves <- SomeMoves
    Faces = {1, 2}
    TradePrices = {1, 3}
    MaxTrades = 4
    Studies <- TwoInputs
    RebalanceDays = 2
    TopN = 1
    Baskets <- SmallBaskets
    CouponDays = {15, 28, 31}
    CouponSteps = {1, 3, 6}
    Markets <- SomeMarkets
    Wishes <- FewWishes
    MinPeers = 3
    HigherYields = {22, 30, 50, 120}
    Papers <- SomePapers
    Log <- LogPoints
    Sigmoid <- SigmoidPoints
    PastYields <- Pasts
    Reports <- SomeReports
    Securities <- MoexBonds
    FaceUnit <- MoexUnits
    Boards <- MoexBoards
    TradedOn <- MoexListing
    Structured = {}
    Quoted <- MoexQuotes
    Implied <- MoexImplied
    YieldTolerance = 15
    RunCurrencies <- YuanOnly
    BondCap = 3
    SampleCap = 1
    MaxBondRuns = 2
    MaxBoardFailures = 1
    MaxQuoteMoves = 1
    Shares = {"s", "t", "u"}
    ShareBoards <- StockBoards
    ShareOn <- StockListing
    StaleHours = 1
    CriticalHours = 2
    LastHour = 3
    MaxStockRuns = 2
    Issues <- SomeIssues
    AsOfDates <- SomeDates
    MaxPeriods = 25
    FirstBooks <- SomeBooks
    RateMoves <- YieldSteps
    CurveRate = 110
    Funding = {5, 11}
    Dialects = {"postgresql", "sqlite"}
    LastDeskDay = 2
    MaxMoves = 1
    MaxRuns = 2
    Issued <- BookIssues
    IdNumber <- BookIds
    Yearly <- TimesAYear
    FirstNames <- NamesInCode
    SitePages <- SomePages
    Workbook <- SomeEditions
    Scrapers = {"scheduler", "bot"}
    BookToday = 100
    Face = 1000
    MaxTurns = 4
    MaxBookUpsets = 2
    Shelves <- SomeShelves
    SearchLimit = 1
    Purchases <- SomePurchases
    Visitors = {t1, t2}
    Questions = {"table", "search"}
    Ttl = 2
    MaxBuilds = 3
    MaxBuildFailures = 1
    LastMinute = 2
    Askers = {t1, t2}
    PageLength = 2
    FeedPages = 2
    NewsTtl = 2
    Relevant = {{}, {2, 5}}
    NewsLimit = 2
    FirstItems = {3}
    MaxItems = 5
    LastQuarter = 2
    MaxPageFailures = 1
SYMMETRY TaskSymmetry
INVARIANTS
    NoUnearnedDays
    ModelsSound
    FiguresSound
    BasketsSound
    ScoresHold
    MarketsHold
CHECK_DEADLOCK FALSE
