SPECIFICATION Spec
CONSTANTS
    c1 = c1
    c2 = c2
    alice = alice
    bob = bob
    carol = carol
    NoUser = NoUser
    NoCharge = NoCharge
    Duration = 2
    BonusDays = 1
    ChargeUser <- AllByAlice
    ChargePlan <- FirstEnterprise
    Users = {alice, bob, carol}
    Charges = {c1, c2}
    TrialDays = 1
    ReferralLinks <- BobRefersTwice
    AdminTiers = {}
    Handlers = {h1}
    MaxAttempts = 2
    LastDay = 1
    Rules = {"r1", "r2"}
    Instruments = {"i"}
    Checkers = {t1, t2}
    RuleOn <- RuleOnFirst
    Above <- FirstAbove
    Threshold <- ThresholdOne
    Quotes = {1}
    NoQuote = NoQuote
    Window = 0
    MaxClock = 1
    MaxChecks = 2
    MaxErrors = 1
    Callers = {t1, t2}
    CallerTiers = {"free", "pro"}
    LimitOf <- FreeOnePaidTwo
    RateWindow = 2
    LoginLimit = 2
    MaxTracked = 1
    LastTick = 2
    MaxRequests = 4
    PartnerKeys = {t1, t2}
    Hooks = {"h"}
    EventTypes = {"bond.updated"}
    TestEvent = "bond.updated"
    PartnerCalls = {"c"}
    MaxEmits = 2
    MaxApiStops = 1
    Papers = {"b"}
    Pairs = {"p"}
    Monitors = {t1, t2}
    Levels = {1, 2}
    NoLevel = NoLevel
    DayHours = 1
    StaleHours = 2
    LastHour = 2
    MaxMonitorRuns = 2
    MaxRefreshes = 1
    MaxDetectorErrors = 1
    Emails = {"a", "A", "t"}
    LowerCase <- LowerA
    TelegramEmail = "t"
    GoogleIds = {"g"}
    Visitors = {t1, t2}
    ReferralDays = 1
    FirstTrial = 2
    MaxVisits = 3
    MaxTokens = 2
    MaxToggles = 1
    NoEmail = NoEmail
    TgUsers = {"u"}
    BotId = "bot"
    WatchPapers = {"p"}
    BotTasks = {t1, t2}
    MaxPrompts = 1
    MaxChanges = 2
    MaxLapses = 1
    HeldPapers = {"p", "q"}
    EditAmounts = {1}
    Targets <- OneOrBoth
    Capital = 4
    MinTrade = 2
    DriftPercent = 5
    HoldingCalls = {t1, t2}
    MaxHoldingCalls = 2
    LastHoldingDay = 1
    Fetchers = {t1, t2}
    MaxPages = 1
    MaxFetches = 3
    MaxCrashes = 1
    MaxBadLaunches = 1
    LastBond = 5
    MappedId = 1
    MapTargets = {1, 2}
    BATCH = 2
    BATCHES = 2
    PageLimit = 1
    Posters = {t1, t2}
    PostKeys = {"k"}
    NoKey = NoKey
    Mappers = {t1, t2}
    MaxScrapes = 2
    MaxPosts = 3
    MaxUpserts = 4
    MaxRotations = 1
    FeedBonds = {"m", "d"}
    MinfinBonds = {"m"}
    CurrencyOf <- FeedCurrency
    FeedAnswers <- SiteAnswers
    BankRates = {2, 3}
    ImpliedYield <- SolverYields
    FeedTolerance = 15
    FeedTasks = {t1, t2}
    ScrapeProcs = {"bot"}
    MaxDetails = 2
    MaxUpsets = 2
SYMMETRY TaskSymmetry
INVARIANTS
    BudgetsHold
    PartnersServed
    MonitoringOnRecord
    AccountsSound
    BotFrontSound
    HoldingsSound
    IntegrationSound
    ClientRecovers
    QuotesSound
PROPERTIES
    SerialStarsSafe
    AlertsSound
CHECK_DEADLOCK FALSE
