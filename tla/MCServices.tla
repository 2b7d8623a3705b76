----------------------------- MODULE MCServices -----------------------------
(* Instances of the services around the payments for TLC: a behaviour is   *)
(* one of a single service, the variables of the others keep their values. *)
EXTENDS TLC, StarsPayments, AlertChecks, RequestBudgets, Partners, Monitoring,
        Accounts, BotFront, Holdings, BrowserClient, Integration, FeedQuotes

CONSTANTS c1, c2, alice, bob, carol

AllByAlice == [c \in Charges |-> alice]
FirstEnterprise == [c \in Charges |-> IF c = c1 THEN "enterprise" ELSE "pro"]
BobRefersTwice == {<<bob, alice>>, <<bob, carol>>}

RuleOnFirst == [r \in Rules |-> CHOOSE i \in Instruments : TRUE]
FirstAbove == [r \in Rules |-> r = "r1"]
ThresholdOne == [r \in Rules |-> 1]
FreeOnePaidTwo == [t \in CallerTiers |-> IF t = "free" THEN 1 ELSE 2]
OneOrBoth == {[x \in HeldPapers |-> IF x = "p" THEN 4 ELSE 0], [x \in HeldPapers |-> 2]}
MapTargetsMatch == [i \in BondIds |-> IF i \in MapTargets THEN "match" ELSE "absent"]
LowerA == [e \in Emails |-> IF e = "A" THEN "a" ELSE e]

FeedCurrency == [b \in FeedBonds |-> IF b \in MinfinBonds THEN "BYN" ELSE "USD"]
SiteAnswer(price, bid, nominal, yield, coupon, freq) ==
  [price |-> price, bid |-> bid, ask |-> bid, nominal |-> nominal, yield |-> yield, coupon |-> coupon,
   freq |-> freq, live |-> TRUE, metal |-> coupon = 0 /\ yield = 12]
SiteAnswers == [b \in FeedBonds |->
  IF b \in MinfinBonds
  THEN {SiteAnswer(1001, NoFigure, 100, 12, 0, 2), SiteAnswer(990, 300, 1000, 12, 8, 4)}
  ELSE {SiteAnswer(2000, 1980, 1000, 8, 8, 2), SiteAnswer(NoFigure, 3000, 1000, 150, NoFigure, NoFigure),
        SiteAnswer(60, 2000, NoFigure, 130, 8, 3)}]
SolverYields == [c \in {0, 8} |-> [p \in 1 .. 3000 |-> c + ((100 - p) \div 3)]]

\* Whoever runs at once in a service is one of the same two.
TaskSymmetry == Permutations(Checkers)

VARIABLE part

serviceVars == <<account, now, starsVars, alertVars, budgetVars, partnerVars,
                 monitoringVars, accountVars, frontVars, holdingVars, browserVars, integrationVars,
                 feedVars>>

(* Of two upsets the bounds allow, a behaviour of these has one; yields    *)
(* were low the day before.                                                *)
MonitoringPart ==
  \E done \in {<<1, 0>>, <<0, 1>>} :
    MonitoringInitWith(done[1], done[2]) /\ \A b \in Papers : snapshot[b].before = 1
AccountsPart == \E done \in {<<2, 0>>, <<0, 1>>} : AccountsInitWith(done[1], done[2])
BotPart == \E done \in {<<1, 0>>, <<0, 1>>} : BotFrontInitWith(done[1], done[2])

(* A service that is not the one at work keeps nothing but what its        *)
(* properties look at.                                                     *)
StarsRest ==
  /\ account = [u \in Users |-> NewAccount] /\ now = 1
  /\ charged = {} /\ chargedBack = {} /\ attempts = 0
  /\ chargeGrants = [c \in Charges |-> 0]
  /\ attachments = [u \in Users |-> 0] /\ earned = 0 /\ handler = 0

AlertsRest ==
  /\ clock = 0 /\ quote = 0 /\ rules = 0 /\ gone = {} /\ events = {} /\ checks = 0 /\ errors = 0
  /\ checker = [c \in Checkers |-> [listed |-> {}]]
  /\ messages = {} /\ overlaps = 0 /\ broken = 0

BudgetsRest ==
  /\ limiter = 0 /\ tick = 0 /\ hits = 0 /\ counter = 0 /\ forgotten = 0
  /\ requests = << >>

PartnersRest ==
  /\ keyRow = 0 /\ hookRow = [h \in Hooks |-> [state |-> "unused"]]
  /\ partnerCall = 0 /\ delivery = << >> /\ emitted = 0
  /\ received = {} /\ answered = {} /\ recorded = 0 /\ earlier = 0 /\ apiStops = 0

MonitoringRest ==
  /\ hour = 0 /\ paper = 0 /\ snapshot = 0 /\ rate = 0 /\ alerts = {} /\ monitor = 0
  /\ monitorRuns = 0 /\ refreshes = 0 /\ detectorErrors = 0
  /\ published = {} /\ together = 0 /\ undone = 0 /\ reported = {}

AccountsRest ==
  /\ user = [e \in Emails |-> NoUserRow] /\ visitor = 0 /\ tokens = 0
  /\ mailed = 0 /\ toggles = 0 /\ resets = {} /\ visits = 0 /\ meetings = 0
  /\ entries = {} /\ stored = 0

BotRest ==
  /\ pendingEdit = 0 /\ pendingPosition = 0 /\ isPro = 0 /\ lapses = 0
  /\ prefsRow = [i \in ChatIds |-> DefaultPrefs] /\ expectedRow = prefsRow
  /\ positionRow = [i \in ChatIds |-> {}] /\ botAccount = 0
  /\ botTask = [t \in BotTasks |-> BotRests] /\ parseLock = "free" /\ bondsLoaded = 0
  /\ prompts = << >> /\ writes = << >> /\ rowOverlapped = {} /\ changes = 0

HoldingsRest ==
  /\ amount = [p \in HeldPapers |-> 0] /\ booked = FALSE /\ touched = {} /\ holdingCall = 0 /\ holdingCalls = 0
  /\ holdingDay = 0 /\ dayValue = 0 /\ plans = {} /\ shared = {} /\ asked = {}

BrowserRest ==
  /\ client = 0 /\ launches = 0 /\ live = 0 /\ fetcher = [f \in Fetchers |-> NoFetch] /\ pages = {}
  /\ futures = << >> /\ cached = 0 /\ cacheLock = {} /\ fetches = 0 /\ crashes = 0
  /\ badLaunches = 1 /\ restartsMet = TRUE /\ failedStarts = 1 /\ disturbed = {} /\ orphaned = FALSE

IntegrationAtWork == part = "listing" \/ part = "mapping" \/ part = "signals"

\* Clients post alerts with the map empty, or after an upsert.
SignalsInit ==
  /\ bond = MapTargetsMatch /\ walk = NewWalk /\ scrapes = 0
  /\ post = [c \in Posters |-> NoPost] /\ signals = << >> /\ posts = 0
  /\ \E target \in {NoBond} \cup MapTargets :
       /\ versions = IF target = NoBond THEN << >> ELSE <<[target |-> target, open |-> TRUE]>>
       /\ told = target
  /\ mapper = [m \in Mappers |-> NoUpsert] /\ upserts = 0 /\ mixed = FALSE
  /\ sso = [published |-> 1, asked |-> FALSE, loaded |-> {}]

IntegrationRest ==
  /\ bond = [i \in BondIds |-> "absent"] /\ walk = NewWalk /\ scrapes = 0
  /\ post = 0 /\ signals = << >> /\ posts = 0
  /\ versions = << >> /\ mapper = 0 /\ told = NoBond /\ upserts = 0 /\ mixed = FALSE /\ sso = 0

FeedRest ==
  /\ feed = 0 /\ bankRate = 0 /\ fxTable = 0 /\ fxCache = 0 /\ detail = 0 /\ era = 0 /\ guessed = {}
  /\ feedRow = [b \in FeedBonds |-> NoFeedRow]
  /\ origin = [b \in FeedBonds |-> [f \in Figures |-> NoOrigin]]
  /\ details = 0 /\ upsets = 0

Init ==
  /\ part \in {"stars", "alerts", "budgets", "partners", "monitoring", "accounts",
               "bot", "holdings", "browser", "listing", "mapping", "signals", "feed"}
  /\ IF part = "stars" THEN StarsInit ELSE StarsRest
  /\ IF part = "alerts" THEN AlertInit ELSE AlertsRest
  /\ IF part = "budgets" THEN BudgetInit ELSE BudgetsRest
  /\ IF part = "partners" THEN PartnersInit ELSE PartnersRest
  /\ IF part = "monitoring" THEN MonitoringPart ELSE MonitoringRest
  /\ IF part = "accounts" THEN AccountsPart ELSE AccountsRest
  /\ IF part = "bot" THEN BotPart ELSE BotRest
  /\ IF part = "holdings" THEN HoldingsInit ELSE HoldingsRest
  /\ IF part = "browser" THEN BrowserInit ELSE BrowserRest
  /\ IF IntegrationAtWork
     THEN IF part = "signals" THEN SignalsInit
          ELSE IntegrationInit /\ (part = "mapping" => bond = MapTargetsMatch)
     ELSE IntegrationRest
  /\ IF part = "feed" THEN FeedInit /\ bankRate = 2 ELSE FeedRest

RestStays ==
  /\ UNCHANGED part
  /\ IF part = "stars" THEN TRUE ELSE UNCHANGED <<account, now, starsVars>>
  /\ IF part = "alerts" THEN TRUE ELSE UNCHANGED alertVars
  /\ IF part = "budgets" THEN TRUE ELSE UNCHANGED budgetVars
  /\ IF part = "partners" THEN TRUE ELSE UNCHANGED partnerVars
  /\ IF part = "monitoring" THEN TRUE ELSE UNCHANGED monitoringVars
  /\ IF part = "accounts" THEN TRUE ELSE UNCHANGED accountVars
  /\ IF part = "bot" THEN TRUE ELSE UNCHANGED frontVars
  /\ IF part = "holdings" THEN TRUE ELSE UNCHANGED holdingVars
  /\ IF part = "browser" THEN TRUE ELSE UNCHANGED browserVars
  /\ IF IntegrationAtWork THEN TRUE ELSE UNCHANGED integrationVars
  /\ IF part = "feed" THEN TRUE ELSE UNCHANGED feedVars

\* Deals and the second day concern the snapshots, not the plans: a behaviour
\* has those or these.
SnapshotsOrPlans == booked' \/ holdingDay' > 0 => plans' = {} /\ Planning' = {}

Next ==
  \/ part = "stars"      /\ (StarsTick \/ StarsStep) /\ RestStays
  \/ part = "alerts"     /\ AlertNext /\ RestStays
  \/ part = "budgets"    /\ BudgetNext /\ RestStays
  \/ part = "partners"   /\ PartnersNext /\ RestStays
  \/ part = "monitoring" /\ MonitoringNext /\ RestStays
  \/ part = "accounts"   /\ AccountsNext /\ RestStays
  \/ part = "bot"        /\ BotFrontNext /\ RestStays
  \/ part = "holdings"   /\ HoldingsNext /\ SnapshotsOrPlans /\ RestStays
  \/ part = "browser"    /\ BrowserNext /\ RestStays
  \/ part = "listing"    /\ ListingNext /\ RestStays
  \/ part = "mapping"    /\ MappingNext /\ RestStays
  \/ part = "signals"    /\ (SignalsNext \/ SsoStep) /\ RestStays
  \/ part = "feed"       /\ FeedNext /\ RestStays

Spec == Init /\ [][Next]_<<part, serviceVars>>
=============================================================================
