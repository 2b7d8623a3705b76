# Verification of aigenis-bond

TLA+ specifications of aigenis-bond, a bond analytics platform for the
Belarusian and Russian markets: a scraper that fills a PostgreSQL database, a
FastAPI service and a Telegram bot that serve it, two payment channels that
sell access to it, and the analytics in between. TLC checks small instances
of the modules; TLAPS proves the theorems for every value of the constants.

## 1. Inventory

The processes: the API (`uvicorn --workers 2`, `docker-compose.yml:339`, and
replicas, `docs/app/DEPLOYMENT.md:210`), the bot (aiogram, one event loop, each
update a task of its own), the scheduler (APScheduler on one event loop per
instance). They share nothing but PostgreSQL, where every request runs in a
transaction of its own (`session_scope`, READ COMMITTED, no row is read
`FOR UPDATE`). So the hard behaviours are those of coroutines that read rows,
await, and write what they computed from them; of handlers that die between
two commits; and of outside parties (YooKassa, Telegram, the bond sources)
that deliver twice, late, out of order or not at all.

| Component | State | Operations | Talks to | What makes it correct |
|---|---|---|---|---|
| users and entitlement (`telegram_bot/subscriptions.py`, `scraper/orm/users.py`) | a `users` row: tier, expiry, channel, last charge, trial, referrer | grant, revoke, referral bonus, effective tier | both payment channels, the admin panel, the gates of API and bot | what was paid for can be used, what was paid back cannot, nothing is given twice |
| YooKassa webhook (`api/billing`) | `subscriptions`, `billing_payment_events`, `partner_referrals`, per-payment asyncio locks | payment succeeded, canceled, refunded | YooKassa (fetches what a notification claims), `users`, partner payouts | each payment and refund takes effect at most once, and only when YooKassa confirms it; a payment is granted in the end |
| Stars payments and referrals (`telegram_bot/stars_payments.py`, `subscriptions.py`) | the same `users` row | purchase, refund, referral link | Telegram (redelivers updates) | idempotence under redelivery, no days nobody earned |
| scheduler and leadership lock (`scraper/scheduler.py`, `scraper/db.py`, `scraper/job_runs.py`) | asyncio lock per process, advisory lock per database, `job_runs` | fire, lock, work, unlock, record | the pipeline, PostgreSQL sessions | one leader per job, no lock lost, every run accounted for |
| scraping pipeline (`scraper/pipeline.py`) | `bonds`, `bond_history`, progress counters, stale mode | list, details under a semaphore, history backfill, XLSX enrichment, recompute | the Aigenis client, MOEX, scoring | a failing source never erases what is known; a bond that failed is retried; the run reports what it did |
| Aigenis client (`scraper/sources/aigenis/client.py`) | circuit breaker, page cache of futures, session token, FX cache | request with retries, browser fallback, authenticate | the source | a broken source is left alone for the cool-down, requests for a page are shared, one login at a time |
| market data (`scraper/moex*.py`, `fx.py`, `fallback_source.py`, `instrument_map.py`) | none, or a cache | fetch, parse, convert | MOEX, NBRB | units and null values survive the conversion |
| partner API (`api/partner`) | keys, request windows per key, webhook subscriptions and their failure counters | authenticate, rate limit, emit, deliver with retries | partners' servers | no key exceeds its window, an event reaches each subscriber, a dead subscriber is given up |
| authentication (`api/auth`) | users, password hashes, reset tokens, login attempts per address | register, log in, reset password, link Telegram | e-mail | a reset token works once, an e-mail has one account, the attempt window holds |
| alerts (`notifications/alerts_service.py`, `api/notifications`) | `alert_rules`, `alert_events` | check the rules, deliver, remind | Telegram, partners | a rule fires once a day, what was sent was recorded |
| monitoring (`monitoring/engine.py`) | `alerts` with a dedup key | compare with the previous snapshot, classify the source's health | alerts, partners | one alert per change and day, a failing detector does not stop the others |
| portfolio (`portfolio`, `api/portfolio_api.py`) | `portfolio_positions`, `transactions`, `rebalance_history`, `pnl_snapshots` | record, delete, FIFO profit, automatic rebalance, backtest | scoring, bonds | the books balance: invested, realized and lots agree; two writers of a position do not lose money |
| model registry (`ml/registry.py`) | artifact files, champion pointer, an LRU cache per process | save, promote, serve, prune | training, prediction | the champion is served and never pruned |
| scoring, desk, forecast, recommendations | none (pure functions), cached rows | score, price, duration, rank | everything that shows a bond | bounds and monotony of scores, bracketing of yields |
| API front (`api/main.py`, `access_control.py`, `demo.py`) | request windows per client, market cache | limit, gate by tier, cache | everything | a paying user has the paid budget; a cache serves no stale currency |
| bot commands (`telegram_bot/commands.py`, `middleware.py`) | throttle windows, a parse lock, pending edits | throttle, gate, one parse at a time | users, pipeline | payments are never throttled; callbacks are gated like commands |
| market pages and news (`api/demo.py`, `api/news.py`) | a snapshot cache with the futures of the requests under way, a news cache | table, search, card, curves, demo purchase, baskets, news | bonds, scores, MOEX | a table row says what the card says; a page is computed once; an error strands nobody |
| admin panel, SEO pages, widget, frontend | login attempts | set a tier, render | users | the admin's change does not corrupt a window |

## 2. Modules

| Module | Models | Code |
|---|---|---|
| `Entitlement` | the `users` row and every update made to it, as functions from row to row; `WriteBack` is the UPDATE that SQLAlchemy issues | `subscriptions.py`, the row updates of `billing/service.py` |
| `PaymentRegistry` | abstract: a notice takes effect at most once, after its confirmation | what `_mark_payment_processed` promises |
| `Billing` | YooKassa, the webhook handlers as coroutines, the three tables they write | `api/billing/service.py`, `router.py` |
| `StarsPayments` | Telegram, the bot's payment and referral handlers, the admin's tier change | `subscriptions.py`, `stars_payments.py`, `admin/router.py` |
| `PaymentChannels` | `Billing` and `StarsPayments` over one `users` table | both |
| `SchedulerLock` | instances, jobs, the local and the advisory lock, `job_runs` | `scheduler.py`, `db.py`, `job_runs.py` |
| `SourceClient` | calls of the Aigenis client with their retries, and the circuit breaker they share | `sources/aigenis/client.py`, API mode |
| `Pipeline` | a scraping run over that client and the tables it fills; runs that stop and start again | `pipeline.py`, `repositories/bonds.py`, `repositories/history.py`, `scoring/repository.py`, the history job of `scheduler.py` |
| `AlertChecks` | rules of users, two checks at once, events and messages | `notifications/alerts_service.py`, `alerts_repository.py`, `delivery.py` |
| `RequestBudgets` | the four request limiters | `api/main.py`, `auth/router.py`, `partner/security.py`, `seo/partners.py` |
| `Partners` | keys, hooks, events and the deliveries as tasks | `api/partner` |
| `Monitoring` | the detectors over one session, and the dedup of their alerts | `monitoring/engine.py`, `notifications/repository.py` |
| `Accounts` | registration, log-in, Google, Telegram, password reset | `api/auth`, `telegram_bot/subscriptions.py` |
| `BotFront` | middlewares, the two dialogs, the `/parse` lock, the preferences row | `telegram_bot/commands.py`, `settings.py`, `positions.py`, `middleware.py` |
| `Holdings` | positions, the rebalance that writes them back, the daily snapshot | `portfolio/rebalance.py`, `positions_repository.py`, `api/portfolio_api.py` |
| `BrowserClient` | the browser that operations share and restart, the shared page fetch | `sources/aigenis/client.py`, legacy mode |
| `Integration` | cursor paging, idempotent alerts, the versions of the instrument map, SSO keys | `api/aigenis`, `instrument_map.py` |
| `FeedQuotes` | what a feed answer becomes in a row: rates, faces, yields, the merge | `sources/aigenis/client.py`, `fx_repository.py`, `repositories/bonds.py` |
| `Workbooks` | the matching of page blocks and workbook sheets to bonds, the enrichment | `aigenis/parsers`, `pipeline.enrich_from_xlsx` |
| `MarketRuns` | the MOEX bond run beside the Belarusian one, stocks and candles | `scraper/moex*.py`, `pipeline.py`, `api/stocks.py` |
| `Scoring` | the score, its components, what a recomputation stores | `scoring` |
| `PortfolioMath` | FIFO ledger, backtest, coupon dates, split and lots | `portfolio` |
| `PortfolioGate` | the eligibility gate and the four answers behind it | `scoring/eligibility.py`, `api/demo.py`, `recommendations/engine.py` |
| `ModelLifecycle` | artifacts, pointer, caches, trainings, predictions | `ml/registry.py`, `scheduler_v3.py`, `commands_v3.py` |
| `TrainingSamples` | the samples and their split | `ml/features.py`, `ml/engine.py` |
| `DeskMath` | schedules, durations, stress, relative value, carry, repo, spreads, the stored tables | `desk` |
| `DemoMarket` | table, search, card, curve yield, demo purchase | `api/demo.py` |
| `SnapshotCache` | the answers kept and the requests that share one computation | `api/demo.py` |
| `NewsFeed` | the pages of the news and their cache | `api/news.py` |
| `ChannelProofs` | the theorems about `Billing` and its refinement of `PaymentRegistry`, `StarsPayments` and `PaymentChannels` | |
| `SchedulerProofs` | the theorems about `SchedulerLock` and `ModelLifecycle` | |
| `PipelineProofs` | the theorems about `SourceClient` and `Pipeline` | |
| `NotificationProofs` | the theorems about `AlertChecks`, `Partners`, `Integration` and `SnapshotCache` | |
| `RecordProofs` | the theorems about `Holdings`, `BotFront`, `Monitoring`, `BrowserClient` and `FeedQuotes` | |
| `AccessProofs` | the theorems about `RequestBudgets` and `Accounts` | |
| `AnalyticsProofs` | the theorems about `Scoring`, `MarketRuns` and `DemoMarket`, and lemmas on finite sums | |
| `BasketProofs` | the theorems about `PortfolioGate` and `PortfolioMath` | |
| `MCBilling`, `MCChannels`, `MCScheduler`, `MCPipeline` | instances of the core for TLC | |
| `MCServices`, `MCAnalytics` | instances of the smaller parts, one at a time | |

**How state and actions correspond to the code.** A handler coroutine is a
record with a program counter and the rows it has read. Each query the code
awaits is one action (`Billing!ReplayGuard`, `ReadSub`, `ReadAccount`;
`StarsPayments!ReadRow`, `ReadReferrer`), since other coroutines run there;
what happens between two awaits is part of the same action. What the
transaction writes takes effect in the commit (`Commit`, `CommitRow`). Two
details of the stack decide what concurrent handlers do to each other, so both
are modelled:

- SQLAlchemy's UPDATE names only the columns whose value differs from the one
  that was loaded (`Column`, `WriteBack`, `SubWriteBack`). Two overlapping
  writers therefore mix their columns instead of the later one winning.
- autoflush: the query for the `users` row first sends what has been changed
  so far, so a new `subscriptions` row collides with a concurrent one there
  (`Duplicate`), and the row a refund has changed is locked from there to the
  commit (`FlushesSub`, `RowFree`).

The per-payment asyncio lock (`InLock`, `LockFree`) excludes handlers of one
process only; `ProcessOf` says who shares one. Letting every handler be a
process of its own also covers the eviction of idle locks above 10 000 keys.

In `SchedulerLock`, the work ends well (`BodyEnds`) or raises (`BodyRaises`);
the job goes on alike, and `failed` records which it was. Testing and taking the local lock is one action because no
await separates them. `KeyOf` is `_key_for` as each process computes it; the
advisory lock belongs to a session, so it goes when the process stops
(`Stop`), when the session is closed (`Unlock`) and when the database drops it
(`SessionLost`; the session sits idle in a transaction while the job works).

In `Pipeline` a call of the client is a record (`SourceClient!call`): placed,
sent, done with a result, and its attempts go through the breaker one by one
(`Enter`, `Answered`, `Unanswered`). The coroutines per bond are the field
`task` of the run; `Permit` is the semaphore. A listing enters its ids into the
shared map page by page, so a listing that fails late leaves ids behind, as in
the code. `Abort` is a process that stops, or an exception that leaves the run:
committed rows stay, everything in memory is gone. Of a bond the model keeps
what the properties tell apart: status, whether the coupon rate is known, the
run that refreshed it, the days of its history and what its score was computed
from. A bond that leaves the source does not come back, so that a row can be
compared with what the source offers.

The remaining modules follow the same pattern; what decides in each:

- `AlertChecks`, `Monitoring`: a check or a run is one transaction, so what it
  adds is in its own record until the commit, while messages and partner
  events leave at once. The data that detectors compare are levels; the keys
  of alerts are records of what the key's text contains.
- `RequestBudgets`: a decision is one step, made under a lock or in one Redis
  command; the list of hits of a key is the set of its entries, each a time and
  the number of its request. `requests` records what was decided, and the
  property speaks of that record, not of the tables.
- `Partners`: `delivery[<<event, hook>>]` is the task of one delivery; the row
  is read after the post and written at the commit (`LoadRow`, `StoreRow`).
- `Accounts`: a visit is one request; it reads (`Comes`, `ReadInviter`), and
  creates or changes its row at the commit, where UNIQUE may refuse it.
- `BotFront`: filter, middleware and handler of an update are steps of a
  task; the pending dialogs are process memory and go with `BotRestarts`. The
  preferences are rewritten as a whole row, so the model keeps what each
  writer read.
- `Holdings`: a rebalance reads all, then writes absolute amounts. A request for
  the profit ends at once, and leaves the day's snapshot, when there is neither a
  position nor a deal (`ReadNothing`).
- `BrowserClient`: fields of the client (driver, browser, context, session) by
  the number of the start that made them; each await of start, close and
  restart is a step.
- `Integration`: one page is one query (what it found is a set of ids: the query orders by id); `walk` is the client that follows the
  cursors. An upsert of the map reads the open version and then writes.
- `FeedQuotes`: every figure of a row carries its origin (`origin`): the
  answer it was told in and the rate it was converted with.
- `Workbooks`: ids and codes are numbers, and `Within` says in which of them the
  substring tests of the code find another.
- `MarketRuns`: a run is one transaction; its upserts are `PutBond`, its commit
  writes all. The Belarusian source writes between any two steps.
- `PortfolioMath`, `PortfolioGate`, `Scoring`, `TrainingSamples`, `DeskMath`,
  `DemoMarket`: functions of an input that `Init` chooses from a small set;
  an action is one pass of the code's loop, one recomputation or one endpoint.
  Money, percent and points are whole numbers of a unit the module names;
  what solvers, logarithms and matrices compute is given in the input.
- `ModelLifecycle`: an artifact is half written between opening and closing;
  pruning, promoting and reading meet it there. `named` and `shared` record
  which versions were given out, and which to two artifacts.
- `SnapshotCache`, `NewsFeed`: requests that share a future or a cache entry;
  time passes in ticks of a minute or a quarter of an hour.

`MCServices` and `MCAnalytics` put parts that do not interact side by side: the
variable `part` names the one a behaviour is about, `RestStays` keeps the
others still, and the properties of a part hold trivially in the others. Where
two upsets (a failure, a stop, a change of the data) would multiply, a
behaviour has one of them; the `...Part` and `...Init` definitions say which.

Times are whole days in the core; day 0 stands for null. `Duration`, `TrialDays` and
`BonusDays` replace 30, the trial and `REFERRAL_BONUS_DAYS`.

## 3. Runs

Every bound is a CONSTANT named `Max...`, `Last...` or the size of a set.

| Run | Question | Instance |
|---|---|---|
| `BillingConcurrent` | does each notice take effect at most once, and only if confirmed, whatever is redelivered, reordered, overlaps or dies? | 2 handlers in 2 processes, 2 payments of one user for different plans, a full and a partial refund of the first, 2 days, 1 death |
| `BillingSerial` | with one handler at a time, do purchases extend and activate, do the two tables agree, are partial refunds ignored? | 1 handler, 3 payments (one mispriced), 2 refunds, 3 days, 1 death |
| `BillingLive` | is every payment that succeeds granted in the end? | 2 handlers in 1 process, 2 payments, 1 death, fairness |
| `ChannelsSerial` | do purchases through both channels always give what was paid for, and do refunds keep to their channel? | 1 handler of each kind, one at a time, 2 payments with a refund, 2 charges with refunds, 2 days |
| `SchedulerLocks` | one leader per job, no leaked lock, a history that accounts for every run, also one whose work raises, a lock that comes free? | 2 instances, 2 jobs, 3 runs, 1 dropped session, 1 stop, 1 failed call |
| `Services` | does each service keep its promise when two of its tasks overlap, fail or are cut off? | one part at a time, see below |
| `Analytics` | are the figures right that are computed, stored, served and learned from? | one part at a time, see below |
| `ScrapeRuns` | can a failing source, a refused call or a stopped run delist a bond, erase a coupon, leave a hole in a history, or be recorded as ok? does any run get stuck? | 2 bonds in 2 currencies, 2 runs of either kind, 3 days, 2 attempts per call, breaker at 2 failures, 1 permit |

The parts of `Services`, and the property that speaks of each:

| Part | Property | Instance |
|---|---|---|
| stars | `SerialStarsSafe`: a referrer is attached once, and a charge is granted again only after its row has forgotten it, and a window falls only by the refund of its last charge | 1 handler, 2 charges, 2 links, every update delivered twice, 1 day |
| alerts | `AlertsSound`: nobody is told twice by checks that followed each other, no message is without an event unless its check was rolled back, nothing that fired is missed | 2 rules on 1 instrument, 2 checks, 1 error |
| budgets | `BudgetsHold`: nobody is served beyond the budget of his tier, nor refused within it | 2 callers, 2 tiers, 4 requests, each limiter in turn |
| partners | `PartnersServed`: the hook's row tells at any time of the posts that failed, an event reaches whom it should, a revoked key is not served | 2 keys, 1 hook, 2 events, 1 stop |
| monitoring | `MonitoringOnRecord`: one alert per change and day, what was published is stored, what was found is reported | 2 runs, 1 refresh or 1 failing detector |
| accounts | `AccountsSound`: a reset link works once and not after a newer one, an identity has one account, a trial is no longer than its days and bonuses | 2 visitors, 3 addresses of which 2 differ in case, 2 tokens or 1 switch |
| bot | `BotFrontSound`: a prompt is answered at most once, a position answers a prompt opened for the same user as Pro, nothing is stored under the bot's own id, one parse at a time holds the lock, no accepted change is lost but to an overlapping one | 2 tasks, 1 prompt, 2 changes, or 1 change and 1 lapse of the tier |
| holdings | `HoldingsSound`: a plan is made only off target, brings its positions there and overwrites only what came while it was made, the snapshot is that of the day's last request that found a position or a deal | 2 papers, 2 calls; a behaviour has plans, or deals and a second day |
| browser | `ClientRecovers`: once nobody restarts and no start raised, the client is started with a live context and session; what is left behind, and who raises, tells of restarts that met or of failures | 2 operations, 1 crash, 1 failed launch |
| listing, mapping, signals | `IntegrationSound`: paging misses nothing that stayed, retries add nothing, the map follows its upserts | 5 bonds, batches of 2, 2 writers |
| feed | `QuotesSound`: every figure of a row was told by the source and converted at one rate | 1 roubles bond of the state, 1 dollar bond, 2 rates, 2 fetches |

The parts of `Analytics`:

| Part | Property | Instance |
|---|---|---|
| stars | `NoUnearnedDays`: overlapping handlers create no day beyond those of the purchases granted and the referrals attached (`earned`) | 2 handlers, 2 charges, 2 users who follow each other's link (both bonuses meet on one trial), or one of the links with refunds and the admin, 2 days |
| models | `ModelsSound`: half a model is on disk only while it is written, after an early end or where versions met, a trained kind keeps a model (unless a file was pruned while it was written, its writer died or versions met) and the champion its file, a forecast names the models that made it, the status shows the model served | 2 trainings in 2 seconds, 1 artifact kept, a reader, an early end or a promotion |
| samples | `SamplesSound`: answers are later than their questions and the nearest there are, the splits follow time, the regressor and the classifier decide alike | 2 bonds, histories of 2 to 8 rows |
| figures | `FiguresAddUp`: the ledger equals a sale face by face, the backtest ignores later rows, a basket spends what it has, coupon dates keep their distance | 4 trades, 3 days of 2 bonds, 3 bonds per basket |
| baskets | `BasketsSound`: a higher yield never lets a bond in, how far another bond lies out decides nothing about it, and every bond of the pool is bought, reported or explained | 4 bonds, or 5 where an outlier moves, all four answers |
| scores | `ScoresHold`: recomputations settle, the explanation accounts for the score, distress stays off the list, the safety shown follows the credit given | 12 quotes, 10 issuers, 3 recomputations |
| moex, stocks | `MarketsHold`: a scored yield is what its price implies, where it implies one, a run raises only when overtaken by the other source, no ISIN is stored twice, a board shown as fresh answered in time | 3 bonds on 2 boards, 3 stocks, 2 runs, a failing board or a moving quote |
| workbooks | `WorkbooksSound`: a bond that cannot be mistaken gets its own figures, and only missing ones are filled | 3 pages, 2 editions, 2 enrichments at once |
| desk | `DeskHolds`: schedules, key rates, stress, carry and spreads add up and agree, tables hold the last computation | 2 books of 6 to 8 bonds, both dialects |
| demo | `DemoHolds`: table, search, card and curve tell one story, but for a yield that was stored as 0 and wiped | 2 bonds, 8 stories |
| snapshots | `SnapshotsHold`: one computation of a page at a time, no answer older than its time to live, a failure is not kept, whoever waits waits for a computation under way | 2 requests, 2 questions, 1 failure |
| news | `NewsHold`: nothing doubled, nothing skipped but for news that came in between, newest first, answers within their time | 2 requests, 5 items on 2 pages, 1 failed page |

`FiguresSound` gathers the properties of the figures, samples, workbooks, desk,
demo, snapshots and news. `MarketsHold` leaves out a price from which no yield is
solved, or a yield of 0: the code's `ytm_val or existing` then keeps the yield of
an earlier price. The instance has such a price.

The bounds suffice for what the properties tell apart. Every action touches
one user, so one user (two or three with referrals) shows every interaction on
a row. Two handlers show every pairwise interleaving, and both meet the rows a
previous purchase left, since a handler is reused. Two payments with two
refunds give a repeat purchase, a superseded one, and refunds before, between
and after. Two plans tell a mixed row from a consistent one. Two days tell an
expired window from an open one with `Duration = 2`; the third day of
`BillingSerial` lets a window lapse between two purchases. Two runs show every
way a run meets what an earlier one left, two currencies the shared id map, and
days 1 and 3 a night without a run. With two attempts per call and a breaker
that opens at two failures, a call opens it alone, two listings open it
together, and a call can fail without opening it.

Four runs show a disagreement between the code and what its comments, tests
or docs say; each is a finding in `PROJECT.json`:

| Run | What happens |
|---|---|
| `BillingRefundFirst` | a refund handled before its payment leaves no mark, and the refunded payment then grants access |
| `ChannelsStarsDays` | a YooKassa purchase takes over a window paid in Stars, and its refund revokes those days too; no overlap is needed |
| `SchedulerSalted` | the lock's key comes from `hash(name)`, which Python salts in each process: two instances lock different keys and both lead |
| `ScrapeHistoryJob` | the nightly history job opens a client of its own, whose id map is empty: in API mode every bond is "not found" and nothing is refreshed |

**Other departures seen while modelling.** They are consequences of the same
mechanisms and follow from small changes of the configurations; they have no
run of their own.

- A purchase that overlaps a refund of the previous payment assigns the tier it
  read; the UPDATE leaves it out, and the user has paid for the free tier.
- A Stars refund that overlaps a purchase and the admin clears the expiry but
  not the tier: a paid tier that never lapses (two handlers, two charges, the admin).
- `collect_listing` gathers its exceptions and never raises. When every listing
  fails, the run goes on without bonds and is recorded as "ok"; the stale mode
  with the fallback source, which the comment at `pipeline.py:791` describes, is
  entered only by the test that replaces `collect_listing`.
- The bot's `/parse` runs the pipeline without the leadership lock
  (`fx.py:140`), so its read-merge-write upserts can meet a scheduled run's:
  `FeedQuotes` and `Workbooks` let two processes write at once.
- A late success closes a breaker that other calls have opened, and any number
  of calls may probe a half-open one.
- Two overlapping repeat purchases compute their expiry from the same row and
  one purchase's days are lost (`PurchaseExtends` with two handlers and three
  payments).
- The same overlap can store one purchase's payment id with the other's plan;
  a partial refund is then priced against the wrong plan and revokes
  (`PartialRefundIgnored`, two handlers, three payments, a refund of the
  second).
- A handler that dies between the commit of the grant and the payout row loses
  the payout for good: the redelivery stops at the replay guard.
  `PayoutsLostOnlyToDeaths` bounds the loss.
- A full refund of a payment that a later purchase superseded finds no row and
  has no effect, since only the latest payment id is stored.
- A Stars charge delivered again after another charge, or after its refund, is
  granted again: only the last charge is remembered, although
  `subscriptions.py:203-206` and `stars_payments.py:9-10` call the grant
  idempotent. `SerialStarsSafe` allows this one way (`ChargeForgotten`) and no other.
- Two referral links followed at once are both rewarded (`AttachedOnce` with
  two handlers). With four or more, a slow commit can put a trial's end back
  to what it read plus one bonus, and a later one can move it into the future
  again after it has passed.
- A Stars refund that read the row before a YooKassa purchase committed clears
  that purchase's window (`RefundRespectsChannel` with `OneAtATime = FALSE`).
- A Stars purchase over a YooKassa window that is not longer takes over the
  channel, and its refund revokes days paid through YooKassa; over a longer one
  it adds no day.
- The locking jobs swallow their exceptions and return "ok"
  (`scheduler.py:141-147,185-189`): a job that failed is recorded as ok, although
  `job_runs.py:3-6` and `orm/jobs.py:3-7` promise failed rows with an error. The
  model has both ends of the work (`BodyEnds`, `BodyRaises`), and
  `HistoryAccounts` says only that a closed row tells whether the run came back from it.

Of the smaller parts, likewise seen while modelling; the properties either
exclude these cases by name or speak of what remains true:

*Alerts, monitoring, partners.*
- Overlapping checks notify twice, although `alerts_service.py:5-7` promises
  one event a day and rule; messages and partner events leave before the commit,
  so a check that fails later has told what it did not record.
- The text of a staleness issue contains hours, so its key changes with every
  run (`engine.py:392-394`) and the dedup never holds it; status alerts repeat
  every 24 hours. `run_all` and the source health have no caller.
- Revoking a key leaves its webhooks delivering; `/events/test` reaches the
  hooks of other partners; a host that does not resolve to a public address
  leaves no `last_error` (`webhooks.py:154-156` returns first; `webhooks.py:8`:
  "failures are recorded on the webhook row"), nor does a delivery that a restart
  cuts off. `PartnersServed` speaks of the deliveries that were posted. Nothing
  promises the order in which a partner sees the events.
- The log-in and partner tables are cleared as a whole when they track too many
  keys, so a spent budget is forgotten; Redis counts refused requests; the
  header `X-API-Rate-Limit` names other limits than the ones enforced.

*Accounts and bot.*
- Google log-in asks neither for `is_active` nor lowers the address; a reset that
  overlaps a newer request clears the newer token, and two overlapping resets
  with one token both pass.
- `handler_state.py` says the dialogs never collide, but a reply always goes to
  the settings dialog first and `/cancel` cancels only that. The second of two
  quick replies raises KeyError.
- `cb_generic` and `menu:settings` read for the bot's own id, since
  `callback.message.from_user` is the bot; they store nothing under it. `/set strategy X` with an X outside
  the Literal stores a row that cannot be read again.
- The bot keys preferences by the Telegram id, the site by `users.id`; whole-row
  upserts lose overlapping changes.

*Positions and portfolios.*
- A rebalance writes absolute amounts, so a position removed meanwhile comes
  back (`HoldingsSound` says when, it does not exclude it); recording a transaction does not change positions; `list_transactions`
  takes the newest 1000 and drops the oldest purchases from the profit.
- A request that spans midnight stores yesterday's reading under today; of two
  concurrent first snapshots the second fails on UNIQUE. Totals ignore
  currencies in `maybe_auto_rebalance` and not in `/portfolio/plan`.
- The backtest looks ahead where rows lack a yield, although its docstring
  (`backtest.py:6-8`) denies it; overselling is silently ignored by the FIFO
  ledger; dates of coupons walked back lose days past the 28th.
- `rank_bonds` passes the gate again and what it drops then is in no
  `excluded`; early answers leave `excluded` out; recommendations for an issuer
  do not pass the gate. Custom portfolios compare with the whole market, the
  strategy portfolio with its own pool. A bond held twice in a
  request counts with its last amount.
- `eligibility.py:64-66` says that one bond at 1545 % does not inflate the spread.
  The row counts among the peers of the others all the same, and a yield that
  rises can push another bond out: of peers 10, 10, 10, 11 and 50, where the
  median distance is 0, the 50 is in; when the 11 rises, the distance becomes
  positive and the 50 goes out. Where the median distance is 0 the standard
  deviation decides, and an outlier among few peers inflates it and hides.

*Sources.*
- Overlapping browser restarts can leave a browser nobody closes, and the
  context of one with the browser of the other; the status check of a fetch is
  outside `_retrying`, so 429 and 5xx are neither retried nor counted by the
  breaker; `fetch_history` restarts the browser in API mode too.
- The rates in the process are never refreshed, although they are commented as
  daily; two answers that overlap a lookup can mix rates in one row. A coupon
  of 0 counts as a zero coupon in one check and as undisclosed in another; a
  merge keeps the old yield beside a new price.
- `parse_detail_html` and the workbook match by substring: OP-5 may take
  OP-51's block; the column commented as "not the coupon" is stored as the
  coupon; a 366-day window counts one coupon too many; a frequency of 12 is
  read as 2, and 3 and 6 are refused by the model of a bond; a download that
  broke off is kept for ever.
- `bonds.isin` is UNIQUE and the MOEX run first: the upsert of the Belarusian
  bond then fails, contrary to the comment at `pipeline.py:430` that its
  version has priority. A row inserted between check and flush raises out of
  the MOEX run. Yields stored negative on purpose are wiped by the next
  recomputation. The error budget of the stocks only logs
  (`pipeline.py:710-712`); an unlisted stock's candles are asked of TQBR.
- Integration API: a failed load of the SSO keys is cached; `list_bonds` raises
  IndexError on an empty page after full batches; the idempotency key has no
  UNIQUE and is shared by all clients; an upsert of the map without a version
  leaves the previous one open.

*Scores, desk, models, market pages.*
- A yield that a recomputation finds implausible is wiped, and the next one
  solves it anew. Between the two, a bond stored with a yield of 0, as BCSE and
  MOEX rows are (`demo.py:1248`), shows another score in the table than on its
  card, contrary to the comment at `scoring/repository.py:137`; `DemoHolds`
  excepts it (`Wiped`), and without the exception `Analytics` is violated.
- The comment on distress (`engine.py:554-555`) says a price below 80 and a
  yield above 30 where the code tests 70 and 40; `top_scores` drops cheap bonds
  without yield; the discount for bad data raises a negative score.
- Row converters drop `is_government`, so the stress tests of API, bot and CLI
  shock the spread of the state (`stress.py:105-107` excludes it). An issue of a
  31st can have one coupon too many. The "slope" of a curve is its range; on
  PostgreSQL points stay that SQLite deletes.
- `promote_champion` has no caller, although `registry.py:1-18` describes it;
  an artifact is written in place; two trainings of one second overwrite each
  other; a failed prediction skips the pruning.
- `features.py:262-264`: a row may be up to 20 days, a peer average 30 days after
  the date it stands for; training and test are not separated by a gap.
- Table and card of a bond differ between a quote's move and the next scoring;
  the table's rescoring leaves the indexation out; without a yield their
  durations differ; a search cuts before it filters prices; the curve keeps a
  stale positive yield. The concentration after a demo purchase is not diluted
  by it.
- The caches of the market pages are never evicted. A question for news that
  consists of stop words filters nothing; one failed page empties the answer.


## 4. Fairness

- `BillingLive`: weak fairness of each step of a handler (the event loop runs
  what can run, queries return), strong fairness of taking the asyncio lock
  (its waiters form a queue). Strong fairness of receiving a notification that
  has not been acknowledged and of fetching it successfully: YooKassa repeats
  a notification until it sees a 200 and answers in the end. A handler may
  still die (`Fail` is not fair and bounded).
- `SchedulerLocks`: weak fairness of a run's next step: its coroutine is
  scheduled and its work ends. Nothing is assumed of triggers, stops and lost
  sessions.

The other runs check safety only and assume no fairness: the processes may
stop at any point, and what must then still hold is the point of the
properties.

## 5. Proofs

Each theorem holds for any users, payments, bonds, jobs, instances, handlers,
requests and bounds, from the assumptions its module's constants carry: they
have the right types, the artifacts kept, the entries of a cache and the
lifetime of an answer are at least one, a payment is not a refund, a currency
is not a bond, a bond of the state is in roubles, `Referred` is a set of
payments, no task of the bot is the lock's own word `"free"`, and sets that are
counted are finite. In the analytics the rows, wishes and reports have the types of
what the code is given, prices are whole, a wish for fixed lots has as many amounts
as bonds, and the tables of logarithms and sigmoids lie in their range; of the yields that the
solver finds nothing is assumed. Hypotheses of another kind stand in the theorems that need
them:

- `OneHandler` (`OneBotHandler` for the bot): the handlers are served one after
  the other. The serial properties are false without it, as section 3 says.
- `OneAtATime`: the same over both channels, for their composition.
- `Prompt`: no handler takes, from reading the clock to its commit, as long as
  the window it grants (30 days). It is a condition on states (`[]Prompt`), not
  an action the code takes; `ChannelsSerial` never leaves it.
- `OneHash`: every process derives the same key for a job. `SharedKeys`
  satisfies it; salted hashes do not, and `SchedulerSalted` shows what follows.

A proof has one step per action, and under it one per part of the invariant
that the action can disturb. What a step changes is stated once in a lemma
(`BotCommitEffect`, `TaskEndsKeeps`, ...) that the steps cite.

### Payments: `ChannelProofs`

| Theorem (webhook) | States |
|---|---|
| `TypeCorrect` | `TypeOK` |
| `ActsOnce` | `ActedOnOnce`: granted once, exactly when registered (no run checks it by itself; the refinement implies it) |
| `ActsOnConfirmed`, `RefundsOnlyGranted` | the parts `OnlyConfirmedPayments` and `RefundFollowsGrant` |
| `ActsOnlyConfirmed` | `ActsOnlyOnConfirmed`, their conjunction |
| `PaysReferralOnce` | `ReferralPaidOnce` |
| `PayoutsLost` | `PayoutsLostOnlyToDeaths` |
| `CancelIsInert` | `CancelNeverRevokes`: the revoking branch of the cancellation handler is dead code (proved, in no run) |
| `RefundsStick` | `RefundSticks` (an action property) |
| `Implements` | `ImplementsRegistry`: the handlers refine `PaymentRegistry` |
| `MirrorsActive`, `IgnoresPartialRefunds`, `PurchasesExtend` | under `OneHandler`: `ActiveMirrored`, `PartialRefundIgnored`, `PurchaseExtends` |

None of these is inductive by itself. `IInv` strengthens their conjunction by
what a handler has established when it reaches a step (`Established`: the
notice is confirmed; a success is not mispriced; a refund that got past the
subscription row refers to a granted payment), by `StoredIsGranted` (a payment
id in a subscriptions row has been granted, which is why a cancellation,
which YooKassa reports only for a payment that never succeeded, never matches)
and by `OneAttributes` (at most one handler is about to write the payout row of
a payment, and there is none yet). `Commit` and `Attribute` are the actions
that change the tables, and the UNIQUE index (`Duplicate`) is what makes two
commits of one payment impossible. `PayoutInv` adds that the set it counts is
finite; a payment enters it only at a commit, whose handler is then the one that
has to write the payout. The serial theorems rest on `SerialInv`: the rows a
handler has read are those stored (`ReadsAreCurrent`), and a subscription names
the plan of the payment it names (`PlansRecorded`), so that a refund is priced
against the plan that was paid for.

| Theorem (Stars) | States |
|---|---|
| `StarsTypeCorrect` | `StarsTypeOK` |
| `NoDayUnearned` | `NoUnearnedDays`, for any number of overlapping handlers |
| `SerialIsSafe` | under `OneBotHandler`: `SerialStarsSafe` |

`NoUnearnedDays` needs `EarnedInv`: the bound also holds of every copy of a row
that a handler has read, since a column of that copy may be stored later. The
serial theorem needs that a row without a charge has no window
(`NoChargeNoWindow`), that the charge a row names is the one granted last
(`GrantedIsLast`), that a referrer is stored exactly when one was attached
(`AttachedIsReferred`), and that the rows read are current (`ReadsCurrent`).

Both channels write the same `users` rows. Of their composition, with every
constant free:

| Theorem (both) | States |
|---|---|
| `RefundsRespectChannel` | under `OneAtATime`: `RefundRespectsChannel`: a window loses its channel only in a step that acts on a refund of that channel |
| `PurchasesGiveAccess` | under `OneAtATime`, of the behaviours that are `Prompt`: `PurchaseGivesAccess` |

`ChannelInv`: at most one handler, of either channel, is at work (`Alone`), the
rows it has read, and the row it is about to write, are those stored
(`ReadsCurrent`, `RowIsCurrent`), and a window that Stars paid for names its
charge (`StarsNamesCharge`).

### Scheduler and models: `SchedulerProofs`

| Theorem | States |
|---|---|
| `SchedulerTypeCorrect` | `SchedulerTypeOK` |
| `LocksTracked` | `LocalLockTracked` and `HeldByItsRun`, the part of `LeadersLocked` that needs no equal hashes |
| `LeadershipHolds` | under `OneHash`: `LeadersLocked` |
| `HistoryHolds` | `HistoryAccounts` |
| `ModelsHold` | `ModelsSound`, for any trainers, readers and bounds |

`LockInv`: the local lock of an instance is taken exactly while one of its runs
is between taking and releasing it (`LocalOwned`), an advisory lock is held only
for such a run (`HeldByItsRun`), and there are at most as many runs that go on
without their advisory lock as sessions were dropped (`OrphansFew`). The last
part is a count: the drop that makes an orphan pays for it. `HistoryInv`: no two
runs own one row (`RowsOwned`), what a run believes of its row is so
(`RunAccounted`), a row says "ok" only of a run that came back from its work,
done or raised (`RowsAccounted`), and rows are left "running" only by stops and failed writes
(`AbandonedFew`: one per job and stop, one per failure).

`LifeInvariant` is about one directory in which several runs meet. `StepHolds`:
where a process stands tells what it has named, made and chosen. `NamesHold`:
only versions given out are borne, and two runs that bear one version, or a run
and a row, make it `shared`. `TalesHold`: a file, a row, a cache, a forecast and
a run each tell which artifact a version is; all agree, and none tells of a
version that is still half written, unless it is shared. `FilesHold`: a version
has one file, and every half file its reason. `ChampionsHold`: the champion has
its file and every prune at work knows it, unless it was passed over. The last
part, `CleanHolds`, is what keeps a kind from being emptied, and holds of kinds
with no shared version and no abandoned file: what a prune is going to unlink is
neither being written nor the newest, the newest finished file is the newest
anybody tells of, and each finished file has its row or the run that will store
it. `QuietKeeps` says once what a step must satisfy that leaves directory and
table alone, and most actions cite it.

The proof changed the property. `PruningSpares` once claimed that a trained kind
keeps a model unless a file was abandoned. With three trainers and one artifact
kept that is false: two of them write one version, and two prunes that listed
the directory at different times then unlink all of it. The property now says
so (`shared # {}`), and the instance of two trainers had not shown it.

### Pipeline: `PipelineProofs`

| Theorem | States |
|---|---|
| `TypeCorrect` | `TypeOK` (proved, in no run) |
| `DelistsOnlyGone` | `DelistedOnlyWhenGone`: no failure delists a bond |
| `TracksFailures`, `LeavesAlone` | `BreakerTracksFailures` (proved, in no run), `SourceLeftAlone` |
| `HistoryWhole` | `HistoryHasNoHoles` |
| `KeepsCoupons` | `KnownCouponKept` |
| `OkIsRefreshed`, `ScoresFollow` | `OkMeansRefreshed`, `ScoresReflectRows` |

Its `IInv` adds why each holds. `MissingIsGone`: a call ends with NotFoundError
only for a bond that is gone. `ListedIsMapped`: what a listing has collected is
in the shared map, so no detail takes the branch for an unknown id.
`HistoryIsInterval`: the stored days of a bond form an interval, so the day
after the last one is where the next request has to start. `Probing`: a breaker
that has half-opened has cooled down. `RefreshedOrFailed` and `ScoredInRecord`:
what a run has established in each phase; the quality is only computed at the
end, from errors counted in an earlier phase. `TaskEndsKeeps` states once what
a coroutine's writes must satisfy, and the actions per bond cite it.

### Services: `NotificationProofs`, `RecordProofs`, `AccessProofs`

| Theorem | States | Inductive invariant |
|---|---|---|
| `AlertsAreSound` | `AlertsSound` | `AlertInv`: a check goes through its rules in order, what it still has to tell is untold, what it decides follows from what it read; checks that overlap are on record as overlapping, and a check that does not overlap saw every event of those before it |
| `IntegrationHolds` | `IntegrationSound` | `PageHolds`: what a request has found lies between its cursor and where it reads, and a row that stands there was found or comes after a full page; `SeenToCursor`: every row that stands is answered up to the cursor. `MapInv`: an upsert under way alone builds upon the version that answers. `PostInv`: a call about to insert found no row of its key |
| `PartnersAreServed` | `PartnersServed` | `KeysInv`: a request at work presents a key; if that key is revoked, the request was authenticated before. `HooksInv`: a delivery goes to a hook of the event's addressee, a delivery that was posted and has ended is on record (`EndedAreRecorded`), and the failures of the row are those its last writer knew of (`LastWriterKnown`) |
| `HoldingsAreSound` | `HoldingsSound` | `HoldingsInv`: plans are made off target (`PlansDrift`), a plan in the making has the positions as they are but for those written since it read them (`SeenUnlessTouched`), a request that is overtaken shared time with the one that overtook it, each snapshot is the last asked for |
| `BotFrontIsSound` | `BotFrontSound` | `FrontInv`: one task holds the parse lock, a positions dialog was opened as Pro, who waits for an amount, carries or holds one was asked for it himself (`AskedInv`), the row a task read is not newer than the stored one, and the stored row is the sum of the changes that were not overwritten (`RowsAddUp`) |
| `MonitoringIsOnRecord` | `MonitoringOnRecord` | `MonitoringInv`: runs go through the detectors in order; two alerts of a key within a day come from runs that met (`OncePerDay`), and runs at work together are on record as meeting; what is published or reported is in the run or stored |
| `BudgetsAreKept` | `BudgetsHold` | `BudgetInv`: the hits a key keeps are accepted requests, all of those in its window, and the counter of a fixed window counts them |
| `AccountsAreSound` | `AccountsSound` | `AccountsInv`: what a visit read and what happened since are ordered; a token that passes is the stored one or was overtaken on record; Google identities and trials as the property states them, of the rows about to be written too |
| `SnapshotsAlwaysHold` | `SnapshotsHold`, a part of `FiguresSound` | `SnapshotInv`: a build has an open flight of its own, the one its page is in (`BuildsFly`), a page in flight has its builder (`FlightsManned`), and who waits asked before that flight landed (`WaitersAboard`) |
| `ClientRecoversAlways` | `ClientRecovers` | `BrowserInv`: a restart that meets no other finds every field as it left it (`AloneRestarts`), and the last to finish leaves a living context and session (`Recovered`); without a crash nothing restarts, with one no lone start raises (`CrashesCounted`); who is on record as undisturbed is alone (`UndisturbedAlone`); a pending future has its fetcher (`FuturesServed`) |
| `QuotesAlwaysSound` | `QuotesSound` | `FeedInv`: every rate at hand is one the process may have met (`RatesMet`); until a rate is at hand a converted figure is the same at every rate, from then on all of the answer is at one (`ConversionSound`); each figure of a row, and of a row read to be merged, is that of the answer on record for it (`RowsTold`) |

Two details carry these proofs. `BrowserInv` says nothing of a restart that meets
another: what it then holds is only what the last one to finish makes anew. The
figures of `FeedQuotes` need no property of the division that makes a percent but
the order of its tests (`PercentWithoutRate`); a look-up that fails gives no figure
at all, so the rest of the answer may still be converted at a later rate.

### Analytics: `AnalyticsProofs`, `BasketProofs`

| Theorem | States |
|---|---|
| `ScoresAlwaysHold` | `ScoresHold`, for any papers, histories of yields and reports |
| `MarketsAlwaysHold` | `MarketsHold`, for any bonds, boards, prices and stocks, whatever the solver finds |
| `BasketsAlwaysSound` | `BasketsSound`, for any market of any size and any wish |
| `PagesAlwaysAgree` | `DemoHolds`, for any shelves of bonds and any order of scrapes, days and recomputations |
| `FiguresAlwaysAddUp` | `FiguresAddUp`, for any trades, histories, baskets and terms; a part of `FiguresSound`, as `DemoHolds` is |

`RatingInv`: after a recomputation the yield is one that the code keeps and the
score is that yield's; after two, a further one changes nothing, since a yield
that was wiped and solved anew is a yield that stays. That distress keeps a bond
out is arithmetic: each part of the reward and of the risk has its bounds, and
their sum stays below the second tier.

`MarketInv`: a scored row is `Backed` (its yield is close to what its price
implies) unless its terms are doubted, and `Earning`; both hold of the committed
rows and of the transaction a run is filling, which becomes the table when it
commits. No row of the Belarusian exchange is in the table, and one that is in
the transaction waits for the flush that refuses it. `StockInv` ties the hours
of the rows to those at which their boards answered.

`PagesInv` says that a row whose bond is what it was when it was scored has a
yield that a recomputation leaves (`ScoredAsIs`) and the score of that yield.
The card solves a yield from the price, so it has the stored one or a loss
(`NowIsStored`); with a loss the stored score, which has points for a yield, is
stale, and the table computes the one of the card. Two papers that agree in
what the parts of a score look at have one score (`SameScore`).

`GateInv` is simple, since an answer is what the market and the wish determine;
the theorem is about these functions.

- *Sums.* `Total` is a fold over a set. What the proofs need is that a sum over
  a set with one more element is the sum and that element. One function on all
  subsets satisfies this; it exists by induction over the number of elements,
  with a set of numbers in the place of a predicate, and it is the only one by a
  least counterexample, which the well-founded order of the finite subsets gives.
- *The gate.* A rank or a median is described by how many elements lie below
  it. A yield that rises pushes the median and the standard deviation of its
  peers up by less than it has itself risen, so a bond that was out stays out.
  For the standard deviation this is the inequality of Cauchy, over the sums.
- *Answers.* A list in the order of scores holds each of its bonds once. The
  greedy purchase is a recursive function over that list; after each bond it has
  either bought a lot or met a price above what was left (`BoughtOrDear`), and it
  never spends more than it has (`BuyMoreIsBargain`). The cap per issuer holds
  because the last bond taken of an issuer still found room.

`FigureInv` has one case per kind of figure, and the argument of each is
different.

- *Ledger.* `LedgerOf`: the lots, spread out face by face, are the units of the
  reference, what they cost is what is invested, and what was realized is what
  came in above the cost of what went out (`Agrees`). A sale is a fold over the
  lots. `SaleTakes` says what the fold has matched after any of them: the units
  taken are the first of the reference, what is kept is its rest. A fold is an
  existence again (`FoldExists`) and one more step (`FoldMore`).
- *Backtest.* `BacktestOf`: two inputs that agree up to a day have the same
  holdings on it, since a snapshot, and so a score, a choice and a split, reads
  no later row (`SameSnapshots`, `SameStep`). `Covered` bounds the overdraft:
  each amount is rounded by at most a half of its price (`RoundedIs`), and the
  equal shares sum to the money there is (`SharesAreBounded`).
- *Basket.* Each bond is met once in the order of weights, and once it was met
  it stays too dear for what is left, which only shrinks (`BuyOneDone`).
- *Coupons.* `CouponInv`: walked back, a date is the one counted from the
  maturity, or earlier in the same month where a short month has cost it days.

The proofs changed properties and model. `BasketsSound` once claimed that an
absurd row keeps no other bond out; that is false, as section 3 says, and the
property now says what is true (`FartherOutlierChangesNothing`); five bonds and
more yields were put into the instance to see it. `YieldsOfQuotes` needed the
exception for prices that imply 0 or no yield. `DemoHolds` claimed that a fresh
score is the one of the card whatever the source stores; the proof failed for a
stored yield of 0, and TLC shows the case when the exception is dropped.
`NoLookahead` claimed that the overdraft of a backtest is within the rounding of
what it holds; a portfolio that is overdrawn and then worth nothing sells all,
buys nothing and stays below zero, so the bound is now stated of days on which
it holds a bond. Two guards of a `CASE` in `PortfolioGate` overlapped, which the prover does not accept as a definition.

### Only checked by TLC

- Liveness: `PaidIsGranted` (`BillingLive`) and `LockComesFree`
  (`SchedulerLocks`). The proof system has no fairness rules in reach here.
- `RunNeverStuck` uses ENABLED.
- The parts of `FiguresSound` other than `SnapshotsHold`, `DemoHolds` and
  `FiguresAddUp`: samples, workbooks, desk and news are folds and filters over
  sequences. TLC computes them for every input of the instance, and that is what
  it shows.

## 6. Not modelled

`PROJECT.json` lists each component with the reason. In short:

- page rendering (SEO pages, widget, OG images), the frontend, texts of the
  bot, e-mails: presentation.
- numerical work: training of the models, the Nelson-Siegel fit, the yield
  solvers, matrices of the optimizer. Their results are inputs here; what is
  done with them is modelled.
- the document analysis and the language model calls: what they answer is not
  defined by this code.
- reading of HTTP, HTML and spreadsheet cells: which value belongs to which
  bond is modelled (`Workbooks`), how it is found in the text is not.
- schema migrations, fixtures, scripts, deployment.
- read-only queries and commands; the table of features per tier
  (`access_control.py`), a constant.
- two MOEX runs at once (the bot's `/parse` beside the scheduler): `MarketRuns`
  has one MOEX run at a time, beside the Belarusian source, which may write
  between any two of its steps.
- within modelled parts: `create_payment` (its outcome is `Settle`), the
  token refresh of the Aigenis client, the fallback source, which no path
  reaches, and the reminder job.

## 7. Plan

Done: payments and entitlement, scheduler lock, pipeline over its client, with
the proofs of section 5; then alerts, limiters, partners, monitoring, accounts,
the bot, positions, the browser, the integration API, the feed, the workbooks,
the exchange runs, scoring, the gate, portfolios, models and samples, the desk
and the market pages. Left, the most useful first:

1. Proofs: the remaining parts of `FiguresSound`, the workbooks first.
2. An abstract alert service (one event per rule and window) that a single
   checker of `AlertChecks` implements.
3. Liveness of a delivery and of a waiting request under fair tasks.
4. The features per tier, once a property of them is more than the table.

Small components share a run where they do not interact, so that the number
of runs stays the number of questions.
