# MarketPulse-BI in TLA+

MarketPulse-BI fetches prices, news and macro indicators for a watchlist of
some 560 tickers three times a day, derives technicals, sector flows,
investment scores and a brief from them, and shows the result on a dashboard
and on stock pages whose data a visitor may refresh. This directory models the
parts of it that are hard to test: the update that may stop anywhere, the
threads that share one request budget, the transactions that rewrite the same
panel or share one cached row, the clock that says what is overdue, the page
whose answers arrive in any order or from a cache, the scripts that rewrite one watchlist, and
the score whose rules depend on each other. TLC checks the modules on small
instances; TLAPS proves the most important results for every instance.

## The system and its components

| component | state | operations | what makes it hard |
|---|---|---|---|
| EOD orchestrator (`scripts/run_daily_update.py`) | none of its own; the `eod_update` stamp | runs six subprocesses in order, stops at the first that fails, stamps success | failures and kills between steps; the next run must repair what the last one left |
| Pipeline (`pipeline.py`, `logging_utils.py`) | prices, news, stamps, `PipelineExecutionLog`, `DataQualityResults` | Extract, Transform, Load, DataQuality, each between log rows | one stage is up to three transactions; partial fetches |
| Freshness (`load/freshness.py`) | `DataFreshness`, `StockDataFreshness` | mark a source, mark stocks | a stamp must not be ahead of its data |
| Derived steps (technicals, flows, scores, brief) | one table each | recompute from what is stored | each reads what the steps before it wrote |
| Rate limiter and price fetch (`extract/ratelimit.py`, `extract/prices.py`) | next slot, pause; a thread pool | reserve, throttle, reset; attempt, retry, give up | threads, late answers, bursts |
| News load (`recent_news.py`, `load/upsert.py`) | `NewsArticles`, `StockRecentNews` | upsert, select, delete, insert | concurrent transactions, row locks, deadlocks |
| Live refresh (`live_refresh.py`) | the same tables | one ticker's prices, then its news, then its technicals, a transaction each | runs beside the pipeline; of what depends on the bars it recomputes the technicals only |
| Schedule and daemon (`schedule.py`, `scripts/scheduler.py`) | the slot waited for | next slot, overdue, run | boundaries, long runs, restarts |
| Refresh budget (`webapp/rate_limit.py`) | timestamps in the session cookie | allow, refuse | the cookie is read and written by concurrent requests |
| Stock page (`static/js/stock_detail.js`) | latest request, what is drawn, the button | load, search, refresh | answers out of order, failures |
| Seeding and divisors (`seed_dimensions.py`) | `DimAsset`, the stored bars | upsert the assets, rescale what is stored | must rescale exactly once, under fetches that are on their way |
| Universe build (`build_universe.py`, `universe.py`) | `config/watchlist.yaml` | read, scrape for minutes, merge, write | edits and prunings meanwhile; a file written in place |
| Backfill and prune (`backfill_historical_prices.py`) | bars, `DimAsset`, the watchlist | load batches; drop short histories | the database and the watchlist file change apart |
| Zero-volume cleanup (`cleanup_zero_volume_rows.py`) | the same | delete rows, recompute the affected | two transactions, the second depends on the first |
| Enrichment cache (`webapp/enrichment.py`) | `StockEnrichmentCache`, `InsiderTransactions` | ask the provider, upsert, stamp, in one transaction | concurrent misses, one call of two failing, locks taken in either order |
| Sector flow, insiders, score (`sector_flow.py`, `insider.py`, `scoring.py`) | none: functions of what is stored | classify, net, add up the pillars | missing inputs; one pillar reads another |
| Service worker (`static/sw.js`) | the cached answers of the API | network first, keep a good answer, fall back to the cache | keeping is not awaited; it may start amid a visit |
| Migrations, dashboard | see *Not modelled* | | |

The components meet in the database (all of them), in the rate limiter (the
threads of one process), in HTTP requests (page and server) and in exit codes
(daemon, orchestrator, steps).

## The modules

### OrderedUpdate: the promise

`OrderedUpdate` is the orchestrator's docstring as a specification: N steps in
order, a run that may be abandoned anywhere, a stamp only at the end, which may
be lost. TLC checks it as what `EodUpdate` implements, TLAPS proves it. `UpstreamNeverOlder` and `StampEarned` are what the promise is worth.

### EodUpdate: the program

`EodUpdate` is the orchestrator, its six steps, the four stages of the pipeline
and the log rows around them, and beside them the live refreshes of single
tickers. One action is what happens between two moments at which the process can
be killed.

| actions | code |
|---|---|
| `StartRun`, `StepFails`, `Crash`, `RecordSuccess`, `RecordFails` | `run_daily_update.py`, started by `scheduler.py` or the CronJob |
| `BeginStage`, `FinishStage`, `StageRaises` | `log_stage` |
| `ExtractBody`, `TransformBody`, `LoadBody`, `DataQualityBody` | the four `with log_stage` blocks of `pipeline.run` |
| `FetchMacro`, `ComputeTechnicals`, `ComputeFlows`, `MarkFlows`, `ComputeScores`, `GenerateBrief` | steps 1 and 3 to 6, by committed transaction |
| `RefreshPrices`, `RefreshSelects`, `RefreshTechnicals`, `RefreshDies` | `live_refresh.refresh_ticker`, one at a time for each ticker |

Data is abstracted to its provenance. A bar is the number of the writer (a run or
a live refresh) that stored it, a technical row is the bar it was computed from,
a score is the macro data, bars, technicals, flows and ETF bars it was computed
from, a stamp is the writer that set it. That is enough to say that what is shown
together belongs together. Which tickers fail to be fetched, whose histories hold
no row worth storing, which records validation drops and which stocks cannot be
scored is any set: the empty set and all of them included. `made` is history, and
so are `amended` (tickers a live refresh has been at since step 3 began),
`skipped` (stocks the last step 5 did not score) and `unstored` (writers whose
fetch worked and left no row).

`SuccessIsCoherent` says that after a successful run all derived data is of the
bars stored now, with two exceptions. One are the bars and technicals of a ticker
in `amended`, of which flows, scores and brief were or will be computed at another
moment (`live_refresh.py:9-12` says so); the other the rows of the stocks in
`skipped`, which stay as they were although the scores are stamped.
`StampsNeverAhead` relates each stamp to its data. For a ticker's
`PricesFetchedAt` it allows one thing more than `freshness.py` promises, a fetch
that worked and left no row, because the code does that (see *Where code and text
disagree*). `LogTellsTheTruth` relates the log to what is committed;
`EodStampEarned` says what the success stamp is worth; `ImplementsOrderedUpdate`
is the refinement.

Left out of this module: the operator's scripts that write bars (they are in
`PriceStore`, and `SuccessIsCoherent` is stated while none of them runs), the
headlines and `NewsFetchedAt`, and the enrichment a score also reads, which is of
another age than the bars by design (`EnrichmentCache`).

### PriceStore

The bars and technicals of one asset and all who write them. `Start` reads the
divisors (or, for the seeding, the watchlist), `Fetch` and `FetchFails` ask the
provider, `UpsertDailyPrices` and `CommitLoad` are the load of the pipeline, of a
live refresh or of a backfill batch; `BeginRecompute`, `SelectBars` and
`UpsertTechnicals` are `compute_and_upsert_technicals_for_asset`, whose
transaction begins and selects long before it commits. The seeding is
`SeedAssets` when nothing has to be rescaled, and otherwise one transaction taken
statement by statement: `RescaleStoredPrices` (the UPDATE begins and sees what is
committed), `DivideStoredPrices` (it has waited for the loads that hold one of
these rows, and divides them as they are then), `RecomputeRescaled` and
`CommitRescale`. `DeletePhantoms` is the first transaction of the cleanup. Any
process may be killed. A writer waits for the transaction that holds a row it
writes (`Held`, `Unlocked`), and its own rows are seen when it commits.

A bar is a quote and how often it was divided by 100; the technicals of a day
are the bars they were computed from, all bars up to that day. Time is left
out: `begun` and `fresh` say on which side of the last change of the bars the
beginning of a transaction, and with it the stamp, lies. `alone`, `missed`,
`crossed` and `reverted` are history. The three properties are what is left when anything may
overlap: `AloneRecomputesAll` (one undisturbed recomputation repairs whatever
was left behind), `TechnicalsStampNotAhead` (an overtaken one is not stamped as
if it were current) and `UnitsAgree` (shekels and agorot are not mixed).

`UnitsAgree` has three exceptions. A divisor that is taken back and set again
divides twice (`reverted`). A fetch that is on its way when the divisor changes
stores the old unit, and so does a load that waits for the rescaled rows
(`crossed`). And a load that inserted a new day before the UPDATE began and
commits before the seeding does is not divided (`missed`, then `crossed`). The
last contradicts what `rescale_stored_prices` says of itself. Loads that overlap
a rescale, end before it does and write stored days only are no exception: the
UPDATE divides what they wrote.

### RateLimiter and PriceFetch

`RateLimiter` holds the limiter's state and one operator per critical section
of its lock. `PriceFetch` extends it with the tasks of `fetch_prices`: queued,
ready to reserve, asleep until their slot, sent, and ended. Time is a clock
that advances only while nothing has to happen; a sleeping thread may be woken
up to `Jitter` late. `BurstAssumption` is the relation of the configured
numbers (8 workers at 0.25 s, a 10 s timeout, a 30 s pause) that makes "several
workers reporting one burst count once" true: `OnlyFreshAnswersCount` needs it.

### RecentNews

One transaction of a pipeline (all tickers) or of a live refresh (one ticker):
`Upsert` per article, then per ticker `Select`, `DeleteFinds`, `Delete`,
`Insert`, then `Commit`. An action is one SQL statement, except that a DELETE
is two: it finds its rows when it starts and may wait for their lock. The
database is modelled from the rules of PostgreSQL's READ COMMITTED that these
statements meet: an upsert waits for the transaction that holds the row, a
DELETE passes over rows deleted meanwhile and does not see rows inserted
meanwhile, an INSERT waits for a transaction that holds its key and then fails
if the key is taken. Those definitions are marked external. The order in which
a refresh visits the assets is left open, as it is in the SQL.

### DailySchedule

The functions of `schedule.py` are operators on a wall clock counted in units;
the daemon plans, sleeps in polls, runs, fails, is stopped and restarted. A run
takes as long as it likes. `healthy` is history: every run since an up-to-date
start succeeded within `UsualRun`. `HeadroomAssumption` is the comment beside
`RUN_GRACE`, `SpacingAssumption` says that a usual run is over before the next
slot (the slots of the code are at least six hours apart).

### RefreshBudget

`check_and_record_refresh` for the tabs of one browser. The history is in the
cookie, so a request carries the history of the moment it was posted and its
answer replaces whatever the browser holds when it arrives. Allowed refreshes
are numbered, `granted` has their timestamps, and a cookie is the set of numbers
whose timestamps it lists: two refreshes of one second stay two entries, as in
the list the code keeps.

### StockPage

`loadTicker` is split at its two awaits (`StartLoad`, `ServeLoad`, `Answered`,
`Render`), the refresh button at its three. The server's data of a ticker is a
version that a live refresh or the scheduled update raises.

A request that is sent while the service worker controls the page goes through
`networkFirst`: `Keeps` and `Store` are its `cache.put`, which nobody awaits and
which may fail, `FallsBack` its `catch`, which answers from the cache when there
is an answer; without one `LoadFails` is what the page sees. `Claim` is a first
visit during which the worker is installed and takes over the page; the requests
sent before stay with the network. The histories say what an exception rests on:
`broken` (a load failed), `crossed` (two loads of one ticker were under way
together, and the guards compare tickers only), `unkept` (an answer did not get
into the cache) and `promised` (what a refresh told the visitor it had stored).
`ShowsLatestAtRest` is about the guards, `RefreshedIsShown` about what "network
first" is for, `OfflineShowsSame` about what the cache is for.

`crossed` and `unkept` are never cleared while the page is open: after two loads
of one ticker have overlapped, `RefreshedIsShown` and `OfflineShowsSame` say
nothing more of this visit, and `OfflineShowsSame` says nothing more once an answer
was not kept. One search that is ended with Enter is enough for `crossed`, because
keydown and change both fire (`stock_detail.js:730-741`). A version counts
commits, not quotes: that the scheduled update may commit an older quote than a
live refresh did is not visible here.

### EnrichmentCache

One transaction of `get_or_fetch_enrichment` per request: `Begin` is its SELECT
and its decision what is stale, `FetchSnapshot` and `FetchInsiders` ask the
provider (and may fail), `StoreSnapshot`, `StoreInsiders` and `StampInsiders` are
the upserts in the order of the code, each of which waits for the transaction
that has written the same rows, `Answer` reads the filings and commits. A worker
may be killed, and PostgreSQL breaks a deadlock by failing either side. A
snapshot is the moment the provider was asked for it, a filing the moment it was
first listed; `missed` is history. A committed row carries `now()`, which is the
beginning of the transaction: that is why a stamp may go back when the request
that began first commits last, and why it is still honest.

### InvestmentScore

The functions of `sector_flow.py`, `insider.py` and `scoring.py` and the
assembly in `db.build_score_kwargs` as operators on the data of one stock, in
integer units of 1/600 point. The state is that data; a step changes one kind
of it (a figure, a day of the ETF or of the index, a trade), so that a property
can compare two scores. `BetterNeverCosts` says which raw changes are
improvements and that none of them costs points, through all four pillars, the
squeeze rule that joins two of them, and the clamp; `sma50`, which one part of
the trend wants low and another high, and the RSI, whose points rise and fall,
are deliberately not on its list, and neither is an average that falls to 0,
which the code takes for a missing one. `LostDataIsNeutral` is what "missing data is
neutral" is worth in points, and `OverboughtPenalised` what the penalty is worth
for a stock that is otherwise perfect.

### Watchlist

`config/watchlist.yaml`, `DimAsset` and the three scripts that write them.
`StartBuild` and `WriteUniverse` are the two ends of `build_universe.py`,
`StartSeed` and `SeedAssets` those of the seeding, `StartBackfill` (with
`--only-missing` and `--universe`), `LoadBatch`, `Loaded`, `PruneAssets`, `ReadFile`
and `RewriteFile` the backfill with its optional pruning. The scripts write the file
in place, so `WriteUniverseCut` and `RewriteFileCut` leave any beginning of it. The
owner adds entries and the indices change meanwhile. A holding is listed wherever
shares are: it may be of Tel Aviv or a member of an index, and a build then tags it
so. `tagged` is history, the holdings a build has put in a universe the pruning
touches, and so is `out`, what a pruning removed while no other script held an old
copy of the file.

`HoldingsKept` lists the ways in which the owner loses a holding. From the
database, with its bars: a pruning finds too few of them, and a build has tagged
the holding as of Tel Aviv or of a pruned index. From the file: the same pruning;
a write that is cut off; or a build, or a pruning, that had read the file before
the owner added the entry.

`WatchlistAssumption` keeps `sp500` and `personal` out of the universes a pruning
touches. `--universe` may name them, and `--prune-short-history` then removes
whatever has few bars there; the default, and the call in the repository's README
(`README.md:210`), do not. `--limit` is left out.

## The runs

| run | question | bounds |
|---|---|---|
| `eod_update` | data, stamps, log and refinement; does an update succeed in the end | 1 stock, 1 sector ETF, 2 runs, and one failure, kill or live refresh (which may die half way) |
| `price_store` | technicals, their stamp and the unit of prices, whoever writes | 3 days (one out of reach of an update, one without trading, one trading), 1 live refresh beside the update, the backfill, the seeding and the cleanup, 4 starts, 2 edits, 2 quotes |
| `price_fetch` | spacing, pauses, bursts, always a verdict | 3 tickers, 2 workers, 2 attempts, pauses of 4 and 6 |
| `recent_news` | panels under interleaving, and do both transactions end | 1 pipeline, 1 live refresh, 2 tickers, 3 headlines, panel of 2 |
| `daily_schedule` | slots and overdue | hours, 2 days, the three slots of the code |
| `refresh_budget` | the budget, and no undue refusal | 2 tabs, limit 2, window 3, time to 7 |
| `stock_page` | order of answers, the cache, the button | 2 known tickers, 1 unknown, 3 loads, each ticker's data rewritten once; a first or a later visit |
| `enrichment` | honest stamps, fresh answers, no request that hangs | 2 requests, 1 filing, a TTL of 1, time to 4; the row absent, without fundamentals, or without filings |
| `investment_score` | monotonicity, missing data, the overbought penalty | 4 stocks to start from, any 2 inputs changed, windows of 2 days instead of 20 |
| `watchlist` | what is kept and what stays out | 4 instruments (2 holdings, one of them of Tel Aviv), 4 starts, 1 edit, 1 change of the indices |

The bounds are the smallest at which the interesting cases meet. In `eod_update`
one run may leave any mixture behind and a second one meets it, or the
three steps of a refresh fall anywhere into two runs and between them; failures
and refreshes together are left to the proofs. In `price_store`
three recomputations can overlap, or two overlap and a third run alone after
them; the divisor can be set, taken back and set under a fetch, and a load can be
open when a rescale begins and commit, or be killed, before it ends. In `price_fetch`
a third ticker waits for a worker while two sleep, and the second pause is the
capped one. In `recent_news` one headline names both tickers, the panel is
shorter than the list, and either transaction may block, fail or deadlock on the
other. In `daily_schedule` the clock crosses midnight twice. In `refresh_budget`
two windows pass, and the answers of two tabs may cross: `overlapped` (history)
says whether a request was posted while another was under way, and
`WithinBudgetInTurn` is stated for sessions where none was. In `stock_page` three
loads are needed for a search, a refresh and the load after it to be under way
together; a version the cache has and one it has not are enough to tell an old
answer from a new one. In `enrichment` a second TTL passes after the first fetch, so that a
stamped answer turns stale again; two requests suffice to cross their locks. In
`investment_score` two changed inputs reach the boundary between the pillars
that depend on each other (a short interest and a trend); with three the same
properties were explored for five minutes without a violation, too long for a
run of the project. In `watchlist` four starts are a build, a seeding, a backfill
that prunes, and one more script to overlap them or to let something in again.

### Where code and text disagree

Two runs check one sentence of the repository that the code does not keep;
PROJECT.json quotes the sentence.

| run | what TLC shows |
|---|---|
| `recent_news_stale` | a refresh that selected early overwrites a newer panel, and nothing repairs it until the next refresh |
| `prune_failed` | a stock whose fetch failed has no bars, and the same run prunes it as recently listed, although it announces a retry |

Others were met while modelling. No run is spent on them, and no property
claims the sentence.

* Time: a missed slot is invisible for two hours after each later slot
  (`schedule.py:54`, `:59`). Two tabs that post at once get more than the budget
  (`webapp/rate_limit.py:4-6`, `:33`). Two loads of one ticker: the older data
  may be drawn last (`stock_detail.js:679-681`, `:712`); a refresh that ends
  after the visitor searched on loads its own ticker again (`:776`).
* Maintenance: the technicals of a deleted zero-volume day stay
  (`cleanup_zero_volume_rows.py:4-6`, `:57`). A divisor taken back and set again
  divides stored prices twice, against `seed_dimensions.py:87-88` (`reverted` in
  `PriceStore`); a load that inserts a new day before the rescale's UPDATE begins
  and commits after it leaves that row in agorot under a divisor of 100
  (`seed_dimensions.py:93`, against `:87-88`; `missed` in `PriceStore`).
  A build overwrites what was edited while it scraped, and a stock that leaves its
  index is tagged `personal`, out of reach of every pruning. A holding of the
  owner's that a build has tagged `tase`, or with an index that is pruned, is
  pruned when it has few bars or none, though `backfill_historical_prices.py:80-81`
  speaks of newly added instruments (`tagged` in `Watchlist`).
* The update: `log_stage` says that a failing stage never ends the run
  (`logging_utils.py:25`) and raises (`:55`). The quality results of Transform
  are lost when Load fails (`pipeline.py:128`). With every price fetch failed the
  pipeline exits with 0 and the steps after it recompute and stamp on old
  prices, against `run_daily_update.py:2-3`; scores are stamped even when none
  was computed (`compute_investment_scores.py:157`).
  A ticker whose fetch worked and whose rows were all dropped, for want of a volume
  (`prices.py:86-87`) or by the validation, is stamped as updated although its bars
  are older (`pipeline.py:116`, `live_refresh.py:74`), against `freshness.py:5-6`
  and `pipeline.py:114-115` (`unstored` in `EodUpdate`).
  `fetch_macro_indicators.py:258` indexes an empty list when nothing was fetched.
  `README.md:401` calls a doubled run a non-event, but two overlapping runs
  can meet on the primary key of a panel (`UniqueViolation` in `RecentNews`).
  `ratelimit.py:8-10` says that every worker backs off, but one that has its slot
  already sends into the pause.
* The score: `scoring.py:16-17` and `README.md:103` say that an overbought stock
  cannot reach 80; with an RSI of 72 and everything else perfect it gets about
  85 (the test named after the sentence, `tests/test_scoring.py:95`, asserts
  less than 90, at an RSI of 85). `tests/test_scoring.py:113` says that a bounce
  never outranks healthy momentum; an RSI of 44 that rises gets some 20 points, a
  steady 45 gets 12. `insider.py:43-44` lets share counts decide when no trade has
  a value; the code does so whenever the values tie (`:64-67`). Page and batch agree only when the fetches of both succeed.
* The browser: with the network down the service worker answers API calls from
  its cache, and the page sets its clock by that answer (`sw.js:59`,
  `stock_detail.js:609`), so that old data looks fresh, against `sw.js:7-8`.
  `api_stock` reads prices and stamps in different transactions (`app.py:154`,
  `:169`), so that a commit between them shows old prices as just fetched.
  While two versions of the web application are deployed, the replica with the
  old files may answer the URL of the new ones, which the worker then keeps
  (`app.py:44-46`, `sw.js:12-13`).

## Fairness

* `EodUpdate!FairSpec`: slots keep coming (the daemon or the CronJob starts a
  run) and a process that is running goes on: every network call of the steps
  has a timeout and the Job has a deadline. Failures and kills are possible,
  never forced, and bounded by `MaxUpsets`.
* `PriceFetch!FairSpec`: some thread that can move does, or the clock does;
  a request is answered or times out within `Timeout`. Nothing is assumed about
  the answers.
* `RecentNews!FairSpec`: the server executes some statement that can be
  executed, a deadlock check included. Killing is never assumed.
* `StockPage!FairSpec`: some outstanding request is answered. Network failures,
  answers from the cache, keeping an answer and claiming the page are possible,
  never forced.

* `EnrichmentCache!FairSpec`: a call to the provider returns or fails, a commit
  happens, a lock that is free again and again is granted (strong fairness:
  PostgreSQL queues lock requests), and a deadlock is found. Kills are possible,
  never forced, so no liveness rests on them.

The other specifications state no fairness: their properties are safety.

## What is proved

TLAPS checks these for every value of the constants that satisfies the named
assumptions of the modules.

* `DailyScheduleProofs!OrderedCorrect`: the three invariants of the promise are
  inductive together with the fact that the steps done in this run carry its
  number.
* `EodUpdateProofs`: `TypeCorrect`, then the inductive invariant, whose parts
  are there for one property each. `Coherent` says at each `pc` which derived
  tables already agree with the bars, for `SuccessIsCoherent` (an earlier run
  may have left any mixture, so nothing at all can be claimed before
  `technicals`). `Bounded` says that nothing is of a run later than the present
  one (what is of a live refresh is numbered beyond all runs). `Progress` ties `made` to how far the run is; with `Bounded` it gives the
  refinement (`Refinement`, one step lemma per action) and, with the log,
  `EodStampCorrect`. `Logged` says which rows of the present run exist at each
  `pc` and that no later run has any, for `LogCorrect`. `Noted` says that what
  validation has dropped is noted until the rows are loaded, for `StampsCorrect`. A
  live refresh touches none of it but the bars, technicals and stamp of its ticker
  (`Aside`, `RefreshCoherent`), which it puts among the amended ones.
* `PriceFetchProofs`: `FetchTypeCorrect`; `SpacingCorrect`, from the invariant
  that every reserved slot is at least one interval before `nextSlot`;
  `PauseCorrect`, from the bounds of the pause; `SlotsOutsidePause`, from
  `nextSlot >= pauseUntil` whenever a pause was set. `WaitCorrect` and
  `FreshAnswersCorrect` need to count callers (`QInv`): as many are active as
  there are workers (`WorkersEnough`), and beyond any moment outside the pause
  the queue holds one interval for each caller still waiting there
  (`QueueShort`), so that a slot is never far away (`SlotBounded`). With the
  latest moment a thread wakes and a request is answered (`OnTime`),
  `BurstAssumption` makes every answer to an old request come before the pause
  it belongs to is over (`OldAnswersEarly`).
* `PriceStoreProofs`: `StoreTypeCorrect`; `AloneCorrect`, from the invariant
  that nobody else runs while a process is alone, so that what it selected is
  what is stored; `StampCorrect`, from the invariant that a transaction begun
  after the last change of the bars has selected the stored ones; `UnitsCorrect`,
  from the invariant that every fetch on its way divides by the divisor the
  database has, and that the rows an open rescale has found include every stored
  one unless a load of a new day has committed (`RescaleCovers`).

* `RecentNewsProofs`: `TypeCorrect`, `PanelCorrect` and `PanelStored` from
  `NInv`. A panel is deleted whole by one transaction (`DeletedWhole`), and who
  inserted a row of a ticker has the ticker to itself (`InsertedAlone`): what is
  committed goes with its transaction, and nobody else can insert. Together with
  what a transaction has inserted and is about to (`Plans`) every committed panel
  is one transaction's list (`PanelsListed`). An article is locked by one
  transaction and added only when nobody stored it (`ArticlesLocked`), so what is
  going to be shown is stored, or will be by the same commit (`PlannedStored`).
* `DailyScheduleProofs`: `TypeCorrect`, `WaitCorrect`, `SlotsRunOnce` and
  `HealthyCorrect`. The arithmetic of the slots (`NextRun` and `LastRun` are the
  neighbours of now among them) comes first. `Sleeping`, `Running` and
  `RanBefore` tie the slot waited for to the clock and to the slots already run;
  `UpToDate` says, while all goes well, which slots the stamp already covers.
  `HealthyCorrect` needs `HeadroomAssumption` and `SpacingAssumption`.
* `EnrichmentCacheProofs`: `TypeCorrect`; `StampsHonestAlways` and
  `AnswersFreshAlways` from one invariant, `CacheInv`. It says of every
  transaction (`Honest`) that it began, and read its stamp, in the past; that a
  snapshot to be written was fetched after the beginning (`Fetched`); that
  filings to be stamped include all listed before the beginning (`Read`); that
  those listed before the stamp it read are committed (`Cached`); and how old
  what it holds may be (`Fresh`). `HonestStays` is why others cannot disturb it:
  time passes, filings appear at the present moment, and commits only add.
* `WatchlistProofs`: `PrunedStaysOutAlways`, from the invariant that what was
  pruned is in none of the copies of the file that will be written or seeded;
  `HoldingsKeptAlways`, an action property, from the invariant that every holding
  which some copy of the file or the database leaves to a pruning is one that a
  build has put there (`SafeEntries`, `SafeAssets`).
* `StockPageProofs`: `ShowsLatestAlways`, from the invariant that the ticker asked
  for last is under way or drawn (`LatestComes`); `RefreshedIsShownAlways`, from
  `Promised`: as long as no two loads of one ticker cross, every answer read
  after a refresh has what it wrote; `OfflineShowsSameAlways`, from `Kept` (what
  is shown or about to be is in the cache or on its way there), which needs that
  each ticker has one load or one answer under way (`Apart`) and that no answer
  on its way is older than the cached one (`Forward`).
* `StockPageProofs` also has the theorems of the refresh budget, of which the
  refresh button is the caller: `BudgetTypeCorrect`, `BudgetKept` and
  `RefusalsEarned`, from `BudgetInv`. The newest copy of the cookie, the browser's or that of the one
  request under way, lists every refresh of the window (`InTurn`), and no copy
  lists more than the limit (`Short`); timestamps lie in the past and in order
  (`Past`), so that as many entries as the limit are as many refreshes.
* `EnrichmentCacheProofs` also has the theorems of the score, whose short
  interest, among others, comes from the cache: `OverboughtCorrect`,
  `LostDataCorrect` and `BetterCorrect`. The invariant is that the stock has its
  types (`StockOK`); the rest is what each part of each pillar is worth with data
  and without (`VersusBounds`, `RSIPointsBounds`, `MomentumKnown`,
  `SectorBounds`, `RiskBounds`), by how much a pillar moves when one figure is
  lost (`LostFigure`), and in which direction when one gets better
  (`BetterNeverWorse`, one case per kind of improvement). `QuotientMono` is why a
  lower average never costs points: the quotient of the ramp, rounded down, rises
  although its divisor falls. `ShortWithTrend` joins the two pillars: a stronger
  trend may turn a high short interest into a squeeze setup and never back.
  `InsiderUp` needs sums over sets of trades (`TradedMore`: more trades are never
  worth less), which are proved by contradiction from a smallest set of trades
  that would break them (`MinimalSet`).

`RefreshBudget` and `InvestmentScore` name their `BudgetInit`, `ScoreNext` and
so on after themselves because these proof modules extend two components each;
`OrderedUpdate`, whose constant is a number of steps, is an instance (`Ordered`).

The assumptions are `EodAssumption`, `LimiterAssumption`, `FetchAssumption`,
`BurstAssumption` (`FreshAnswersCorrect` only), `StoreAssumption`,
`CacheAssumption`, `WatchlistAssumption`, `PageAssumption`, `NewsAssumption`
(finitely many tickers and articles, and a panel of 1 to 10 rows, as its CHECK
demands), `EarlierAssumption` (earlier transactions are not among these),
`ScheduleAssumption` with the two above, `BudgetAssumption` and
`ScoreAssumption` (the ranges of the data), and that `OrderedUpdate` has at
least one step. No proof needs a watchlist to be finite.

The type invariants of `PriceStore`, `EnrichmentCache` and `StockPage` are in
the proofs and not among the properties of the runs.

Every safety property of the passing runs is stated by a theorem. Only
model-checked are the liveness properties (`Recovers`, `Terminates`, `AllEnd`,
`ButtonComesBack`, `RequestsEnd`): liveness under fairness is beyond the prover.
`Total`, the volume of the ETF's last days, is recursive: no proof says what it
computes, and none needs to, since the flow only compares totals of the same days.

## Not modelled, and the plan

Numbers: technicals, patterns and the offline evaluation
(`score_backtest.py`, `evaluate_score_ic.py`) are floating-point statistics that
change no shared state; of the score, the rules are modelled and the last
rounding is not. Text: feeds, relevance and wording are abstracted to "any
headline that names the ticker", and an insider's position and trade to a kind.
Time zones: `DailySchedule` has a wall clock without clock changes.
One update at a time: `EodUpdate` and `PriceStore` take it from
`concurrencyPolicy: Forbid` and from the daemon's blocking call; what
overlapping transactions do to the panel is in `RecentNews`. The dashboard reads
once and draws. The migrations run one transaction per file from one process.
Of the service worker, the pages and assets it keeps and the change to a new
`CACHE_VERSION` are left out: what is said of them, that a page never meets old
assets, rests on content hashes. Configuration and the deployment are read once.

Left of the plan, in this order:

1. Operators against reference definitions: quality checks, `select_recent`,
   rolling windows.
2. `Migrations`: files, the table of applied versions, a kill between two.
