# PriceCrawler in TLA+

PriceCrawler collects the prices of an online grocery. A worker started once a
day refreshes a catalog of product URLs and visits the products that are due;
PostgreSQL holds the catalog, a work queue and the price history; a web
dashboard shows the runs. This directory holds TLA+ modules translated from the
C#, SQL and PowerShell sources, TLC configurations that check them on small
instances, and proofs that TLAPS checks for every value of the constants.
Source paths below are relative to the repository; `PROJECT.json` names, for
every definition, the lines it stands for.

    tlc -workers 2 -config MCQueueDrain_mixed.cfg MCQueueDrain.tla   # a run
    tlapm CollectProductPricesProofs.tla                            # the proofs of a module

## 1. The system

| component | code | state | operations | who it meets |
|---|---|---|---|---|
| Price collection queue | `db/routines/020`, `PriceCollectionQueueProcessor`, `QueueRetryPolicy`, queue part of `PgCrawlerRepositories` | `price_collect_queue` rows: status, attempt, next_attempt_at, lease_until; the loop and up to MaxConcurrency handlers | enqueue, reserve batch, mark succeeded / retry / dead, reap expired, has outstanding; reap - reserve - work - wait | called by both price use cases; calls the extractor, the observation routine, the callbacks of its caller |
| Price collection use case | `CollectProductPricesUseCase`, `RunOutcomePolicy` | one `crawler_run`, one `ingestion_run`, the reserved catalog rows | start, select and reserve, enqueue, release, drain, judge, close; two catch paths | the catalog, the queue, the run tables |
| Product catalog | `db/routines/040`, `PgProductCatalogRepository`, `ProductCatalogBatchPreparer` | `product_catalog` rows: is_active, next_check_at, last_checked_at, reserved_until, last_discovered_at | upsert discovered, deactivate missing, get due, mark checked / failed, release | written by refreshes and collections that may overlap |
| Catalog refresh | `RefreshProductCatalogUseCase`, `PgProductCatalogRefreshRepository`, `CatalogRefreshSafetyPolicy` | `product_catalog_refresh` sessions, `crawler_run` | start (giving stale sessions up), count, discover, upsert, judge, deactivate, complete / fail / cancel | other refreshes, alive or dead; the catalog |
| Request pacing | `VarusRequestCoordinator`, attempts of `VarusProductCardExtractor` | token bucket and its queue, breaker time, failure counter | acquire, mark failure, mark success, retry with back-off | shared by all handlers of a process |
| Scheduled run | `Scripts/scheduled-run.ps1`, `register-scheduled-task.ps1` | day marker, named mutex, exit code | check marker, lock, prepare, refresh, collect, back up, mark, release | Task Scheduler, the operator, the worker, the session a killed refresh leaves |
| Worker console | `PriceCrawler.Worker` | none | argument parsing, one command per process, exit codes | the use cases |
| Legacy crawl | `RunCrawlerUseCase`, `RunsController.IngestVegetables` | one `crawler_run`, one `ingestion_run`, a queue of pages | discover, start, enqueue, drain, judge, close; a catch block | started by the worker and by the dashboard, whose crawl ends with its request; writes observations |
| Observation | `db/routines/030` | `product`, `price_snapshot` | find by address or external id, lock, update or insert, compare with the latest snapshot, append | handlers of any number of runs |
| Category discovery and tree | `CategoryProductUrlDiscoverySource`, `CategorySeedProductUrlDiscoveryStrategy`, `PgCategoryRepository` | category tree, product links | page through a category, sync the tree, link products | the refresh; the shop, which changes meanwhile |
| Sitemap discovery | `SitemapDiscovery`, `SitemapReader` | none | download and filter sitemaps | the refresh |
| Run statistics | `db/routines/010`, `050` | counters, stage timings, `crawl_error` | write, read by the dashboard | all runs |
| Schema startup | `DatabaseSchemaInitializer`, `SchemaBootstrapper` and others | schema and its version | initialize, migrate, validate | web and worker, at the same time, in Development and Test |
| Deployment | `Scripts/deploy-*.ps1`, `backup-database.ps1`, `build-release.ps1` | lock file, PID records, current release, schema, state file | lock, back up, stop, migrate, extract, switch, start, check; a catch and a finally block | other runs of the script, dead or alive; the running services |
| Provisioning | `Scripts/initialize-database-environments.ps1`, `provision-database-runtime-roles.ps1` | databases and roles | idempotent setup | an operator |
| Dashboard page | `wwwroot/js/runs-dashboard.js` and the controllers it asks | selections, tables, card, live comparison, tokens of requests | choose, reload, refresh, analyse, compare; one handler per answer | the server, whose answers come in any order or not at all |
| Queries, grids, progress | `Queries/Runs`, `CrawlerProgressState` | none that is stored | read and render | the tables |

Each database routine is one transaction; between two calls anything may
happen. A call can fail, or commit and lose its answer: to its caller the two
look the same. This is what most of the code's catch blocks are about, and what
most of the hazards in `PROJECT.json` are about. What makes each component right:

- *Queue*: one handler at a time owns a row although nothing in SQL checks it;
  a verdict is final; what is said to be done was stored; the drain returns
  only when everything is settled, and does return.
- *Use case*: a run is recorded `ok` only when complete, the two run rows agree,
  nothing stays open, reservations come back.
- *Catalog*: two collections do not work on one row inside its reservation;
  reservations do not leak; the selection starves no product, as long as
  listing pages leave it room.
- *Refresh*: one running session; closed sessions stay closed; a session given
  up by another refresh cannot become a success; deactivation spares what the
  refresh has just found, at any overlap.
- *Pacing*: the breaker opens in time, few requests slip past it, the limiter
  refuses a call only when more of them share the process than it is sized for,
  every call ends.
- *Scheduled run*: one run at a time, one successful collection a day, the
  marker and exit code 0 tell the truth, and a killed run does not cost the day.
- *Legacy crawl and observation*: an answer is what both run rows say; the
  history of a product written from two crawls is one of changes.
- *Categories*: the stored tree is whole after any sequence of menus; a product
  that stays keeps its links; a quiet category is linked to what it lists.
- *Deployment*: one run at work, no service beside a migration, what a failed
  run leaves behind is found by the next, nothing missing after one that succeeded.
- *Dashboard*: the card, the comparison and the grid are of what is selected,
  and nothing stays "loading".

## 2. Modules

| module | stands for | variables |
|---|---|---|
| `QueueContract` | what a drained queue promises, with no attempts, leases or failing calls | `verdict`, `held`, `closed` |
| `QueueDrain` | queue rows, loop and handlers of one run | rows: `status`, `attempt`, `due` (next_attempt_at <= now), `expired` (lease_until < now); `loop`, `pc`, `copy` (the attempt read at reservation), `inCatch`; sinks: `stored`, `errored`, `catalog` |
| `LeaseContract` | what one collection does with its reservations, with no queue, calls, run rows or ranks | `held`, `working`, `kept`, `loose` |
| `CollectProductPrices` | the use case around `QueueDrain` (EXTENDS it) | `phase`, `run`, `ingestion`, `verdict`, `answer` |
| `CatalogRefresh` | refreshes that overlap, with a clock in ticks | `session`, `started`, `run`, `phase`, `found`, `discoveredAt`, `active`, `seenBy`, `lastSeen`; history: `behind` (the longest any upsert came after its discovery) |
| `CatalogLeases` | collections that overlap, seen through their reservations, beside deactivation and rediscovery | `active`, `due`, `reserved`, `rank` (order by last_checked_at), `work`, `enqueued`, `orphaned`, `loose` |
| `RequestCoordinator` | calls of any number of crawls and live checks at the breaker and bucket of one process, one interlocked operation a step | `pc`, `attempt`, `age`, `failures`, `until`, `tokens`, `line`; history: `slipped`, `hot` |
| `ScheduledRun` | the hourly task and runs by hand | `now`, `marker`, `mutex`, `pc`, `today`, `todo`, `session`; history: `collected`, `finished`, `trouble` |
| `LegacyCrawl` | vegetables crawls side by side, down to the statements of `price_observation_store` | `phase`, `cancelled`, `run`, `ingestion`, `answer`, `pages`, `visit`; tables: `rows`, `history`; the shop: `shop`; history: `newest`, `late` |
| `RetryPolicies` | the failures of one product over many runs, and how long it waits after each, in the queue and in the catalog | `baseDelay`, `maxDelay`, `failures`, `wait`, `throttled`, `errors`, `rest` |
| `Categories` | refreshes at their category step, against a shop that changes | the shop: `shop`; `phase`, `job` (a refresh's tree, seeds, page, listings), `catalog`, `parent`, `active`, `links` |
| `Dashboard` | the asynchronous state of the page of runs | selection: `selectedTreeNode`, `selectedSnapshotId`; tree, grid, card and live check with their requests in flight and tokens |
| `Deployment` | runs of `deploy-production.ps1` on one machine | `phase`, `lock`, `judged`, `owned`; `procs`, `pidFile`, `listening`; `schema`, `releases`, `currentNew`, `current`, `state`; history: `overtaken`, `last`; `known` (what `$script:WebProcess` and `WorkerProcess` hold), `lost` (never recorded), `spared` (a stop of a known process failed) |
| `*Proofs` | the theorems about the module of that name; those of `QueueDrain` are in `CollectProductPricesProofs`, which builds on them, and those of `RequestCoordinator` and `Categories`, which the crawler's requests and pages go through, in `CrawlerProofs`; those of `RetryPolicies` in `CatalogLeasesProofs` | |
| `MC*` | model values and definitions for TLC | |

How code becomes actions:

- **A handler of the queue** (`ProcessQueueItemAsync`) is the path `fetch`,
  `store`, `note`, `callback`, `mark_ok`, or over `retry`, or `dead_note`,
  `dead`, `dead_cb`; each element is one call. A call that throws goes to the
  catch block (`inCatch`), which settles the row again as a transient failure
  with the attempt the handler read. An exception inside the catch block is
  logged and the handler is gone. A listing page enqueues the products it links
  to (`enqueue`). The page itself is a choice: card, transient or permanent
  failure.
- **The loop** reaps when its timer has passed, reserves a batch, waits for all
  its handlers (`Join`, the end of `Parallel.ForEachAsync`), and returns when
  nothing is outstanding. Cancellation may be seen at each of these places.
- **The use case** is one action per statement of `ExecuteAsync`; `Kill` may end
  the process anywhere, `CancelledCall` makes the next call throw.
- **A refresh** is one action per call, with its four ends: returned (`over`),
  an exception nobody catches (`escaped`), swallowed in `FinishFailureAsync`,
  undone after cancellation. The discovery yields any non-empty set, fails, or
  throws the cancellation of an HTTP timeout. `leased` in `DeactivateMissing` is
  any set of rows: `CatalogLeases` has the reservations, and `CatalogRefresh`
  over-approximates them, so what holds there holds beside any collection.
- **A collection in `CatalogLeases`** is what `QueueDrain` and
  `CollectProductPrices` do to catalog rows: it selects, enqueues, and each row is
  marked, marked early (settling failed, the row comes again), settled without
  a mark, or lost. `Last` is the new `last_checked_at`.
- **The coordinator** takes no lock. Incrementing, reading the clock,
  comparing, exchanging and clearing are separate steps, and the clock may move
  between reading it and clearing the counter (`MaxStall`). A client is a call:
  a product's, with its attempts, or one for a listing or category page, which has
  one. It is one object per process. The worker runs one collection in a process,
  with MaxConcurrency handlers; the web can run several crawls and live checks at
  once, which share it, so `Clients` has no bound in the model and the queue can
  refuse (`AcquireRequestSlotAsync` throws outside the extractors' try blocks, the
  call is over).
- **A crawl of `LegacyCrawl`** is one action per call of `RunVegetablesAsync`.
  Its queue is the one of `QueueDrain`, reduced to pages to do, succeeded and
  dead. A visit reads the page (`Extract`), finds and locks the row and reads its
  latest snapshot (`FindProduct`), and writes (`UpdateProduct`, `InsertProduct`):
  another crawl may come between, as far as the row lock and the unique address
  let it. `Cancel` is the browser leaving; every call after it throws.
- **A refresh in `Categories`** reads the menu (`ResolveSeeds`), then one page a
  step (`ReadPage`), with the stop reasons in the code's order. `List` and
  `Unlist` change the shop between two pages, so products shift. `SyncTree` and
  `LinkProducts` are one transaction each.
- **The page of `Dashboard`** runs a handler to its end in one step, as a browser
  does. A request is a token in flight; its answer is a later step, once, in any
  order, or a failure. The Kendo widgets are external: the grid's data source
  keeps one request in flight and one behind it, the tree's keeps none back.
- **A run of `Deployment`** is one action per phase of the script, more where a
  phase has a window: the lock is read, removed and created in three steps, the
  schema is read before it is migrated, `current` is moved out before
  `current.new` is moved in. A process is started, then recorded
  (`RecordComponent`), then the message about it is written and the function
  returns it to the script (`ReturnComponent`): only then the catch block knows it.
  `Announce` is the last message, after the final result was set. `Throw` leads to
  the catch block, which begins with a message of its own: `LogFailure` either
  goes on to the two stops or ends the run there. The stops of the catch, and the
  removals of PID records and of the lock, may fail without anyone noticing
  (`SilentlyContinue`). `PhaseThrows` may end any phase and `Killed` the script
  anywhere, the catch block included; a web exits by itself.
- **A product in `RetryPolicies`** fails for now and waits in the queue of its run
  (`Retried`, with any jitter), or for good and rests in the catalog (`Died`, also
  counted twice, since a mark whose answer is lost makes the page fail again), or
  is checked. Delays are computed as the code does, with the test before the
  multiplication that keeps it from overflowing.
- **A scheduled run** goes through the script's steps; the clock counts hours
  and moves only while worker commands run. The task is due every hour from
  `StartHour` to `EndHour` (StartTime and RetryHours later, the same day, as the
  defaults 08:00 and 14 have it).

Bounds that are not in the code, all named constants: `MaxFaults` (failing calls,
power cuts), `MaxTime` / `MaxNow` (clock), `MaxByHand`, `MaxCommand`, `MaxStall`,
`MaxChanges` (of the shop), `MaxStarts` (refreshes), `MaxGestures` (of the user),
`MaxNumber` (configured delays), `MaxErrors`
(failed runs in a row), `Vanishing` (rows a refresh may miss). Proofs hold for every value of them.

`QueueContract` is the abstract specification: `QueueDrain` implements it under
the mapping at the end of `QueueDrain.tla`. Rows that wait or are reserved are
`open`, and the rows with a handler, or about to get one, are `held`.

`LeaseContract` is the second one, and what ties the two views of a collection
together. `CollectProductPrices` has the calls of one collection and the queue
below it, but the catalog to itself; `CatalogLeases` has many collections at one
catalog, each reduced to its reservations. Both implement the contract, the
first alone (`Lease`, `Shared <- {}`), the second once per collection, with
everything else as the environment (`Collection(c)`, `Shared <- Products`): a
collection reserves while it has no rows, hands back before it begins
what it will not work on, then one row at a time, never a row it has not, and
none after its end. For the use case `held` is what it selected until the drain
begins, and then the seeds that wait, are reserved, or have a handler; `working`
is the drain. In `CatalogLeases` a row that lost its reservation is `loose`;
alone, that happens only when it was marked and comes again.

## 3. Runs

The passing runs, with their number of states:

| run | instance | properties | states |
|---|---|---|---|
| `drain_mixed` | a listing and a product seeded, a second product to be discovered; 2 attempts, batches of 2, 1 fault; beside it one product in `RetryPolicies`, delays from -1 to 12, numbers to 40, 5 doublings, 5 attempts, 7 errors | `IInv`: types, counted attempts, settled and accounted rows (`TerminalRowsAreAccountedFor`), the inductive invariant; `HandlerOwnsRow`; `ImplementsContract`: refinement of `QueueContract`; `DelaysGrowToTheirCap` | 313 000 |
| `collect` | the mixed queue below the use case, 1 attempt, 2 faults, threshold 40 %, fair | `CollectIInv`: types, what each statement relies on, answers are recorded (`OkAnswerIsRecorded`); `OkRunIsComplete`; `RunsAreClosed`, `ProductLeasesAreReturned`: no run row stays open, no reservation is kept behind an ok; `KeepsLeaseContract`: refinement of `LeaseContract`; `CollectEnds` | 153 000 |
| `refresh` | two refreshes, two products, clock to 3, timeout 1, grace 2, 1 fault | `RefreshIInv`: one running session, no success for an abandoned refresh; `ReturnedRefreshIsClosed`: each refresh that returns with its session open has met a failed call of its own; `SessionsAreFinal`; `DeactivationKeepsTheFound` | 2 017 000 |
| `leases` | two collections, limit 2, a listing and two products of one URL, one of which may vanish, 1 fault, fair | `LeaseIInv`: reservations come back; `WorkIsExclusive`; `CollectionsKeepContract`: refinement of `LeaseContract`; `EveryRowHasItsTurn` | 137 000 |
| `requests` | two calls where the limiter is sized for one, 1 request/s, threshold 2, interval 2 s, 2 attempts, a stall of 1 s, fair | `RequestIInv`: few slip past the breaker; `PauseComesInTime`; `RefusedOnlyInACrowd`; `CallsEnd` | 14 000 |
| `schedule` | the task and one manual run (twice), a day of 7 hours, due from hour 1 to hour 5, refresh on day 0, timeout 2, commands of up to 1 h, clock to 9, 3 faults | `RecoveryIInv`: one run at a time, exit code, the hours trouble lasts; `MarkerIsEarned`; `OncePerDay`; `RecoveredTheSameDay` | 339 000 |
| `crawl` | two crawls (worker, dashboard) of two pages that are one product by its external id at different prices; 1 change, 1 fault | `LegacyIInv`: answers are recorded, locked rows stand still; `HistoryIsOfChanges`; `LatestIsNewest` | 1 052 000 |
| `categories` | two processes, three refreshes, three categories in four menus (one a chain turned round), three products, one to a page, 2 pages, 1 change, 1 fault | `CategoriesIInv`: the stored tree is whole, and what was read of a category so far; `StayingProductsKeepLinks`; `QuietLeavesAreLinked` | 1 986 000 |
| `dashboard` | two tree rows, one with two snapshots and one with another, 5 gestures, fair | `DashboardIInv`: card, awaited answers and live check agree with the selection; `LiveResultIsCompared`; `GridFollowsTheTree`; `LoadingEnds` | 47 000 |
| `deploy` | three runs from schema 1: two of release 2, the second replacing it, one of release 3; 2 faults | `DeploymentIInv`: who has the lock, recorded processes, completed work; `MigratesAlone`; `FailureIsContained`; `SuccessIsWhole` | 2 425 000 |

Why the bounds suffice. A handler's catch block is entered by one failing call
and left by a second, so the two faults of `collect` reach every path of a
handler; interference between rows is through the batch and the loop only, so
two rows with a third discovered late exercise it. Two attempts distinguish the
first, a retry and the last. The queue and the delays share no variable, so
`drain_mixed` explores each from the first states of the other and not their
product; a base delay of 12 overflows 40 at its second doubling, one of 1 reaches
the shift at which the catalog stops doubling. For the refresh, one refresh must become stale, be
given up and go on: two of them, a clock of three ticks beyond a timeout of one
and a grace of two. Deactivation needs a row that one found and the other did
not. Two collections and an expiry give every order of reservations; three rows
and a limit of two give a row that has to wait. In `schedule` three faults let a
refresh be killed, the retry fail and the backup fail; nine hours cover a day,
its midnight and the next start, and an evening hour after the last repetition.
`requests` has more calls than the limiter is sized for, so that refusals happen;
it was also explored with three calls and threshold three. In `crawl` two writers of one row give every order
of find, lock, compare and append, and a changed price makes the history grow
twice. In `categories` one change is enough to shift a product over a page
boundary that has been read; the third refresh sees what the first two left. In
`dashboard` five gestures are a tree row, a snapshot, a live check and two that
overtake them. In `deploy` two faults leave a stale lock and fail the run that
judges it; the third run meets what both left. The processes of `categories`
start a bounded number of refreshes and the user of `dashboard` stops, so these
two end, and deadlock is not checked there.

Violation runs, each of one statement of the documentation:

| run | statement | what the code does |
|---|---|---|
| `refresh_doc_errors_finalized` | `docs/architecture.md:144`: counters are finalized on errors and cancellation | an HTTP timeout is a `TaskCanceledException` that no catch takes; session and run stay `running` |
| `crawl_doc_failure` | `docs/architecture.md:22`: on failure the crawler run is marked `Error` | the catch block closes the runs with the token whose cancellation it caught: the first call throws, both runs stay `running` |

Disagreements met while modelling that no run is kept for:

- `docs/QueueOptions.md:18`: MaxAttempts is the largest number of attempts for a
  URL. A reaped row comes back without its attempt counted, so a URL whose
  failures could not be recorded is visited more often; `IInv` bounds the
  uncounted visits by the failed calls.
- `README.md:306`: the scheduling state of the catalog is updated after the final
  success or death. A listing row is marked succeeded without the callback
  (`PriceCollectionQueueProcessor.cs:343`) and keeps its reservation and due time.
  Its `last_checked_at` stays null, so after the reservation it is first in the
  selection again. With as many listings as a selection takes the products starve:
  `EveryRowHasItsTurn` has `Cardinality(Listings) < Limit` as its premise, and
  without it the run's instance with a limit of 1 shows two collections that take
  the listing in turns while both products stay due for ever. Nothing in the code
  bounds the listings; they are urls that discovery let into the catalog.
- `VarusRequestCoordinator.cs:44`: the limiter's queue holds what one collection
  needs. The web's coordinator serves every crawl started from the page
  (`RunsController.cs:38`) and the live checks (352-369) together; more than it
  holds are refused with an exception that no extractor catches, which fails the
  row or the check. `RefusedOnlyInACrowd` says how many must be waiting for that.
- `docs/CrawlerOptions.md:96`: refresh and run do not diverge in their terminal
  status. A cancellation between the completing routine and the statistics call
  leaves the session `ok` and the run `error` (`RefreshProductCatalogUseCase.cs:350`).
- `docs/CrawlerOptions.md:25`: RequestsPerSecond is the target limit. Rates below
  one run at one request a second; the worker ships 0.5.
- `README.md:29`: the Product Card shows the selected snapshot. When the tree row
  changes while an analysis is awaited, its token stays valid
  (`runs-dashboard.js:1153`) and the late answer puts a card up although no
  snapshot is selected; `CardIsOfTheSelection` speaks of selected snapshots only.
- `CategoryProductUrlDiscoverySource.cs:192`: only a category read to its last
  page proves that a product has left it. It does not when a product moved to a
  page already read; `StayingProductsKeepLinks` excepts the categories that lost a
  product meanwhile. And a category that has become empty stops with
  `NoNewProductUrls`, is not complete, and keeps its links.
- `deploy-production.ps1:829` (and `deploy-stage.ps1:802`): the previous `current`
  is to come back when the switch fails. `-and` is read there as an argument of
  `Test-Path`, which throws, so `current` stays away until the next run.
- `deploy-production.ps1:564`: the deployment lock is exclusive. Two runs that
  judge one stale lock both remove it, the later one the lock of the earlier:
  `overtaken` marks it, and the properties of `Deployment` hold as long as it is
  false.
- `docs/production-deployment.md:58`: newly started processes are stopped when the
  deployment fails. Not one whose PID record could not be written, which the script
  forgets (`lost`); not one that was recorded but whose message
  (`deploy-production.ps1:522`) could not be written, since the variable the catch
  block reads is set after it; none if the catch block's own message (861) throws;
  and not one whose stop fails, which `SilentlyContinue` hides (862-863).
  `FailureIsContained` says what remains: a known process outlives a failed run
  only if that message or its stop failed, and a recorded one is in the PID file,
  where the next run finds it.
- `deploy-production.ps1:857`: the result "Success" is set before the last message
  is written. If that throws, the run fails and stops its processes, and the
  report still says that it succeeded.
- The backup of a deployment is taken while the services still write.

## 4. Fairness

Safety needs none. For liveness:

- `collect`: weak fairness of the loop, of each handler and of the reaper timer
  (the tasks are scheduled, HTTP requests have time-outs), of the clock passing
  `next_attempt_at` and `lease_until`, and of the statements of the use case.
  Faults and cancellation are not fair; that faults are finitely many is the
  bound `MaxFaults`.
- `leases`: a collection is started again and again and goes on while it runs,
  reservations expire. Nothing makes rows due, deactivates or finds them.
- `requests`: each call's step weakly, and the clock strongly: it goes on however
  many calls are refused meanwhile, since a refusal is no way to stop time.
  `CallsEnd` needs a threshold
  not below the number of calls at a time: with fewer, those under way can open the
  breaker again each time before one that waits gets by (a run with three
  handlers and threshold two shows it). The worker ships a threshold of 20 for 2 handlers.
- `dashboard`: every request is answered or fails, as browsers see to; nobody has
  to touch the page.
- `schedule` states recovery as an invariant of hours passed since the last
  fault; it needs no fairness.

## 5. Proofs

All theorems hold for any finite sets of rows, products, refreshes, collections
and handlers, and any value of the limits, under the named assumptions of each
module (`QueueAssumption`, `RefreshAssumption`, `LeaseAssumption`,
`RequestAssumption`, `CategoriesAssumption`, `ScheduleAssumption`,
`LegacyCrawlAssumption`, `DeploymentAssumption`, `DashboardAssumption`,
`RetryPoliciesAssumption`, `ThresholdAssumption`): sets are finite, numbers natural,
limits at least one, a stall is shorter than the interval of the breaker, a
configured delay is a number of ticks, and in a menu every category lies below a root. TLC evaluates them in the runs.

- **`CollectProductPricesProofs`**, the queue: `Invariance` (`IInv`), and from it `TypeCorrect`,
  `Ownership`, `Attempts`, `Accounting`, `Settled`, `Recorded`, `Finality` and
  `Implementation` (refinement of `QueueContract`). `HandlerOwnsRow` is not
  inductive: whether a settling call hits the row its handler owns depends on
  what the handler has done before, in particular inside the catch block. `HandlerSteps`
  says what each place of a handler relies on, `RowAttempts` bounds the
  attempts of rows by status, `VisitsPaid` keeps the account of uncounted
  visits against failed calls through a handler's life.
- **`CollectProductPricesProofs`**, the use case: `CollectInductive`, and from it
  `CollectOkIsComplete`, `CollectAnswersTruly`, `CollectClosesRuns` and
  `CollectReturnsLeases`. A step of the drain keeps `IInv` because it is a step
  of `QueueDrain`; the other steps touch the queue from outside, by letting rows
  in before the loop starts and by writing product leases of rows that have not
  succeeded, which `OutsideIInv` shows harmless. `CollectIInv` adds per phase
  what rows, leases and the two run rows look like. It needs two things beyond
  the properties: an exception has a cause (`ExceptionsHaveACause`), so without
  failed calls and cancellation no catch is entered; and a dead row has its lease
  back unless its callback is still to come. In any run that gets as far as its
  verdict only dead rows can have kept theirs (`OnlyDeadKeepTheirLease`): a
  succeeded one passed its callback, one not accepted was released before the
  drain. `CollectKeepsLeases` is the
  refinement of `LeaseContract`. Most steps touch no reservation and leave the
  collection without rows (`LeaseLeft`); a step of the drain is the contract's
  step for the row of the handler that took it (`HandlerLeasesOne`), which that
  handler has because it owns its row (`HandlerOwnsRow`), and the callbacks leave
  no reservation (`CallbackMarks`).
- **`CatalogRefreshProofs`**: `RefreshInductive`, `RefreshSafety`, the action
  properties `SessionsStayClosed` and `DeactivationIsSafe`. `RefreshIInv` adds to
  the properties that a session exists once the start returned, that statistics
  follow a closed session, and `FoundStayFresh`: rows a refresh found were last
  seen no earlier than it found them until it deactivates, whatever others
  upsert or deactivate in between. The lemma `SafeShare` carries the rounding
  of the safety policy. The time a row was seen is that of a discovery, and an
  upsert writes it later; `behind` remembers the longest delay of any, and the
  grace period protects what was found for as much less (`Soon`).
  `RefreshReturnsClosed` counts: no more refreshes return open than calls have
  failed, whichever failed. It needs in addition what the last calls of each of
  the four ends have left to do (`Endings`).
- **`CatalogLeasesProofs`**, the reservations: `LeaseInductive`, `LeaseSafety`. The
  missing piece is `HeldUnlessLoose`: whoever is to deal with a row has its
  reservation until the row is loose. `CollectionsImplement` shows, for every
  collection and every step, the step of `LeaseContract` it is: what another
  collection hands back was its own, so a row both have is loose
  (`OtherCollection`, from `WorkIsExclusive`), and what it selects was not reserved.
  It needs that a collection at work has rows (`EnqueuedHasRows`), hence that of
  the rows with one url one is accepted (`SomeAreAccepted`).
- **`CatalogLeasesProofs`**, the delays: `RetryInductive`, `DelaysGrow`, for any
  delays, number width, shift and number of failures. `TwoTo` is a recursive
  function, and that its recursion has a solution is shown without the induction
  theorems: a least natural number without a table of powers up to it would have
  one by extending the table before it (`PowersExist`, `PowersGoOn`), and two tables
  agree (`PowersAgree`). The test before the multiplication is exact
  (`QuotientTest`), so a delay is its multiple of the base or the longest
  (`CatalogDelay`), and delays grow however many errors were counted between two
  of them (`CatalogMonotone`). `WaitsAreOfTheLastFailure` remembers what the last
  wait was computed from.
- **`CrawlerProofs`**, the coordinator: `RequestInductive`, `RequestSafety`,
  `RefusalTakesACrowd`, `AloneNobodyIsRefused`. The
  threshold is passed by at most the calls that have counted but not yet
  opened (`Pending`), so the invariant bounds `hot` by `Threshold + |Pending|`.
  A call waits in the limiter's queue once (`InLineOnce`), so the permits in the
  queue are ten for each call in it, and a queue without room for another holds
  as many calls as it is sized for. The corollary is the worker's case: with no
  more calls than one collection has handlers nobody is ever refused.
- **`CrawlerProofs`**, the categories: `CategoriesInductive`, `StayingKeepLinks`,
  `QuietAreLinked`. The stored tree is whole because the menu that replaces it
  is: had some category no way up to a root, one of the least place among those
  would have its parent nearer to the root and yet not reached
  (`TreeIsReached`, by the least element of a set of numbers). For the links:
  as long as no product has left a category, an insertion moves products to
  later places only, so none that stays slips to a page that was read
  (`StayingAreRead`, with `InsertAtPlaces`); a category that does not change at all
  is read to its last page, whose length decides the stop reason (`QuietAreRead`,
  `PageIsPageOf`); and a refresh that runs alone took its time after every link
  was written (`AloneIsNewest`), so what it does not renew it removes.
- **`ScheduledRunProofs`**: `ScheduleInductive`, `ScheduleSafety`,
  `DayIsNotRepeated`. The invariant says who is inside the mutex, what the run has
  ahead of it, and that finished days do not exceed the marker, which is behind
  the day of a run under way. `RecoveryInductive` and `Recovers` are about hours:
  a session left running is no younger than the last trouble (`TroubleIsPast`);
  a run under way began at most `Spent` hours ago, on its own day
  (`TodayIsItsStart`); if the last trouble is further back than that and the
  running timeout, the run fails nowhere and writes its marker
  (`CalmRunsSucceed`); and an idle task has its day marked once the repetitions
  have left room for all that (`TaskIsNotPassedOver`): an hour in which the task is
  due, or a later one of the same evening, for which the hour before it has
  settled the matter (`EveningIsCalm`). `ScheduleIInv` alone is not enough: it does not
  know when anything began.
- **`LegacyCrawlProofs`**: `LegacyInductive`, `LegacyAnswersTruly`, `LegacyHistory`,
  `LegacyLatest`. Two crawls are between find and write of the same product at a
  time only if the row lock lets them, so what a visit has read as the latest
  snapshot still is when it compares (`LockedRowsStand`); an insertion starts an
  empty history. Observations have different times (`TimesDiffer`) and snapshots
  are no newer than the newest observation (`SnapshotsAreInOrder`); from these
  `ObservationStored` shows, for one row, that storing an observation keeps its
  history one of changes, a late one marked as such.
- **`DeploymentProofs`**: `DeploymentInductive`, `MigrationIsAlone`,
  `FailureIsBounded`, `SuccessStands`. A run owns the lock from its creation on, a
  stale lock is of a run that is over, so while no lock was overtaken whoever
  works has it and is the last to have taken it (`Alone`). Hence only the last
  run changes files, schema and records, and what it completed stands
  (`CompletedStands`); every process is recorded, between its start and its
  record, or lost (`ProcessesAreRecorded`), and the records the run at work has
  passed name no process that runs, whether or not the files could be removed
  (`RecordsAreRemoved`). `FailureIsBounded` follows with what the catch block has
  behind it: of the processes it knows none runs but those it tried in vain to
  stop (`CaughtAreStopped`).
- **`DashboardProofs`**: `DashboardInductive`, `ComparisonIsRight`, `GridIsRight`.
  Tokens are never given twice, so at most one analysis and one live request are
  still awaited, and those are of the selection (`AwaitedAnalysis`,
  `AwaitedLive`). For the grid: a request that none waits behind asks for the
  selected tree row (`GridAsksForTheTree`).

`Attempts`, `Accounting`, `Settled`, `Recorded`, `Finality`, `CollectAnswersTruly`,
`RefreshSafety`, `ScheduleInductive` and `LegacyAnswersTruly` state parts of the
invariants that no run checks under a name of their own.

Model-checked only: the liveness properties `CollectEnds`, `EveryRowHasItsTurn`,
`CallsEnd` and `LoadingEnds`, since liveness under fairness and ENABLED are beyond
the prover. Every other property of the passing runs is a theorem.

## 6. Not modelled

- What pages say: HTML and JSON extraction, sitemaps, URL rules. Their outcomes
  are choices.
- Statistics, stage timings and progress: written, never read by a decision.
- Schema startup: web and worker run it in Development and Test only, where the
  second of two on an empty database fails and its process ends; elsewhere they
  validate, and migrations are the deployment's.
- Two runs with `-Scheduled` at once: the Task Scheduler starts one at a time
  (IgnoreNew), and an operator's run is taken to be without the switch. That both
  may read the day's marker before either has the mutex matters for such a pair
  only.
- In the deployment a PID that another process has taken over, a query of the
  listening port that fails instead of answering, and an old `current.new` whose
  removal fails silently, so that files of it are left among the new ones.
- The Stage deployment has the phases of the Production one around a refresh of
  its database from a backup. Packaging, the checks of a package and of the Stage
  report, backups and provisioning are runs of external tools, one after the other.
- Queries, grids and DTOs change no stored state.
- `wwwroot` is some 760 000 lines of JavaScript, nearly all of it vendored widget
  libraries (DevExtreme, Kendo). The system's own script there is
  `runs-dashboard.js` with 1 642 lines, which `Dashboard` models apart from
  rendering, charts and layout; the widgets appear as the rules by which they
  send and keep back requests. The rest of the system is C#, SQL and PowerShell.

## 7. Plan

1. *Stage deployment*: the refresh of the database between stop and migration,
   as a second instance of `Deployment` with one phase more.
2. *Schema startup*: web and worker on one empty database, if it is ever used in
   Production.
