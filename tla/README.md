# TV List Aggregator in TLA+

A TLA+ development for `src/tv-list-aggregator`, a FastAPI service that crawls
TV programme lists from configured sources, checks the health of those sources,
serves the result over an HTTP API and ships a browser console. The service is
one Python process with one asyncio event loop, a relational database behind
SQLAlchemy, and an APScheduler job in the same loop. Paths below are relative to
`src/tv-list-aggregator/src/tv_list_aggregator/` unless they say otherwise.

`PROJECT.json` lists the components, the runs, a mutant for every property, the
source lines of every definition, the findings, the hazards and the theorems.

## 1. Inventory

| Component | State it keeps | Operations | Module |
|---|---|---|---|
| Circuit breaker, `infrastructure/resilience/circuit_breaker.py` | `_state`, `_fail_count`, `_opened_at` | `call`, `_on_success`, `_on_failure` | `CircuitBreaker` |
| Token bucket, `infrastructure/resilience/rate_limiter.py` | `tokens`, `last`, `_lock` | `acquire` | `TokenBucket` |
| Resilient fetcher, `infrastructure/http/client.py` | one bucket, one breaker, the attempt of each caller | `fetch` with tenacity's retry loop | `ResilientFetcher` |
| TTL cache, `core/cache.py`, used by `routers/dashboard.py` | `_store`, `_aio_lock` | `get`, `set`, `get_or_set`, `invalidate`, `clear` | `TTLCache`, `MonotoneReads` |
| Source life cycle: `_health_tick` of `app.py`, `scheduler/jobs/health_check_job.py`, `routers/sources.py` and their repositories | tables `sources` and `source_health` | tick, enable, disable, put, delete, create | `SourceLifecycle` |
| Aggregation: `domain/services/aggregation_service.py`, `_AggFactory` of `app.py`, `routers/admin.py` | table `programs`, jobs, three sessions per crawl | `crawl/{id}`, `crawl-all`, `run_once`, `upsert` | `Aggregation` |
| Web console, `interfaces/web/app.js` | tabs, active tab, one detail view, editor, tree, token, calls in flight | open, close, switch, edit, save, delete, refresh, login, logout | `Console` |
| Demo data, `interfaces/api/seed.py` | tables `sources`, `programs`, `jobs` | `seed_if_empty`, `reset_and_seed`, against creation and deletion of sources | `Seed` |
| Start-up and shutdown, `lifespan` of `app.py`, with `alembic/versions` and `db/models` | the tables there are, alembic's stamp, scheduler, closed client | migrate, create, seed users, auto-seed or not, serve, drain, shut down, die | `Lifespan` (extends `Seed`) |
| HTTP middleware and errors, `interfaces/api/middleware/` | in-progress gauge, id and exception of each request | the three layers on the way in and out, cancellation | `RequestChain` |
| Authentication, `core/security.py`, `routers/auth.py`, `auth_service.py` | table `users`, tokens at the clients | login, refresh, role check | `RequestChain`, `Lockout` |
| HTML scraping and LLM parsing, `plugins/`, `infrastructure/http/playwright_fetcher.py`, `infrastructure/llm/` | one lazily started browser, its contexts, the provider asked | `_ensure`, `fetch`, parser chain, router, m3u lines | `SourcePlugins` |
| Read-only endpoints, job clean-up, feedback, logging and probes | none of their own | see section 8 | not modelled |

How they interact. The scheduler calls the health tick every 300 s; the tick and
every crawl request call `fetch()` of the one fetcher, which queues in the one
bucket and then enters the one breaker. The tick and the admin endpoints write
the same rows in transactions of their own. The dashboard reads through the
cache. The console is a second process: its calls are handled and answered in
any order. Every request passes the three middlewares, and a write passes the role
check behind them. `lifespan` prepares the tables, users and demo data before the
first request, and stops scheduler, fetcher and engine after the last one.

What is hard, and which properties answer for it:

- *Verdicts out of order.* Between admission and verdict a call of the breaker
  holds no lock, so a verdict may belong to an earlier state of the breaker
  (`QuietAfterTrip`, `OpenIsProbedOrWedged`, `OpenIsStamped`).
- *Sleeping and loading with a lock held.* `acquire()` sleeps and `get_or_set`
  awaits its factory under an `asyncio.Lock`; cancellations and failures must pass
  the lock on (`NoOrphans`, `FactoryHoldsLock`, `EveryCallEnds`, `FetchReturns`, and the
  proved `SleeperHoldsLock`).
- *State read before an await and written after it.* The tick works on copies of
  sources that may be minutes old (`NoResurrection`); the cache stores what a
  factory read earlier (`MonotoneAnswers`); the page renders answers of tabs that
  are no longer active (`CrossWriteNeedsCtrlS`), and an answered delete closes the tab that
  is active by then (`TabsAreSound`, `ShownIsActive`).
- *Several sessions in one operation.* `run_once` and its repositories do not share
  a transaction (`SuccessIsSaved`), the tick has one
  transaction for all sources (`PauseHasItsStreak`, `StreakIsExact`).
- *Crashes between two transactions*: `reset_and_seed` (`BatchIsWhole`,
  `DemoReturns`, `SeedIsIdempotent`).
- *Row locks taken in the order of the feed* (`CrawlIsAnswered`, `DisjointFeedsNeverDeadlock`).
- *Layers around an await.* A request can fail, be refused or be cancelled at every
  layer, and the layers share a gauge, an id and the order of the except clauses
  (`GaugeIsPaired`, `AnswerNamesRequest`, `RetryIsTransient`).
- *Credentials older than the table.* Logins decide on a user read earlier, refreshes do
  not read it at all, answers arrive late (`LockoutHolds`, `AdminWasAdmin`).
- *A lazily started resource shared by tasks.* Two first fetches race, tasks are
  cancelled while something is being opened for them, the browser dies, calls on it fail
  half-way (`StrayNeedsRaceOrCancel`, `ContextsAreClosed`, `DeadBrowserIsFinal`, `ScrapeEnds`).
- *Shutdown against work in progress, and start-ups configured differently over one
  database* (`ShutdownIsNoFailure`, `UnstampedIsFinal`).

## 2. Modules and the code

Each module's header says what its abstractions are. The essentials:

**CircuitBreaker.** The regions under the breaker's lock contain no await, so each
is one action: `Admit`, `Reject` and `AssertFails` are the three ways through the
prologue of `call()`, `OnSuccess`, `OnFailure` and `Cancel` the three ways out of
`await func()`. `Cancel` is there because `CancelledError` is not an `Exception`
and leaves without a verdict. `_opened_at` is kept as an age that saturates at
`reset_timeout`, `_fail_count` saturates at `fail_max`; both are only compared with
these bounds. `sinceTrip` is a history variable.

**TokenBucket.** One tick refills one unit; a token costs `Cost`
units, so the float `tokens` is an integer. `asyncio.Lock` is fair, so the lock and
its waiters are one queue. `WakeUp` keeps `last` where it was before the sleep, as
the code does. `slack` is a history variable: a meter that fills at twice the rate up to
the burst and one token, and pays for every token granted. As it never runs empty
(`TwiceTheRate`), the bound holds for every stretch of time, without a clock.

**ResilientFetcher** extends both (its own `Init`, `Next`, `Spec` begin with F; `FetchTasks`
declares the tasks that all three share): the grant of a token and the
prologue of the breaker are one step (no await between them), `Respond` reports a
success to the breaker before it looks at the status, and `Conclude` decides
between the next attempt and leaving. Only the length of the exponential back-off
is abstracted.

**TTLCache.** `get`, `invalidate` and `clear` are atomic; `get_or_set` is split at
its two awaits, the lock and the factory; `set` is the last step of
`get_or_set`, its only caller. A value is the version of the data the factory
read; `Change` is a write elsewhere that the cache is not told of. The factory of the
dashboard awaits four queries one after the other: the version is that of any one of
them, so what is shown holds of each of the four numbers; that the four need not be of
one moment is outside the model (section 8). `MonotoneReads` is the abstract
specification.

**SourceLifecycle.** A row is its status and one config standing for the other
columns. `update()` of the repository reads the row again and assigns every column;
SQLAlchemy sends the columns that differ from that read (`Merged`) at the next
flush. A flushed row is locked until the transaction ends; an update of a row that
is gone is `StaleDataError` (`TickStale`), which rolls the whole tick back.

**Aggregation.** The three sessions of a crawl are explicit: what `upsert` writes
belongs to the session of the factory (`held`, `blank`), which `EndRun` drops because
nobody commits it, after a success as after a failure; so `programs`, the committed
table, never changes, and a run is judged by what it records (`outcome`). Programs from `JSONParser` have no id and share the primary key
`""` (`IdIsFree`). Waiting for another session's rows and the database's deadlock
detection are modelled as the code meets them (external). `Merge`, the deduplication by key, is a recursive function over the feed.

**Console.** The page has one detail view with one editor. Every operation that
awaits a call is split there, the server handles calls atomically, answers arrive
in any order. A call may be lost before the server has acted on it (or be refused by the
rate limiter), and an answer after it. A source that is gone is a 404 for GET and PUT and a
204 for DELETE, whereupon the page closes its active tab like after any other deletion. A config is the source it was written for. `haste`
is a history variable that says whether the user ever acted with calls in flight,
and whether Ctrl+S was ever pressed over another tab's editor.

**Seed, Lifespan.** A batch is what one seeding inserts; its source ids are fixed, all
other keys contain the time. Looking, at the sources only, and inserting are two steps;
a reset is a transaction before that, which deletes programs, jobs and sources one after
the other. `CreateSource` and `DeleteSource` are the endpoints of the sources: they
decide whether the table is empty and whether a demo id is taken, and leave programs and
jobs alone. `freed` counts how often a DELETE left no demo id taken, `crossed` is a history
variable. `Lifespan` extends `Seed`
with what surrounds it: `Migrate`, `MigrateNot`, `Bootstrap`, `SeedUsers`, `AutoSeed` or
`NoAutoSeed` (`TV_LIST_AUTO_SEED`) and `StartScheduler` are the steps of the start-up in their order, with a new
configuration at every start and failures swallowed where the code swallows them;
`Drain`, `ShutDown`, `SchedulerStops` and `Dispose` are the shutdown. The health tick
appears here by where it waits (database, source, commit), because `fetcher.aclose()`
marks the client as closed in the same step in which `scheduler.shutdown(wait=False)`
posts its work to the event loop: whatever was ready to run runs once more (`stop` is
"posted", then "late"), on a closed client. `Die` is a crash in any phase.

**RequestChain, Lockout.** `add_middleware` puts the last one outermost, so the order
is ErrorHandler, AccessLog, RequestID, endpoint; a request is where it stands in this
nest, and requests of several clients interleave at every layer. `Raise` unwinds
through the layers (`ReraiseAccess`, `Problem`), `Clauses` are the except clauses in their
order, `Answers` what an endpoint says by itself (also the 503 of the admin routes, and
the 429 of `@limiter.limit` on the writes of sources, which may come at any time because
the limiter's counting is left out), `Cancel` is a client that disconnects, which no layer catches. `Login` decides on
the user that `ReadUser` has read; `Refresh` copies the claims of the old token;
`EditUser` is an operator's statement on the table, because no endpoint writes it. A
token is subject, role and remaining ticks. `Lockout` is the abstract specification of
what disabling promises, and `Promise` the refinement mapping: inside are the users
with a live token, held or in an answer, or with a login that has read them enabled.

**SourcePlugins.** `PlaywrightFetcher.fetch` is split at its awaits. `Scrape` looks at
`_browser`, `StartDriver` and `Launch` fill it, `NewContext`, `NewPage`, `Load`, `Close` are the
calls on it, each with its failure where the code's `try` puts it: a `new_page()` that
fails lies before the `try` and leaves the context open (`Abandon`), `LoadFails` goes through
`finally`. A task can be cancelled at each await: in `launch()` it leaves a browser that
nobody refers to (`CancelLaunch`, history `lost`), in `new_context()` a context
(`CancelContext`), in `new_page()` too (`Abandon`), in `close()` a context or none (`Abandon`,
`CancelClose`), depending on how far the driver has come; elsewhere, and where the driver
has not begun, nothing (`CancelQuietly`). The driver processes that `start()` leaves behind are not counted. `Crash` is
the browser process dying. Behind it the parser chain and the LLM router run
as sequences of outcomes. `Entries` is the line loop of `M3USource`, a recursive
function over the kinds of the lines.

Transactions are modelled at READ COMMITTED, the default of the PostgreSQL of
`docker-compose.yml`.

`MCCircuitBreaker` and `MCConsole` only add symmetry sets.

## 3. Runs

| Run | Checks | Shows |
|---|---|---|
| `breaker_assert` (violation) | `OpenIsStamped` | the assertion of `call()` fails once a success older than the trip arrives |
| `fetcher` | `ClosedBelowThreshold`, `QuietAfterTrip`, `WedgedIsFinal`, `OpenIsProbedOrWedged`, `SleepCoversDeficit`, `TwiceTheRate`, `NoOrphans`, `TripNeedsTwoFetches`, `FetchReturns` | threshold and quiet period survive every order of verdicts; while fetches go on, an OPEN breaker is probed again or ends wedged, and wedged is final; nobody leaves the bucket with less than a token paid, and the rate is at most twice the configured one; one dead source cannot trip the shared breaker by one fetch; every `fetch()` ends and leaves nothing behind |
| `cache` | `FactoryHoldsLock`, `OneFactoryPerMiss`, `MonotoneAnswers`, `EveryCallEnds` | the cache implements `MonotoneReads`; stampedes are absorbed; every call ends |
| `lifecycle` | `StreakIsExact`, `NoResurrection`, `PauseHasItsStreak`, `DeadLeavesRotation` | stale copies never recreate a deleted source; a pause and its count are committed together; the streak is exact but for rolled-back checks; a dead source leaves rotation whatever the admin does |
| `aggregation` | `SuccessCountsKeys`, `DisjointFeedsNeverDeadlock`, `AtMostOneNewProgram`, `CrawlIsAnswered` | what a run reports; a deadlock takes two feeds with a common programme, the one empty id is not enough; deadlocks end |
| `aggregation_saved` (violation) | `SuccessIsSaved` | a SUCCESS job has saved nothing |
| `console` | `TabsAreSound`, `CrossWriteNeedsCtrlS`, `ShownIsActive` | tabs stay sound; only a stray Ctrl+S writes one source over another; who waits sees the active tab |
| `console_login` (violation) | `LoginIsAccepted` | without any fault of network or server, the login form is answered with 422 |
| `lifespan` | `SeedIsIdempotent`, `BatchIsWhole`, `ShutdownIsNoFailure`, `UnstampedIsFinal`, `DemoReturns` | over starts, stops, crashes and edits of the sources: batches are whole; there is one, and one more for each deletion of the last demo source, unless a batch was stored inside a reset; an empty database is seeded again as long as starts with auto-seed recur; a shutdown never counts against a source; an unstamped database is never migrated |
| `requests` | `GaugeIsPaired`, `RetryIsTransient`, `AnswerNamesRequest`, `AdminWasAdmin`, `LockoutHolds` | the gauge is off by the cancelled requests only; an exception answered with 503 is transient; every answer has its id; nobody passes as admin who never was; the chain implements `Lockout` |
| `plugins` | `StrayNeedsRaceOrCancel`, `ContextsAreClosed`, `DeadBrowserIsFinal`, `M3UEntries`, `ScrapeEnds` | a browser without a reference needs overlapping first fetches or a cancelled `launch()`; a context is left only by what fails or is cancelled outside the `try` or in its `finally`; a dead browser is never replaced; the line loop against its definition; every scrape ends |
| `plugins_extinf` (violation) | `EveryExtinfIsEntry` | of two EXTINF lines in a row the second yields no programme |

Every property of a passing run has a mutant, a plausible slip in one mapped
definition, under which TLC finds that property violated.

### Bounds

- `breaker_assert`: two callers and a threshold of 2, the least that shows it.
- `fetcher`: two fetches (one is late, the other trips and probes; holder and waiter of
  the lock); `fail_max` 5 and four attempts as in the code, because
  `TripNeedsTwoFetches` is about these two numbers; `reset_timeout` 3 ticks, so that
  verdicts come before, within and after it; a token of 2 ticks, so that half tokens
  occur, and a burst of one token, so that both callers queue and the excess over the
  configured rate shows after two sleeps. The time is not bounded.
- `cache`: three tasks (holder, waiter, another key), two keys (one lock for both),
  a TTL of one tick, two versions of the data behind each key.
- `lifecycle`: two sources (a deletion of one rolls back the other), one of them dead,
  one request against the tick, threshold 2, one database fault, one re-creation of a
  deleted id.
- `aggregation`: two crawls with up to two sources and up to two items over four
  keys: a repeated key, two new programmes in one feed, feeds in opposite order, which
  deadlock, and feeds with nothing in common.
- `console`: two sources, two tab objects (an object is used again once nothing
  refers to it), two calls in flight so that answers overtake each other. `console_login`
  is the same without lost calls. The user
  stops after the first stray Ctrl+S; `CrossWriteNeedsCtrlS` is about all that comes
  before it.
- `lifespan`: two overlapping calls of the seeding functions (the batch stored between
  the DELETEs of a reset takes two), two demo ids (so that some, or all, are deleted) and
  another one, three batch names (the two there can be and a third that must not), one
  deletion of the last demo source, one crash; starts, stops, creations and ticks are not
  bounded.
- `requests`: two clients over one user, so that one login overtakes the other and the
  operator; a token lives two ticks, so that it can be renewed before and after the
  user changes; one exception class per except clause, one leaked request.
- `plugins`: two tasks (the race in `_ensure` needs two), three providers (primary, a
  fallback followed by another, the last one), three browsers (two from the race and
  the one no code path may launch), one context left open per browser, playlists of
  up to four lines: runs of four EXTINFs at either end of the list.

### Fairness

- `fetcher`: ready tasks run, timers fire, requests end (httpx has a timeout). Nobody
  must start a fetch; `OpenIsProbedOrWedged` therefore has it as its premise that fetches get
  as far as the breaker again and again, as they do by the health tick every 300 s.
- `cache`: ready tasks run and factories end; no call, change or expiry is promised.
- `lifecycle`: the scheduler fires, checks end by the fetch timeout, requests that have
  begun are carried through. Nobody must send a request.
- `aggregation`: fetches end, the database answers or breaks a deadlock.
- `lifespan`: a service that is down is started again, the steps of start-up and
  shutdown proceed, calls of the seeding functions that have begun go on. Nobody must
  stop the service, and no tick is promised. `DemoReturns` has it as its premise that the
  start-up comes to the seeding with auto-seed on again and again: with
  `TV_LIST_AUTO_SEED` "0" at every start it would be false.
- `plugins`: calls of browser and provider end. `launch()`, `goto()` and the calls of the
  providers have timeouts; `new_context()`, `new_page()`, `content()` and `close()` have none of
  their own: that the browser answers them or dies is an assumption. No cancellation is promised.
- `requests`, `console`: none; only safety is checked.

## 4. Proofs

`tlapm` checks the eight proof modules; every leaf is proved by Z3, Zenon or LS4. Every
safety property of the passing runs, invariant, action property or refinement, is
also a theorem. The theorems hold for any set of callers, tasks, keys, clients, users,
sources, tabs and crawls and for every value of the numeric constants allowed by the
named assumptions: `BreakerAssumption`, `BucketAssumption` and `FetcherAssumption`
(`fail_max`, `reset_timeout` and the number of attempts at least 1, a token costs at
least one unit and fits into the bucket),
`CacheAssumption` (a TTL of at least one tick), `LifecycleAssumption`, `AggregationAssumption`,
`ConsoleAssumption`, `SeedAssumption`, `ChainAssumption` and `PluginAssumption` (a TTL and a
provider at least; finitely many clients and tasks, since gauge and contexts are
counted). TLC evaluates them in every run. The inductive invariants were checked by
TLC on the instances of the runs before they were proved, all but one conjunct of the
console's types, which mixes strings and sets in one field.

**FetcherProofs** is about the fetcher and about its two parts.

*Breaker.* `BreakerInv` adds two facts to the types, the threshold and
`HalfOpenKeepsStamp`: the stamp of an OPEN breaker is never older than its trip, and a
trip less than `reset_timeout` ago means the breaker is OPEN. Both are needed for the
quiet period: late failures restamp, late successes erase the stamp, and neither may
let a call in early. `TypeCorrect`, `ThresholdSafe`, `QuietPeriod` (an action property) and
`WedgeIsFinal` follow. `SequentialIsStamped` proves `OpenIsStamped`, the property that
`breaker_assert` refutes, under the hypothesis that calls never overlap; its extra
invariant is that an OPEN breaker then has no call in flight.

*Bucket.* `TBInv`, the conjunction of the three bucket invariants, is inductive as it
stands (`BucketSafe`); the only work is what `RemoveAt` does to the queue when a waiter is
cancelled. For the rate `MeterCovers` is added: the meter `slack` can pay for all the bucket
could grant now, which is the refilled tokens while nobody sleeps, and while the holder
sleeps its tokens and twice the time since `last`, which is going to be credited both by
the sleep and through `last`. Taking a token, sleeping, waking and ticking each keep
it, and `RateIsAtMostTwice` follows.

*Composition.* `FetcherUsesBreaker` and `FetcherUsesBucket` are refinements: every step of the
fetcher, with its retries and cancellations, is a step of the breaker's `Spec` and
of the bucket's `TBSpec`, or leaves that part alone. What is proved of the parts alone therefore
holds in the composition (`FetcherKeepsQuiet`). `FetcherInv` adds to the invariants of the
parts that a task is in the queue exactly while it acquires and in the breaker exactly
while it sends (`NoOrphans`, theorem `NobodyIsLeftBehind`; it needs the queue to be free of
repetitions), and that a run of failures that one fetch alone has caused is no longer
than the attempts it has behind it (`RunIsBlamed`). From this `OneFetchCannotTrip`: whenever `MaxAttempts < FailMax`,
a trip takes two fetches; the code's 4 and 5 are one instance, and the hypothesis
is what a change of either number has to keep.

**TTLCacheProofs.** `CacheInv` consists of the types, `FactoryHoldsLock`,
`LiveIsLastAnswer` (a live entry is the version last returned for its key),
`SeenExisted` (that version existed) and `ReadIsNewer` (what the running factory has
read is not older than the last answer). The lock is what makes the last one
inductive: only the holder fills, so no other fill can come between a factory's
read and its own. `LockIsMutex` and the refinement `ImplementsMonotoneReads`
(`Spec => Reads!Spec`, initial states and steps) follow. `StampedesAreAbsorbed` needs
`MissInv`: the entry of a key that was filled while a task waited is live (expiry and
invalidation take the waiters out again), so the second look under the lock finds it.

**LifespanProofs.** `SeedInv` counts: a process that is
down has no call at work (`DownIsIdle`); and as long as no batch was stored inside a
reset, the batches of programmes and of jobs are at most as many as a DELETE has
freed the demo ids, plus one while a demo id is taken (`BatchesAreCounted`), and a reset
under way is going to delete all rows of the tables it has come to (`ResetTakesAll`). An
insert needs free demo ids and takes them, so it can use up the one; a deletion that
frees them raises `freed` instead. `SeedSafe` proves `SeedIsIdempotent` and
`BatchIsWhole` for the demo data alone; every step of `Lifespan` is a step of `Seed` or
leaves it unchanged, so `SeedSafeInService` follows for the whole life of the service.
`ShutdownSafe` needs `SchedulerInv`: a tick that has counted a failure on the closed client
has had its one late step, so it cannot commit. `UnstampedStays` needs only that the
tables are some of those that `upgrade()` creates.

**RequestChainProofs.** `ChainInv` consists of the types and, per client, of: every token
that exists, held or in an answer, carries a role its user once had (`TokensAreEarned`);
a login has a user, and what it has read of that user was in the table (`LoginIsOfUser`);
who is inside a write endpoint still holds the admin token that let it in
(`WriterIsAdmin`); behind the innermost layer the id is published (`IdIsPublished`).
`AdminSafe` and `AnswersAreNamed` follow. `RetrySafe` rests on `FirstClause`, what the first
matching except clause is for every exception class, and on an invariant that ties the
answer of a request to the exception it has raised. `GaugeSafe` shows that each action
adds or removes exactly one member of the set of counted requests when it changes the
gauge. `LockoutImplemented` is the refinement `Spec => Promise!Spec`: the ways in are
considered client by client, and only a login that reads an enabled user adds one.

**SourcePluginsProofs.** `PluginInv` adds to the types and the two properties that without
a race at most one task is starting a browser, and none while there is one
(`StartIsAlone`; a task cancelled in `launch()` starts none any more, its browser is `lost`), and that browsers not launched yet have no contexts
(`UnbornIsEmpty`). The contexts are counted over the set of tasks visiting a browser;
each action moves one task in or out. `StraySafe`, `ContextsSafe` and `DeadStays` follow.
`PlaylistsAreRead` proves `M3UEntries` for playlists of every length. It is an induction over
the lines in a form without an operator parameter: `LeastNat` gives every non-empty set
of naturals a least element, `SetInduction` concludes that a set with 0 that is closed
under successors is `Nat`, and the induction hypothesis is membership in such a set.

**SourceLifecycleProofs.** `LifecycleInv` says what the tick's open transaction may hold: an
idle tick holds nothing; a source whose check has not ended is not counted in it; a
row it writes reached the threshold in this very tick; a row it has locked exists,
because no request can delete it then; and the count, committed or in the transaction, is
the number of failed checks, except for sources with a check undone by a rollback
(`CountIsExact`). `StreaksAreExact` is the idle case of the last. `DeletedStaysDeleted` and
`PausesAreCounted` are action properties; `TickEnds` reduces both to the commit.

**AggregationProofs.** `MergeIsDistinct` shows, for a feed of every length, that `merge()`
keeps each key once (the same induction over a set). With it `AggregationInv`: the merged
feed is split into what is saved and what is still to come (`FeedIsSplit`), the counter is
the number of rows held (`SavedIsHeld`), at most one held row has the empty id
(`OneBlank`), at most one session holds such a row (`OneHolder`), nothing is held between
runs, and what is recorded of finished runs agrees with a table that no session has
changed (`Recorded`). `CountsAreKeys` and `SecondNewProgramFails` follow.
`DeadlocksShareAProgram`: in a cycle of waiting crawls without a common programme everyone
waits for the holder of the empty id, and that one, as `OneHolder` says, waits for nobody.

**ConsoleProofs.** `ConsoleInv` relates the places a tab and a config can be in. A tab
object that a call, the view or the strip of tabs still refers to is not used again, so
a call keeps the source of its tab (`CallsKeepTheirTab`); until a stray Ctrl+S, table, tab contents,
editor and bodies of loads and saves hold the config of their own source
(`ConfigsAreOwn`); and for a user who waits there is one call of the user at a time, for the
active tab, and the view lags behind only while that tab loads (`ViewFollows`).
`CloseEffect` is what `closeTab` does for any position of the tab, `HandledCall` what the
server does to a call. `TabsStaySound`, `OnlyCtrlSCrosses` and `PatientUserSeesActive` follow.

Only model-checked, not proved: the liveness properties `OpenIsProbedOrWedged`,
`FetchReturns`, `EveryCallEnds`, `DeadLeavesRotation`, `CrawlIsAnswered`, `DemoReturns` and
`ScrapeEnds`, since fairness and ENABLED are outside the prover; and the four violations,
which are counterexamples.

## 5. Findings with a run

- `breaker_assert`: `_on_success` erases `_opened_at` in any state. A request that
  was admitted before the trip and succeeds after it leaves OPEN without a stamp;
  `assert self._opened_at is not None` then fails for every later call.
- `aggregation_saved`: the repository upserts in the factory's session, which is
  never committed; the session that `run_once` commits is empty. A SUCCESS job
  reports saved items that the table never gets.
- `console_login`: `api()` sends `JSON.stringify` of the `URLSearchParams`, `"{}"`, where the
  server wants a form (`app.js:105`): the login form always gets a 422, although the design
  (`src/docs/superpowers/specs/2026-06-10-tvlist-cursor-gui-redesign.md:101`) says that it
  stores the token. A token can only come from the browser's storage.
- `plugins_extinf`: an EXTINF line directly behind an EXTINF is taken for its URL
  (`m3u_source.py:63`) and yields nothing, although the docstring says that every EXTINF
  becomes a programme (`m3u_source.py:29`). `M3UEntries` says exactly which ones do.

## 6. Other observations

Behaviours of the code that differ from its comments or documents, met while
modelling. The models contain them; no run is devoted to them.

- HALF_OPEN admits every caller until the first verdict, and a success of a call
  admitted before the trip closes it; the docstring speaks of one probe
  (`circuit_breaker.py:25`, `:46`).
- After its sleep `acquire()` leaves `last` before the sleep, so the time slept is
  credited again: up to twice the documented rate (`rate_limiter.py:9`, `:27`).
- `TransientError` is documented as retryable (`core/exceptions.py:14`) and is not
  in the retry list (`client.py:36`).
- `get_or_set` takes one lock for all keys; the comment says by key
  (`cache.py:95`). A load in progress survives `invalidate` and is stored after it
  (`cache.py:71`, `:102`).
- A rolled-back tick also undoes the reset of sources that were alive: a later
  single failure can pause them (`health_check_job.py:23`, `app.py:237`).
- A PUT cannot name a status (`SourceUpdate` has no such field), but it writes back all
  columns of the row it has read, the status too, over a pause, enable or disable in
  between (`sources.py:141`, `source_repository_impl.py:66`).
- A failed run reports `items_saved` above zero (`aggregation_service.py:96`).
- Ctrl+S saves the active tab with the text of whatever editor is on the page
  (`app.js:654`); `CrossWriteNeedsCtrlS` shows this is the only way to mix configs.
- `seed.py:4` says that repeated calls do not insert again, by identity key or id. The
  code only looks whether `sources` is empty. Deleting the demo sources, and the others,
  through DELETE /sources lets the next seeding or start store a second batch of
  programmes and jobs; and a batch stored between the DELETEs of a reset keeps its
  programmes or jobs and loses its sources (`seed.py:203`, `:249`). `SeedIsIdempotent` shows
  that there is no third way, and how many batches there can be.
- With `TV_LIST_AUTO_SEED` "0" a crash between the two transactions of a reset leaves an
  empty database until somebody calls a seeding endpoint (`app.py:205`, `seed.py:252`).
- `seed.py:5` promises a no-op in production; the function does not check, its
  callers do.
- The clean-up job only counts, is scheduled nowhere, and its relative import goes
  above the package; `docs/operations.md` lists it and `crawl_all_active` as
  scheduled.
- A cancelled request leaves the in-progress gauge one too high
  (`middleware/access_log.py:46`); `GaugeIsPaired` shows this is the only way.
- The access log runs outside the layer that makes the request id, so its own id is
  always the default; and it counts every unhandled error as 500, although the layer
  around it answers 503, 400, 403 or 404 (`access_log.py`, `error_handler.py`).
- The rate limiter decorates the writes of sources only (`sources.py:29` and below). Its
  default limit, `rate_limit_per_minute`, applies to nothing: slowapi's middleware is not
  installed.
- `POST /auth/refresh` renews a token without looking at the user again: a disabled
  user with a live token can stay for ever. `LockoutHolds` shows that nothing
  lets the user in again once the token has expired.
- `_seed_default_users` says it creates or updates; it never updates. The settings
  describe two parts with a hash, the code takes three with a plain password.
- A database whose tables were bootstrapped, or whose migration stopped half-way where
  DDL is not transactional, can never be migrated; each start logs it and goes on
  (`app.py:147`). Without tables and with configured users the start aborts;
  without configured users the service serves (`app.py:186`).
- A browser that has died is never started again, and none is ever closed: nothing
  calls `PlaywrightFetcher.aclose()`. The second fetcher that the registry builds is not
  closed either.
- The plugins are registered, but a crawl always uses `JSONParser`.
- DELETE of a source that is gone is answered with 204 (`sources.py:81`), and the console
  then closes whichever tab is active (`app.js:708`).
- A scrape cancelled in `launch()` leaves a running browser, one cancelled in
  `new_context()` an open context (`playwright_fetcher.py:28`, `:40`).

## 7. Plan

Done: every component that keeps state, with the fetcher composed from breaker and
bucket, and the demo data composed into the life of the service; two abstract
specifications, `MonotoneReads` and `Lockout`, and the two parts of the fetcher, with the
refinements proved; every safety property of the runs proved for all instances.

Worth doing next, in this order:

1. `Aggregation`: an abstract atomic crawl to compare it with.
2. `SourceLifecycle`: an abstract specification of what a tick promises to the rows of
   the admin endpoints.
3. `Console`: the enable, disable and crawl commands.

## 8. Not modelled

- Channel, programme, export, job and health endpoints: queries and formatting.
- Clean-up job and feedback service: without a caller.
- Logging, tracing, metrics export, request counters and latencies: pure I/O.
- The `http_json` and `rss` adapters, which pass their arguments on, and the plugin
  registry, a dictionary that is filled once.
- `embed()` of the LLM adapters, `aclose()` of the browser and `downgrade()` of the
  migration: without a caller.
- The production environment, in which nothing is seeded; and seed calls or edits of
  sources while tables of the demo data are missing, which fail.
- The counting of the rate limiter, which belongs to slowapi: a 429 may come at any time
  where it may come at all. In `SourceLifecycle` and `Seed` a refused write changes nothing
  and is no action.
- The four queries of the dashboard as four steps: their combination into one answer can
  mix moments; each of them alone is what `TTLCache` shows.
- The driver process that `async_playwright().start()` leaves behind when a start is lost.
- Signatures and password hashes: a token or a password is right or not.
- In the console: tabs of channels, jobs, programmes and plugins, which are filled
  from the tree without a call, the trees of the other activities, and commands
  that touch no tab.
- In the source life cycle: cron jobs and job removal of the scheduler, and
  `SourceRegistry.enable/disable/pause`, which the application does not use.
- The exact text of data, timestamps, tags and titles; the identity key stands for
  a programme, one config for the editable columns of a source.
