# yield-forge in TLA+

Yield Forge is a Go API (with a Next.js front end) for investors in Brazilian
real-estate funds (FIIs).  It keeps users' holdings, ingests market data from
public sources, computes dashboards, a health score, projections and
contribution splits, and lets a language model explain those figures behind a
gate that rejects advice and unexplained text.

These modules model the parts of the program in which something can go wrong
between two steps: statements of concurrent requests, passes of overlapping
processes, failures half-way, and clock readings used later than they were taken.
Line numbers in `PROJECT.json` (`map`) say which code each definition translates.

## 1. Inventory

| Component | State | Operations | Hard behaviour |
| --- | --- | --- | --- |
| Chat threads (`internal/chat`) | `chat_threads`, `chat_messages` | Send, Thread, ListThreads, DeleteThread, ClearThreads, EnforceCap | no transaction around a turn; turns, evictions and deletions interleave; the model may fail after the question is stored |
| Market-data ingestion (`internal/marketdata/ingest`) | `fii_quotes`, `macro_indicators` | RunOnce, Scheduler.Run, `cmd/ingest` | every replica has a scheduler and cron may run besides it; every call may fail on its own; a process may die in mid-pass |
| Market-data adapters (`fundamentus`, `yahoo`, `bcb`, `fii`) | none | one request each | partial answers |
| Insight cache and gate (`internal/insight`) | an in-memory LRU with expiry, per process | Insights, cached/gated Generate, GenerateWithReask | concurrent misses, expiry boundary, one more try after a malformed answer |
| Sessions (`internal/auth`) | `users`, `sessions` | Register, Login, Logout, Authenticate | insert decided by an index, lazy deletion of expired rows, logout in mid-request |
| API lifecycle (`cmd/api`, `cmd/ingest`, `internal/platform/httpserver`, `database`) | goroutines, pool, telemetry | start, serve, drain, stop | the order of stopping, the drain deadline, signals and kills |
| Configuration (`internal/platform/config`) | none: a function of the environment | Load | defaults, precedence of `.env`, values that panic or hang later if they get through |
| Portfolio (`internal/portfolio`) | `fii_holdings`, `fixed_income_holdings` | add, update, delete, list | ownership scoping, replaced rows, readings that fail in silence |
| Profile (`internal/profile`) | `investor_profiles` | get, upsert | last writer wins |
| Dashboard, health, projection | none: functions of rows read | GetDashboard, Score, Project | up to ten SELECTs for one answer, the holdings twice; rounding |
| Rebalancing (`internal/rebalancing`) | none | Rebalance | the same reads, then one call of the model per area and one for candidates, each of which may fail or be answered from the cache |
| Money (`internal/platform/money`) | none | decimal parsing, half-up ratios, shares | overflow, rounding |
| HTTP edge, migrations, logging, telemetry, web client | none that the others' results depend on | | |

Components meet in the database (each row has one writer component), through
direct calls (chat asks the grounding engines and the insighter; every handler
asks `Authenticate` first) and, for ingestion, in the set of held tickers.
There are no message queues; every concurrency is of requests and schedulers.
One process (`ApiProcess`) carries handlers and scheduler alike: what the other
modules call a crash or a restart is its end and its next start.

What makes each part correct: a chat thread is a bounded, owned dialogue in which
answers follow their questions; a pass of ingestion accounts for every item and
loses no newer data; an insight is the gated model's answer to this user's
question; a session serves its own user and nobody after its end; a report is
what the tables say, its parts agree with each other, and rounding neither loses
money nor swaps scenarios; guidance joins texts to the numbers they were written
about; and a process closes what it opened, after those who use it, and tells
whether it failed.

## 2. Plan

1. `ChatThreads`: the richest shared state.  Done, with proofs.
2. `Ingestion`: done, with proofs.
3. `InsightCache`: the cache against the abstract promise "every answer is one
   the gated model gave to the same question, no older than the TTL" (module
   `InsightAnswers`).  Done, with proofs.
4. `Money`, `Figures` and `Reports`: the figures, and the reads they are made
   from.  Done, with proofs.
5. `Accounts`: sessions together with the statements they scope.  Done, with proofs.
6. `Configuration` and `ApiProcess`: start, serve, drain, stop, for every
   environment the process may be given.  Done, with proofs.
7. `Guidance`: the loop of rebalancing over areas and candidates, on top of the
   promise of `InsightAnswers` and the split of `Figures`.  Done, with proofs.
8. `Decimals` and `Providers`: what ingestion is given by the FII sources.  Done,
   with proofs.

Left: the narrative of the health score, one more call of the same
Insighter; the timestamps of the investor profile.

## 3. The modules

### ChatThreads

One action per statement of `Send`; the program counter of each turn says which
comes next.

| Code | Model |
| --- | --- |
| `postMessage`, first lines of `Send` | `Begin`: the thread id of the request and the clock reading |
| `resolveThread`, `GetThreadByID` | `GetThread` |
| `resolveThread`, `CreateThread`, then `EnforceCap` | `CreateThread`, `EnforceCap` (two statements, two actions) |
| `AppendMessage` | `InsertQuestion` or `InsertAnswer`, then `Touch`; `ThreadGone` is the foreign key's refusal |
| `ground`, `priorContext` | `ReadPrior`; an error of either is `Fail` |
| the gated `Generate` | `Generate`, or `Degrade` with one of the two fixed replies |
| any error, disconnection or crash | `Fail` |
| `DeleteThread`, `ClearThreads` | the same names, at any moment |

A thread's id is the turn that created it, which is as fresh as a UUID.  Content
and titles are left out.  Rows of equal `updated_at` come in any order
(`Latest` is a set of possible results), as SQL allows.

A turn that failed says in `pc` whether its own `EnforceCap` was what failed
(`"uncapped"`), because nothing else leaves a thread above the cap.  `past` is history:
what the thread held when the turn's question was inserted.

Properties: `ThreadsBounded` (the cap, but for the threads of `Unenforced`, whose own
`EnforceCap` has not run: a failure after it excuses none), `OnlyOwnerWrites`,
`AnswersStandWithQuestions`, `RepliesMatchHistory`, `PriorIsRecentDialogue` (no message
of `past` left out of the prior is newer than one that is in it).  A turn is a straight
line of statements, so that it ends is no property of its own here.

### Ingestion

One action per call of a pass that can fail on its own.

| Code | Model |
| --- | --- |
| `Scheduler.Run`'s first call or tick, cron | `StartRun` |
| `unionSource.Tickers` over holdings and watchlist | `ResolveTickers`, with the failing holdings read |
| `FetchFIIQuotes` (fundamentals, then dividends) | `FetchFII` with any subset of tickers and optional fields, or `FetchFIIFails` |
| `UpsertFIIQuote` in the loop | `UpsertFII`, `UpsertFIIFails` in any order (Go's map order) |
| `FetchMacroIndicator`, `UpsertMacroIndicator` | `FetchMacro`, `UpsertMacro`, `MacroFails` |
| the returned `Summary` | `sum`, looked at when `Completed` |
| a crash | `Crash` |

Time stands for content: a quote is what its source showed at `fetchedAt`.
`heldRead` and `missed` record what the code knows and forgets.  The clock is
shared: replicas whose clocks disagree are not modelled.  The live
provider has no source for IFIX, so with it a pass always counts one failed
indicator: a series that never publishes.  The last-run gauge is not modelled.

Fairness: weak fairness of a pass's own steps and of the next pass (timer or
cron).  `HeldTickersGetQuote` further assumes, with strong fairness, that what is
tried again and again succeeds at last; crashes may go on for ever.

### InsightCache and InsightAnswers

`InsightCache` is one API process: its cache, and requests to `GET /insights` that
go through the categories one after the other.

| Code | Model |
| --- | --- |
| `getInsights`, entered with a session | `Begin` |
| `BuildFacts`, `hasHoldings` | `BuildFacts`: a snapshot, an empty portfolio, or an error |
| `cachedInsighter.Generate` down to the inner call, `memCache.Get` | `Get`, a `Hit` or a `Miss`; an expired entry is removed by the lookup |
| the provider's reply, `ParseResult`, the two gates | `ModelAnswers` |
| `GenerateWithReask` after a malformed reply | `ModelMalformed` |
| any error of a provider, or a second malformed reply | `ModelFails` |
| `memCache.Set` | `Set` |
| the loop of `Insights`, its `continue` and its `return ctx.Err()` | `Succeed`, `Skip`, `NextCategory` |
| the response | `Return`: it is lost when the write deadline has passed |
| the client leaves; the process restarts | `Cancel`, `Restart` |

Who sent a request is `user`, a variable chosen at the start, so that one run has
requests of one user and of two.  The cache's mutex makes `Get` and `Set` atomic;
nothing is held between them, so concurrent misses of one key each ask the model and each store an answer.  Two
variables are history: `given` (answers stored, and when) and `used` (keys hit or
set).  A snapshot of facts is one value, so what a snapshot mixes from successive
reads is not shown here.

`InsightAnswers` is what a caller may rely on: it knows no cache and no provider.
Answers are `Fresh` (the model was asked) or given `Again` less than a time to live
later, always to the question of the same user, category and facts.
`InsightCache` instantiates it with its own variables of the same names (`Promise`),
and `KeepsPromise` is the refinement.  `Guidance` is built on the same promise, with
the areas and the candidates in the place of the categories.

Other properties: `CacheBounded` (list and map agree and never outgrow the size),
`KeptWhileRecent` (the least recently used entry, and no other, makes room),
`CancelledNotUnavailable`, `RequestsReturn` (liveness).

Fairness: weak fairness of the steps of a request.  Each call has the HTTP client's
timeout, which `Tick` respects.  `PromptSpec` restricts the passage of time to calls
of the provider, next to which database reads and cache lookups take no time; only
the run about the write deadline uses it.

### Money, Figures and Reports

`Money` is `ratio.go` and `Figures` the pure computations; `Reports` is one request
that gathers their inputs, one action per SELECT, while the tables change.

| Code | Model |
| --- | --- |
| `ShareBps`, `ApplyBps`, `AccrueSimpleInterest`, `AllocateBps`, `WeightedMeanBps` | the same names in `Money` |
| `dashboard.Compute`, `ResolveEffectiveRate` | `Dashboard`, `ResolveEffectiveRate` |
| `health.Compute`, `liquidValue`, the five factors | `HealthScore`, `LiquidValue` and an operator per factor |
| `projection.Compute`, `projectNetWorth` | `Projections`, `ProjectNetWorth` |
| `allocationFromFacts`, `Split` | `AllocationFromFacts`, `Split` |
| the handler, entered with a session | `Begin`; what was asked for is `kind` |
| `ListHoldings` | `ReadFII`, `ReadFixed`, then `ReadMacro` or `ReadMacroFails` for CDI and IPCA |
| the loop of `GetDashboard`, its last line | `ReadQuote` in any order of tickers, `Compute` |
| `buildInputs`, `Project` after the dashboard | the holdings once more, `ReadProfile`, `ReadSelic` |
| `BuildFacts` for a contribution | `ReadProfile`, `ReadSelic` after the dashboard |
| any other error | `Fail` |
| the response | `Answer` |
| other requests, ingestion, the clock | `SaveFII`, `DeleteFII`, `SaveFixed`, `DeleteFixed`, `StoreQuote`, `StoreReading`, `SetProfile`, `NextDay` |

One user and one request: requests for reports write nothing, so several do not
disturb each other.  A row's id only tells rows apart.  Of a report the figures are
kept; its explanations, the narrative and the universe of FIIs the prompt is given
are left out, and so are the macro figures a rebalancing reads for its prompt next
to the Selic.  `today` counts days, and an update of a fixed-income row keeps the
day of creation (`CreatedOf`).  `quiet` is history: no table has changed since the
request began.  So are `got.unread` and `got.boardUnread`, the stored readings the last
listing of the holdings, or the one the dashboard was computed from, failed to read.

Properties: `QuietReportsExact` (an undisturbed report is the function of the tables,
and each failed read of CDI or IPCA, which the code passes over, costs its own listing
that reading and nothing else), `DashboardReconciles`, `ScoreWithinFactors`, `ScenariosOrdered` and
`SplitSteersToTarget`.  The last four hold of disturbed reports as well.

### Decimals and Providers

`Decimals` is `money.DecimalToMinor` on a text, a sequence of characters; `Providers`
is one call of the source of FII quotes.

| Code | Model |
| --- | --- |
| `DecimalToMinor`, `isDigits`, `strconv.ParseInt` | `DecimalToMinor`, with `Unsigned`, `Normalized`, `Point`, `RoundUp`, `ParseInt` |
| Fundamentus: the loop over the rows, `rowToQuote` | `ReadTable`, with `Usable` and `RowToQuote` |
| no answer, or no table in it | `TableFails`, which fails the call |
| the loop of `Composite`, in the order of a Go map | `ReadChart`, or `ChartFails` for any ticker |
| Yahoo: the loop over the distributions, also a map | `WalkOver` in any order |
| its last lines; the quote completed | `Enrich` |

What a call returns is what `FetchFII` of `Ingestion` chooses from: any subset of the
tickers, each with any of its optional fields.  Decoding HTML and JSON, finding the
columns, sector labels and the stamps of a quote are left out.  The code does not ask
whether a price is positive: that prices are not negative, which `Reports` assumes, is
the site's doing.

The code goes through a text from left to right, and so do `Normalized` and `ParseInt`,
recursive functions.  The property reads it another way: `Denoted` places each digit by
the number of digits after it and rounds the quotient as `Money` does.

Property: `QuotesAsPublished`, in terms of `Denoted`: each quote has the figures a row of
its own denotes and its own latest dividend, or none, and an odd cell or a failing chart
costs that figure alone.

### Accounts

Connections of browsers send requests, each with the cookie its browser has then.
One action per statement, so that requests of the same session interleave between
`requireAuth`'s statements and the handler's.

| Code | Model |
| --- | --- |
| a request comes in; `isPublicRoute` | `Send` |
| `Register` | `CreateUser`, decided by the unique index |
| `Login` | `GetUser` with `Compare` and the clock reading, then `CreateSession` |
| `Authenticate` | `GetSession`, then the look at the clock: `Authenticated` or `Expired` |
| holdings handlers | `Create`, `Update`, `Delete`, `Read`, scoped by `User(c)` |
| `PUT /profile` | `SetProfile` |
| `Logout` | `DeleteSession` |
| any error | `Fail` |
| the answer and its Set-Cookie | `Receive`, or `Lose` when it never arrives |

A user is named by the address and a session by its token, as fresh tokens are;
hashing is left out.  The two tables of holdings are one, with ids that are never
used again.  `Authenticated` includes the read of the user's row, which nothing
deletes.  Any request that changes nothing and shows nothing (a refused one, `GET
/auth/me`) ends like a failed one.  A browser keeps one cookie, until its `MaxAge`.
It may guess: every address is tried with every password.  `given`, `used` and
`dead` are history: the login a token was given for, the ids that exist or did (a
client asks only for ids it has seen), and whether the session had ended when the
request was sent.

Properties: `ServedAsOwner`, `DeadSessionsRejected` (a request sent before the end
may still be served after it, by the code as by the model), `SessionsEndForCause`,
`OnlyOwnersChange`.

### Guidance

`POST /rebalancing`, on `InsightAnswers` instantiated with `Guidance`'s own variables
(`Insighter`); the proved refinement of `InsightCache` is what entitles it to that.

| Code | Model |
| --- | --- |
| `postRebalancing`, body decoded | `Begin`; the body is `sent` |
| `BuildFacts` | `ReadBase`: one of the bases (how they are read is in `Reports`) |
| `ListFIIUniverse`, then `assembleFacts` with `Split` | `ReadUniverse` |
| either of them fails | `ReadFails` |
| `buildAreas`, one turn of its loop | `ExplainArea`, or `Degrade` when the model fails |
| `buildCandidates` with the grounding guard | `NameCandidates` (`Grounded`, `Kept`, `Illustrative`), or `Degrade` |
| `ctx.Err() != nil` after a failed call | `Abort` |
| `toRebalancingResponse` | `ShownAreas`, `ShownCandidates` |
| ingestion; the client leaves | `StoreQuote`, `Cancel` |

`Shares` is a constant, and the MC module gives it the values `Figures!Split` has for
its bases and contributions, which an assumption checks.  An answer is reduced to the
tickers its insights name: that each carries an explanation is the gate's part.  Of an
area's answer the first insight alone is shown, so it is either empty or not.  The
module has no clock: an answer that has grown too old is replaced by a `Fresh` one,
which is allowed at any time, so a cache that keeps answers for ever allows more.

Properties: `ToldTheNumbers` (each text was given to this user's question with the
contribution and split it is shown with), `CandidatesGrounded` (shown candidates have
quotes, and their shares add up to the share of FIIs), `GuidanceReturns` (liveness).

Fairness: weak fairness of a request's own steps, as for `InsightCache`.

### Configuration and ApiProcess

`Configuration` is `config.Load` as a function from the environment and the `.env`
file to a configuration or the set of settings in error; `ApiProcess` is a process
that starts with it.

| Code | Model |
| --- | --- |
| `loadDotEnvIfPresent`, `getString` and its siblings | `Seeded`, `Lookup`, `Default` |
| the checks of `Load`, the errors it collects | `AcceptedNumber`, `AcceptedWord`, `Errors` |
| `run` up to the server | `Load`, `Setup`, `Connect`, `Wire`, each with its failure |
| `httpserver.Run` | `Listen`, then `ServeReturned` or `Interrupted`; `Drained` and `Join`, or `DrainTimesOut` |
| `stopScheduler`, `<-schedulerDone` | `StopScheduler`, `WaitScheduler` |
| the deferred calls, `os.Exit` | `ClosePool`, `Flush`, `Exit` |
| the goroutine of `ListenAndServe` | `Bind`, `ServeFails`, `ServerClosed` |
| the goroutine of `Scheduler.Run` | `PassEnds` (then `NewTicker`, which may panic), `Tick`, `SchedulerStops` |
| `cmd/ingest` | the same start-up and end, `OnlyPassEnds` between |
| net/http, clients, the operating system | `Arrive`, `Return`, `Signal`, `Kill` |

A value is one of the classes the code tells apart (`"negative"`, `"zero"`,
`"small"`, `"huge"`, `"junk"`).  A shutdown timeout of zero or less, which `Load`
accepts, makes `DrainTimesOut` possible at once, as it is anyway.  `db.Close` does not
wait for connections in use.  Signals after the first are swallowed until
`httpserver.Run` returns and kill the process from then on; `Kill` also stands for
SIGKILL, at any time.

Properties: `PoolOutlivesItsUsers`, `ExitTellsTheTruth`, `NeverPanics`,
`StopsWhenAsked` (liveness).

Fairness: weak fairness of `run` and of the server's goroutine, whose waits are
bounded by timeouts; of the end of a pass (`RunsComplete` of `Ingestion`); strong
fairness of the scheduler's `ctx.Done` branch, because Go's `select` draws at random
among the cases that are ready, and a pass longer than the interval leaves a tick
ready each time.  None of handlers, clients or signals.

## 4. Runs

| Run | Question | Instance |
| --- | --- | --- |
| `chat_turns` | type, cap, dialogue structure, prior window, ownership | 2 turns of one user and 1 of another, cap 1, window 2, clock to 2; 2.4 million states |
| `chat_updated_at` | finding: `updated_at` goes back | 2 turns |
| `chat_unavailable` | finding: an unavailable turn is persisted | 2 turns |
| `ingest` | type, accounting, success, latest observation; passes end; held tickers get quotes | 2 processes, 1 ticker (on no watchlist), 1 series, no optional field, clock to 2 |
| `ingest_fetched_at` | finding: `fetched_at` goes back when passes overlap | the same, 1 optional field |
| `insight_requests` | type, bounded LRU, recent answers kept, cancellation, the refinement, every request ends | 2 requests of one user or of two, 1 snapshot, 3 categories, a cache of size 2, a time to live of 1, clock to 1 |
| `insight_lost` | finding: with a deadline below the timeout the degraded reply is lost | 1 request, 3 categories |
| `accounts` | type, identity, expiry and logout, ownership | 2 connections of one browser, 2 users, 2 passwords, 2 tokens, 1 row, 1 profile, a time to live of 1, clock to 1 |
| `reports` | undisturbed reports are exact, less the readings that failed; all of them reconcile | up to 2 FII and 2 fixed-income rows, 2 tickers, 1 change, 2 days, a horizon of 2 years |
| `providers` | figures as their texts denote; an odd cell costs itself only; the latest dividend | 2 tickers, tables of up to 3 of 5 rows with 6 charts, days of 2 instants; and a row of any text of up to 5 of 9 characters, largest integer 757 |
| `guidance` | texts belong to the numbers; candidates known, their shares complete; requests end | 2 requests of one user or of two, 2 contributions, 2 bases, 1 ticker, answers naming none, another or the ticker twice |
| `api_process` | nothing used after it is closed; honest exit codes; no panic; stops when asked | both commands, 3 requests, every value of every setting, pairs of those read together, real and in `.env` |

Four runs expect a violation, each of something the repository says of itself.
`fetched_at` of a quote, for one: `UpsertFIIQuote` replaces the row whatever it holds
(`marketdata/postgres/postgres.go:36`), so of two overlapping passes the one that
fetched first may store last and put the older quote back, where SPEC-006 calls the
upserts "safe under an overlapping schedule" and overlapping runs "a no-op on data".

More divergences have no run.  `unionSource` hides a failing holdings read, so the
`source_error` outcome of SPEC-007 is never counted; and a ticker the provider does not know is not metered,
which SPEC-006 asks for.  The model records both (`heldRead`, `missed`).  And when
the dividend of a ticker cannot be fetched, the row is stored with 0 over the
dividend known before (`fii/composite.go:47`), which SPEC-006 allows as a partial
row although README.md:142 has a failed fetch never overwrite good data.
`cmd/api/main.go:91` has the pool closed "after the HTTP server drains": not when the drain runs out or the
server fails, where handlers go on with a closed pool (`PoolOutlivesItsUsers` allows
it to a process that reports a failure).  A reply of the model without insights
counts as success, so `GET /insights` then says available with nothing to show, as for
an empty portfolio.  `Load` accepts shutdown, session and HTTP durations of zero or
less, and a real variable set to nothing keeps the `.env` value out yet counts as
unset (`Seeded`, `Lookup`).

Why the bounds are enough.  Two turns of one user with a cap of one give a turn
whose thread is evicted by the other; a third by another user names threads that are
not its own.  Few clock values already order and tie stamps.  Deadlock checking is
off for chat because a finite set of turns comes to an end.  A window of two below
three messages of one thread makes the newest part of them differ from any other.

In ingestion two processes give an old fetch stored after a new one, and two passes of
one process a row that is there already.  One ticker and one series give every outcome
of an item and, with a crash, every place a pass can die in; that the counting is right
for any number of them, and with watchlists, is what `ItemsAccountedCorrect` and
`SuccessCorrect` show.  The ticker is on no watchlist so that it is asked for because
it is held.

Two requests with more categories than the cache has places make it evict while the other request is between its lookup and its store; a clock
that goes past the time to live reaches the expiry instant.  Deadlock checking is
off for insights because requests are finitely many.  The default configuration has
a write timeout of 10 s and a provider timeout of 30 s; `insight_lost` keeps their
order, not their size.

Two connections of one browser share its cookie, so a request of one session is on
its way while the browser logs in or out as another user on the other connection.
Two tokens allow a user two sessions, and two users one each; a session made at 0
ends at 1, where requests sent before and after meet its expiry.

Three requests to a process are one answered, one cut off and one not yet accepted.
Every setting takes every class of value, in the environment or in `.env`; pairs are
tried of those whose errors or effects depend on each other.  Deadlock checking is off
because a process ends.

Two requests for guidance let an answer given to one be given again to the other; the
two bodies have the same contribution or not and only one asks for shares; of the two
bases one leaves an area without a share for one contribution.  An answer that names
the ticker twice around a title that is none has the guard drop from the middle and
leaves an odd share to divide.

Five characters hold a sign, both marks and digits on either side, or a fraction longer
than the scale; 757 is passed by digits alone and by a carry.  Three rows repeat a
ticker with an odd row on either side; the charts have their latest distribution
anywhere, twice, too small to count or unreadable.  Deadlock checking is off because
the one call ends.

A report reads the holdings twice at most, so one change falls before, between or
after the two readings, and every initial state has every combination of rows,
quotes, readings and profile; further changes only lead to other such states before
or after the one that matters.  The amounts are chosen to leave remainders in each
rounding, with one ticker held twice, a ticker without a quote, a negative inflation
and a rate above 100 % (of the CDI).  Deadlock checking is off because the one
request comes to an end.

## 5. Proofs

The modules `*_proofs` prove every safety property the passing runs check, for every
number of users, turns, processes, tickers, indicators, connections, requests and
categories, every text and every bound.

Chat: `IndInv` adds to the type invariant where each program counter allows a
question or an answer to be (`Asked`, `TargetsResolved`, `MessagesPlaced`,
`TurnsStored`, `QuestionsHeld`).  `CapHolds` counts the threads of a user outside
`Unenforced` (`Capped`): `EnforceCap` leaves no more threads than the cap at all, among
which its own is counted for the first time (`EnforceCapBounds`); a new thread is in
`Unenforced` from the start, and no other step takes a thread out of it and keeps it
(`NothingCapped`).  `PriorCorrect` compares what `ReadPrior` returned with `past`:
messages that arrived in between may be in the prior as well, and it is empty when the
thread has been removed in between.

Ingestion: `IndInv` says, at each program point, how tickers and indicators are
distributed over stored, failed, missing and pending (`TickersAccounted`,
`IndicatorsAccounted`, `StoredSoFar`); `ItemsAccounted` and `SuccessIsStored` are
what is left of it when nothing is pending.  `LatestMacroCorrect`
holds for any number of processes: rows are keyed by date and never deleted, so the
newest date (`NewestDate`, which exists because dates are finitely many) only grows.

Insights: `IndInv` adds `FactsAreBuilt`, `HoldsOwnAnswer` (what a request carries
between the model and `Set` answers the question it is at), `YetUnanswered` and
`EntriesWereGiven` (what an entry would serve is in `given`, with the expiry that
follows from its time).  `PromiseKept` maps each step: a `Hit` to `Again`, justified
by `EntriesWereGiven` and the expiry test, `Set` to `Fresh`, `BuildFacts` to its
namesake, and everything else to a stutter.

`KeptWhileRecentCorrect` needs a second invariant, `RecencyInv`, of the list against
the history of uses.  The list is in the order of the last uses, so what is ahead of a
key was used after it (`AheadIsUsedSince`); an entry outlasts every answer stored under
its key (`EntryOutlasts`); and a key that was used and is gone either had `Size` others
used since or has only answers that are too old (`GoneForAReason`).  The hard step is
`Set` (`SetKeepsRecency`): what it evicts is last in the list, the `Size` keys ahead of
it are distinct, and all of them were used after it (`RangeSize`, `SinceSize`).

Money: integer division is characterised by one lemma (`Quotient`), from which
follow that `HalfUp` is the nearest number, that it is monotone, and the ranges of
`ShareBps` and `ApplyBps`.  A sum over a finite set has no recursion the provers could
unfold, but `SumRemove` takes one member out of it; what holds of the empty set and
survives that holds of every set, because a smallest counterexample would have a
smaller one (`Smallest`, by the least cardinality).  So `SharesAddUp`
bounds what any number of roundings can lose, and `MeanBetween` keeps a weighted mean
between its values.  `AllocateTwo` is the largest-remainder method on two weights:
what the two quotients leave of 100 % is at most one basis point, and it goes to the
larger remainder.

Decimals: `DecimalToMinorDenotes` compares two readings of a text of any length.  A
recursive function is taken from its definition (`Recursion`, `Steps`), and what holds of
the empty text and survives one more character holds of every text (`UpTo`).  So
`ReadOff`, a tally kept character by character (the number so far, the digits after the
mark, the marks, whether anything odd was met), agrees with the places of the digits
(`ReadsAppend`, `ReadsIs`), does not change when the thousands' dots go and the comma
becomes a dot (`ReadNormalized`), and counts a sign only as something odd at the front
(`ReadSigned`); `NumberIs` and `DigitsIff` are the two conditions for a number, on
either side.  What is left is arithmetic (`ValueIs`, `MinorIs`): the digits kept and the
digits cut off are quotient and remainder of a power of ten (`Rest`, `HalfUpRemainder`),
zeros fill up a fraction that is too short (`Zeros`), and the first digit cut off tells
which half the remainder is in.

Providers: `QuotesInv` says at each program point which rows have become quotes
(`Quoted`), which last dividends a ticker may have once its chart is tried (`Lasts`,
`Ahead`), and that the walk over a chart is at the newest of the distributions it is past
(`Walked`).  The steps rest on `RowsParsed` (a row is usable, and has its figures, as it
denotes them), `LastRow` and `EmptyAmount` (a chart without distributions pays nothing).
TLC checked `QuotesInv` on the instance of the run `providers` first.
`Ingestion_proofs` extends both `Ingestion` and `Providers`, which is why `Providers`
names its state and its steps apart (`askedFor`, `stage`, `answer`, `CallNext`).

Reports: `QuietReportsCorrect` rests on what the figures depend on.
`DashboardDependsOnHeld` says that restricting quotes to the tickers held and
readings to CDI and IPCA changes nothing, because each row's worth looks up no
other; `IndInv` says what a quiet request has read at each statement
(`HoldingsRead`, `QuotesRead`, `ProfileRead`), namely such a restriction, of the
readings without those that failed (`OnlyWithout`).

Disturbed reports need a second invariant, `Known`: what was read is of the types the
tables have (`TablesKnown`, `GotKnown`), the dashboard is that of some rows, quotes
and readings of these types, though none of them need be in the tables any more
(`ComputedKnown`), and the answer is the function of the dashboard and what was read
after it (`ReportKnown`).  The rest is arithmetic.  `DashboardCorrect` groups a sum by
sectors (`SectorsAddUp`) and bounds the roundings by `SharesAddUp`.
`ScenariosCorrect` compares two scenarios month by month, at the first month where
they would be out of order (`ValuesOrdered`), by `ApplyBpsMonotone`; that the months'
recursion has a solution at all is `ValueExists`.  `ScoresCorrect` is `MeanBetween`
once the factors are points and the weights make up 100 %, which for the two default
lists of weights is computed (`WeightsOfFive`, `WeightsOfThree`).  `SplitCorrect`
follows the errors: a class's value as the facts tell it is off by half a basis point
of the total and half a centavo (`AllocationNear`), its share of the contribution by a
basis point (`AllocateTwo`), and `GapShare` bounds what these make of a class that
gets money, which stays within the slack of `SplitSteersToTarget`.

Accounts: `EntitledStays` says that a token's owner never changes, since passwords and
logins are set once.  `IndInv` says that every row of `sessions` is its owner's
(`Issued`), that every token in a cookie, request or answer comes from a login
(`TokensGiven`), what a connection has read at each statement (`InHand`), and that a
request sent too late finds no session or an expired one (`NothingRevives`): a new
session has a token no request on its way can carry.

Process: `LoadedIsSound` says that an accepted environment yields a configuration with
a positive refresh interval, whatever its other settings; `NeverPanics` is then that
`config` holds such a one from `Load` on.  For the rest `IndInv` says of each phase
what is open (`ResourcesFollow`), which goroutines may run (`SchedulerFollows`,
`ServerFollows`, `RequestsFollow`) and which result has been set (`ResultFollows`).

Guidance: `ToldCorrect` holds for any function in the place of `Split`.  Its `IndInv`
says that a request is answered nothing before its facts are assembled
(`NothingYet`), that they stay what they were assembled from although quotes arrive
(`FactsAssembled`), that what is still to be asked about has a share
(`TodoHasShare`), that the universe told is one of tickers still quoted
(`ToldUniverse`), and that candidates are what the guard left of an answer
(`NamedGrounded`); `AnswerIsOwn` is what `InsightAnswers` adds, fresh or again.
`CandidatesCorrect` then speaks of two loops: the guard's keeps known tickers alone
(`KeptKnown`, by the first insight after which it would not), and the shares it is
followed by are a quotient for each and one more for as many as the remainder says
(`IllustrativeSum` on the sums of `Money_proofs`, `IllustrativeEven`).

Assumptions: those on the constants (finite sets, naturals, distinct identifiers),
evaluated by TLC in every run.  For the reports: prices and dividends are not
negative, while readings may be; invested amounts and quantities are positive, as
the services demand; a horizon is of 1 to 40 years.  For the sources: tables, cells and
amounts are sequences of whatever characters, and dates are naturals.

Only model-checked: the liveness properties (`RunsComplete`, `HeldTickersGetQuote`,
`RequestsReturn`, `StopsWhenAsked`, `GuidanceReturns`), which are beyond the prover.

## 6. Not modelled

The web client (rendering and fetch calls), the migration command (a driver of the
external golang-migrate, run by hand), routing and JSON (stateless), logging, build
information, what is exported as telemetry, the decoding of HTML and JSON in the
market-data and model adapters, the chat's intent classification and grounding
texts, and the narrative of the health score, whose failure leaves the score without
text.  Clocks of different replicas are one clock.
