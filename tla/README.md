# nofx-go: specifications and proofs

TLA+ models of the trading bot in this repository, the TLC configurations that
check them, and TLAPS proofs of their main safety properties. File names and
line numbers are those of the repository; ENG, GRD and BOT stand for
`engine.go`, `guard.go` and `bot.go`.

The models follow the code as it reads. The tree as committed does not build
(`cmd/main.go` declares `ctx, cancel` twice, lines 52 and 68; `contextutil.go`
and `docker-compose.yml` are UTF-16; `websocket.go` compares a `float64` with
nil), and nothing here depends on the repair of these.

## 1. Inventory

One process runs a scanner, an executor loop and a web server; several processes
may share one Redis and one exchange account.

| part | code | state it keeps | operations | talks to |
|---|---|---|---|---|
| scanner rounds | `cmd/main.go` `runScanner` | worker semaphore, wait group | round, hand-over, join, sleep | scanner stream, ProcessSignal |
| scanner stream | `internal/scanner` | channel, semaphore, wait group of a round | ScanMarketStream, GetSymbolPool | symbol scans |
| symbol scan | `scanner.go` ScanSymbol, `internal/indicators` | `oi:last:<symbol>` | GetOHLCV per timeframe, indicators, calculateOIChange | candle cache, prefilter, rule |
| candle cache | `exchange/binance.go` | map under an RWMutex | getCache, setCache | market data client |
| decisions | `internal/bot/bot.go` ProcessSignal, `internal/ai`, `internal/strategies` | `ai_mode`, histories and statistics in Redis | getAIMode, MakeTradingDecision, MakeDecision | AI provider, account, queue |
| signal pipeline | `bot.go` 139-193, 240-256 | `trade_queue`, `signal_history` | LPUSH, LTRIM, BRPOP | decisions, executor |
| executor loop (BOT) | `bot.go` RunBot | context, time of the last guard round | pop, dispatch, guard interval | engine, guard |
| engine (ENG) | `internal/execution/engine.go` | none of its own | PlaceOrderFromSignal, ClosePositionFromAction | lock, dedupe, exchange, protection |
| lock | `execution/lock.go` | `lock:<key>` with a TTL of 60s | acquireLock, releaseLock | Redis |
| dedupe | `execution/dedupe.go` | `dedupe:<symbol>:<action>:<price>:<bucket>` | checkAndSetDedupe | Redis |
| guard (GRD) | `execution/guard.go` | `protection:<symbol>:<side>` | EnsureSLTPGuardOnce, cleanupProtection, SaveProtection | lock, exchange, Redis |
| market data client | `exchange/http_client.go`, `ratelimiter.go` | token bucket, backoff window, level | FetchJSON | exchange (public GETs) |
| order calls | `exchange/binance_orders.go` | none | PlaceOrder, CancelOrder, GetPositions, GetOpenOrders | exchange (signed, no limiter) |
| dashboard | `internal/web` | sessions, status cache, `runtime_config`, `ai_mode` | handlers, handleWebSocket, Run | Redis, exchange |
| the rest | config, metrics, utils, tools | read once, or monotonic | | |

What is hard here, and what makes each part correct:

* **Two systems, no transaction.** An entry is an order on the exchange, then a
  record in Redis; the guard turns records into stop orders. A fault between the
  two, or two bots taking turns, must not pair a position with levels of another
  entry, and a position with a valid record must get its stop whatever dies.
* **A lock with a TTL.** Exclusion rests on a time budget; a late release must not
  free another's lock; an orphaned token must not block a symbol for ever.
* **Stale reads.** A guard round works from one snapshot of the positions; a close
  from a size read before the lock.
* **Non-atomic Redis sequences.** LPUSH and LTRIM, EXISTS and SET by goroutines
  and processes that interleave, each command of which may fail or be refused on
  a cancelled context.
* **Shared rate state.** Token bucket and backoff window are changed by all
  goroutines that fetch market data, in several critical sections.
* **Goroutine structure.** Tasks send into a channel that the dispatcher closes;
  two semaphores and a bounded channel sit in line; a cancel may come any time.
* **Live switches.** The operator changes `ai_mode` while data are in work, and
  overrides by GET, change and SET without a lock; the status page shows what was
  put together over several seconds and is cached for more.
* **A lock given back halfway.** getCache exchanges its read lock for the write
  lock and back, between the other goroutines of the scan.
* **Missing data.** A scan goes on without five of its eight timeframes; no signal
  may come of a series that is not there.

Everything of this kind is listed with its line in `PROJECT.json` under `hazards`.

## 2. Modules

| module | models | composes |
|---|---|---|
| `Trading` | exchange, Redis and bots as shared state; Redis commands and exchange calls with their outcomes; fills, triggers, TTLs, pushes, the clock | |
| `Engine` | engine, dedupe, lock (without time) | extends `Trading` |
| `Guard` | a guard round and its cleanup | extends `Engine` |
| `Bot` | RunBot, shutdown, crash, restart; the specification and all properties of the executor | extends `Guard`; its lock keys implement `SectionLock` |
| `RedisLock` | one lock key with time | implements `SectionLock` |
| `SectionLock` | what a lock key promises: set to enter, and never free while somebody is inside | |
| `TradeQueue` | the rounds of runScanner, the Redis commands of ProcessSignal and BRPOP, with commands that go-redis sends again | implements `SignalChannel` |
| `SignalChannel` | what the queue promises: messages in the order they were sent, each sending at most once, only the oldest shed or lost | |
| `HttpClient` | FetchJSON, RateLimiter, BackoffManager | |
| `Scan` | runScanner with ScanMarketStream | |
| `Decision` | ProcessSignal up to the push, AI trader, rule strategy, `ai_mode` | |
| `WebSession` | one WebSocket session | |
| `CandleCache` | GetOHLCV, getCache and setCache with the RWMutex | |
| `Indicators` | EMA, RSI, bands, squeeze, CVD, OBV | |
| `SymbolScan` | ScanSymbol, the prefilter and the rule | extends `CandleCache`, `Indicators` |
| `Dashboard` | runtime overrides, AI mode, status page, shutdown of the server | |
| `MC*` | instances for TLC | |
| `*Proofs` | theorems: `RedisLockProofs`, `TradeQueueProofs`, `BotProofs`, `HttpClientProofs`, `ScanProofs`, `SymbolScanProofs`, `DashboardProofs`, `DecisionProofs` | |

**Correspondence.** One action is one Redis command, one exchange call, or one
step of a goroutine between two points where another may run. `pc` names the next
call; the locals of a Go function are the record `ex[b]` (an engine call),
`rd[b]` (a guard round), `job[w]` (a decision) or `req[h]` (a request). `map` in `PROJECT.json` gives
the lines of every definition.

**Calls and their outcomes.** A Redis command succeeds, or fails without effect,
or, where the caller could be misled, fails although it took effect (SETNX whose
answer is lost: the token is an `Orphan` then). go-redis keeps its default retries
(redis.go:22-26), so a command without an answer is sent again. Most commands may be
repeated; the LPUSH of a signal may not, and `TradeQueue` has the tries: each takes
effect or not, and is answered, sent again or given up. It takes effect before the
next try is sent, if at all. A SETNX sent again finds its own token and is refused,
which again is the `Orphan`; in `Bot` a signal queued twice is one more push.
go-redis refuses to start a
command on a cancelled context, so after a shutdown every command fails. A signed
exchange call has a context of its own and is acknowledged, refused or lost: the
last is the 10s timeout of a call the exchange did carry out.

**Abstractions.** Prices and sizes are small naturals (sizes in units of 1e-8 so
that the rounding of partial take profits is the code's). Symbols are taken as
already normalised. `DryRun` is off. The exchange is assumed to accept reduceOnly
together with positionSide, as the code sends them. A dedupe mark is never asked
for after its bucket, so its expiry is not modelled. The candidate first position
of `GetPosition` is any listed one. Audit lists and the order confirmation
goroutine are left out: nothing reads them back. In `Bot` a lock does not expire
under a live holder; `RedisLock` shows under which budget that is so. What ties
the two locks together is `SectionLock`, which both implement: `RedisLock` for the
sections of processes that are not stopped and under `SufficientTTL`, each key of
`Bot` without a condition. `SectionLock` is enough for exclusion, and the lock
with time keeps its promise while the budget holds. That the whole executor could
run over the lock with time is an argument from this, not a theorem. A Redis
command is taken to last less than one unit of time. `forceFullNext` and
`anyAction` only choose the pool and are left out of `Scan`, whose pool is any
set; as it happens nothing calls `UpdateVolatilityPool`, so the pool is always
the full list. A market datum is its symbol in `Scan`, and its candles in
`SymbolScan`. Prices are integers there and the indicators exact fractions: the
floats of the code differ by rounding only, which no property looks at. The
standard deviation is compared by its square. In `CandleCache` the TTL may end at
any moment, and the RWMutex is Go's: a pending writer keeps new readers out, and
its unlock admits those that waited. `Dashboard` treats a handler that touches one
key as one step and splits the others at each Redis command and exchange call; the
history variables `upAgo`, `inForceAgo` and `missed` only say what a property needs
to know of the past. `HttpClient` has one client: the lazily made singletons
(http_client.go:27) are assumed to be made once, which the code does not see to.

## 3. Runs

The first eleven hold; their sizes are distinct states.

| run | instance | shows | states |
|---|---|---|---|
| `Entry` | 2 bots, 5 signals, any 3 pushed, 2 time buckets, 1 fault | `ImplementsSectionLocks`, `OneOrderPerWindow`, `ProtectionOfLatest` | 1.2M |
| `Guard` | 2 bots, a short position held, 1 entry of 2 units, 1 fault, 4 orders | `TypeOK`, `LevelsFromEntries`, `CleanupSparesLive` | 1.4M |
| `GuardLiveness` | 2 bots, 1 entry, 1 fault of any kind, fair | `GuardProtects`, `BotsReturn` | 34k |
| `RedisLock` | 3 clients, TTL 6, 2 calls of 2, slack 1 | `TypeOK`, `LockOutlivesSection`, `NeverFreesAnother`, `ImplementsSectionLock`, `LockEventuallyFree` | 153k |
| `TradeQueue` | 2 workers, 2 symbols decided twice each, 2 bots, 2 faults, 1 retry | `TypeOK`, `ListsBounded`, `PoppedInDecidedOrder`, `ImplementsChannel`, `SignalsLeaveQueue` | 306k |
| `HttpClient` | 2 callers, 4 headers | `TypeOK` (which caps level and window), `RateBound`, `DemandHonoured`, `EveryCallReturns` | 174k |
| `Scan` | 4 symbols, semaphores of 1, buffer of 2 | `TypeOK`, `NothingLost`, `RoundsDisjoint`, `CrashOnlyAfterCancel`, `RoundEnds`, `ScannerStops` | 30k |
| `Decision` | 2 workers, 3 attempts, panics | `TypeOK`, `ModeRespected`, `DecisionEnds` | 271k |
| `WebSession` | the code's timeouts (5s, 5s, 30s, 60s) | `ReaderEnds` | 3k |
| `SymbolScan` | 3 timeframes of which 2 core, 8 trends | `TypeOK`, `MapAccessExclusive`, `SignalHasCause`, `IndicatorBounds`, `ScanEnds` | 78k |
| `Dashboard` | 2 requests, 2 overrides, TTL 2, outages, shutdowns, restarts | `TypeOK`, `StatusIsRecent`, `EditTouchesOwnKey` | 1.6M |
| `CleanupRace` | 1 bot, no fault | `EntriesGetStop` is violated | |

**Bounds.** `MaxFaults`: one fault is enough to put a failure between any two
steps, and the properties about faults are about one gap each. `MaxSignals` and
`MaxOrders`: three signals let an entry be repeated and followed by a close; four
orders let one position have its stop and both targets besides the entry. When
`MaxOrders` is reached the exchange refuses, and the liveness properties of the
executor name that as an outcome. `MaxTime`: two buckets in `Entry`, in the other
runs of `Bot` time plays no part. `GuardDue` turns the guard interval on: `Entry`
is about the entry path alone, and without it the queue. One symbol suffices
since all keys contain the symbol and no rule relates two symbols, except in the
snapshot of the guard, where the short side of the same symbol stands for the
rest of the account. The sections of the guard, which `Entry` leaves out, are
covered by the theorem that `ImplementsSectionLocks` is. `Entry` and `Guard` are reduced by the symmetry of the bots
and check no liveness. In `HttpClient` time is relative, so no run ends for want
of it; `MaxAge` bounds the observed interval, which may begin at any instant,
`MaxLimited` the refusals, and the liveness property needs that they end some
time. The numbers of `HttpClient`, `RedisLock` and `Scan` are the code's, scaled
down with their order kept (TTL above calls, buffer twice the semaphore).
`TradeQueue`: two signals for each symbol let a newer one meet an older one and its
copy; a retry for each push and two faults let an answer be lost and a worker die, or
both workers die, as they do with their process.
`SymbolScan`: two core timeframes and the trend are enough for every exchange of
the lock between a writer, a waiting reader and a waiting writer; the trends fail,
are empty, short, flat, rise, fall, and turn before and after the closes the
RSI looks at, with periods of 2 and 3 in place of 14 and 20. `Dashboard`: two
requests overtake each other in every order, two overrides tell the named one from
another, and ages stop counting where they no longer matter; requests and keys are
interchangeable and only safety is checked, so it is reduced by symmetry.

**Fairness.** A goroutine that can go on is scheduled (weak fairness per bot,
worker, caller), because every wait of the code has a timeout; a process that
ended is restarted (`restart: unless-stopped`); Redis expires keys; time passes.
Prices, fills, faults, new calls and the operator owe nothing. In `WebSession`
three cases of the select have strong fairness, since Go chooses at random among
the ready ones. In `SymbolScan` every goroutine of a scan runs on, since requests
have a timeout of 10s and the RWMutex starves nobody; no scan need begin and no
entry expire. `Dashboard` is safety only and states none. `BotsReturn` and `RoundEnds` need no more than that.

**Deadlock** is checked everywhere but in `Scan` (the scanner returns, the
program may crash) and `TradeQueue` (at rest when all signals are worked off).

### What the documents say and the code does not do

One of these is a run; the others are kept as configurations which TLC refutes in
the same way (`tlc -config <name>.cfg <module>`). TLC stops at the first statement
it refutes, so of a configuration with several keep one at a time.

| configuration | module | property | what happens |
|---|---|---|---|
| `CleanupRace` (run) | `MCBot` | `EntriesGetStop` | GRD:285 deletes the record of a position opened after the snapshot; bot.go:231 |
| `GuardClaims` | `MCBot` | `FlatIsCleaned` | GRD:28 returns on an empty account before the cleanup README.md:31 promises |
| | | `NoDuplicateStop` | GRD:105 compares lower case with upper case, so each round places the stop again; ENG:138 |
| `StopOnly` | `MCBot` | `EntriesGetStop` | ENG:129 saves a record with only a stop, GRD:82 skips it |
| `ShutdownSave` | `MCBot` | `EntriesGetStop` | main.go:153 cancels the context between order and record |
| `LostAnswer` | `MCBot` | `EntriesGetStop` | ENG:97, the timeout of an accepted order is an error |
| `WindowEdge` | `MCBot` | `NoRepeatWithinWindow` | dedupe.go:18, windows are buckets; README.md:26 |
| `StaleCancel` | `MCBot` | `CancelsOnlyWhenFlat` | the cleanup cancels by its snapshot; GRD:254 |
| `PositionLimit` | `MCBot` | `ConcurrentPositionsBounded` | nothing enforces MAX_CONCURRENT_POSITIONS; README.md:185 |
| `WindowCheck` | `MCHttpClient` | `NoRequestInWindow` | the window is checked before the wait for a token; http_client.go:42 |
| `ScanClaims` | `MCScan` | `GracefulShutdown` | stream.go:50-55 closes the channel under its senders; main.go:155. Only a cancel while the dispatcher still starts tasks does it |
| | | `NoSignalAfterCancel` | main.go:225 breaks out of the select only; main.go:152 |
| `DecisionClaims` | `MCDecision` | `RuleStatsRecorded` | HSET on a key that holds a string; bot.go:420 |
| | | `AccountErrorHarmless` | bot.go:360 slices a short message; bot.go:79 |
| | | `RequestsCounted` | trader.go:231 counts a failed decision once more; README.md:222 |
| | | `LatestDecisionShown` | handlers.go:481 reads a list that only the rule path writes; the AI path writes another (trader.go:371) |
| `WebPush` | `MCWebSession` | `MessagesArrive` | websocket.go:129 leaves with the 5s context of the token check; README.md:35 |
| `SymbolScanClaims` | `MCSymbolScan` | `FlatMarketWaits` | indicators.go:68, no losses are an RSI of 100: a market that stands still is sold; rule_strategy.go:41 "overbought" |
| | | `OversoldIsBought` | rule_strategy.go:18, nothing but losses are an RSI of 0, which counts as none; line 17 |
| | | `OverboughtIsRecent` | indicators.go:60 sums the first changes of 200 candles, not the latest |
| | | `OIRemembered` | scanner.go:324 returns before the first value is stored, so the change is always 0 |
| `DashboardClaims` | `MCDashboard` | `OverridesKept` | handlers.go:244, two edits lose an update, and a failed GET drops all overrides |
| | | `DeletionDone` | handlers.go:283, a deletion whose GET fails is acknowledged |
| | | `ShutdownGraceful` | server.go:132 shuts down in a goroutine nobody waits for |

Read along the way, without a statement of its own: the test
`tests/indicators_test.go:82-93` expects a squeeze at a bandwidth that equals the
threshold, the code compares with `<`; handleEquity looks for `USDT` in a balance
that has the fields total, free and used; saveScanResult stores no `items` for the
handlers that read them; the write timeout of the server (15s) is shorter than a
status request may take (17s); metricsMiddleware does not count a request that
panics; `WebStatusCacheTTLSec` is not used and `clear` of the status cache never
called; the recommendations of the optimizer are written and never applied, and the
prompt that handleSetAIPrompt stores is read by the dashboard alone; a candle
series without one readable candle is cached as an empty one until its TTL is over.

## 4. Proofs

`tlapm M.tla` checks module M. The theorems hold for every value of the
constants that meets the named assumptions of the module
(`LockConstants`, `TradingConstants`, ...).

| theorem | states | argument |
|---|---|---|
| `RedisLockProofs!TypeCorrect` | `TypeOK` | inductive as it stands |
| `RedisLockProofs!LockOutlives` | `SufficientTTL => []LockOutlivesSection` | inductive with `TypeOK`: each step uses up at least as much of the section's budget as of the TTL |
| `RedisLockProofs!Exclusion` | `SufficientTTL => []MutualExclusion` | from `LockOutlives`: whoever works holds the one token |
| `RedisLockProofs!Implementation` | `SufficientTTL => (Spec => ImplementsSectionLock)` | from `LockIInv` and the fact that only processes inside a section stand still: a section that time passes in has more than a unit left on its key (`TimeLeft`), so a key only expires, or is only deleted by a process that was stopped, when nobody works under it |
| `RedisLockProofs!PromiseExcludes` | `ImplementsSectionLock => []MutualExclusion` | inductive for the abstract lock: at most one inside, and the key is set then |
| `RedisLockProofs!ReleaseIsOwn` | `NeverFreesAnother` | from the compare-and-delete, without an assumption on the TTL |
| `TradeQueueProofs!TypeCorrect`, `Bounded` | `TypeOK`, `ListsBounded` | inductive, with a signal in hand exactly on the way to its push; each bound counts the workers between push and trim and the faults, and assumes finitely many workers |
| `TradeQueueProofs!DecidedOrder` | `PoppedInDecidedOrder` | `OrderInv`: a signal in hand is the latest decided for its symbol, two workers never have the same symbol in hand, a symbol still to do is in nobody's hand, and what was pushed is earlier than what is in hand; the join of the round is what lets `todo` be filled again |
| `TradeQueueProofs!Refinement` | `Spec => ImplementsChannel` | each step maps to a step of the channel (a lost answer of BRPOP to Lose) or a stutter |
| `BotProofs!TypeCorrect` | `TypeOK` of the executor | one lemma per module: `Moves` says what a step of a bot may change |
| `BotProofs!LocksHeld`, `Exclusion` | every bot in a section holds its lock key; `SectionsExclusive` | `LockInv` is the strengthening: the key of a section holds the bot's own name, which only its own step can change |
| `BotProofs!LocksImplemented`, `Implementation` | `ImplementsSectionLocks`; `SectionOf(l)!Spec` for every key `l` | a step of a bot does one of three things to a key (`SectionMoves`): leave it as it is, end the own section under it, take it when it is free; by `LockInv` an orphaned key has nobody under it |
| `BotProofs!WindowRespected` | `OneOrderPerWindow` | needs the lock: between the look at the mark and its setting no other bot is in the section, so a marked attempt is visible to every later look in its bucket, and the clock never goes back |
| `BotProofs!LevelsRespected` | `LevelsFromEntries` | `LevelsInv` follows the levels from the signal of an acknowledged entry to the record, to the locals of a round and to its orders; each station is about one key, and the history only grows |
| `BotProofs!LatestRespected` | `ProtectionOfLatest` | needs the lock again: while a bot goes from the answer to an entry to the record for it, nobody else posts an entry of that symbol; without faults no write is lost and no context cancelled |
| `BotProofs!CleanupRespected` | `CleanupSparesLive` | `CleanInv`: the cleanup works on keys that were flat in its snapshot, and as identifiers of orders are never given out twice, those it collected stay with the key it visits |
| `HttpClientProofs!TypeCorrect`, `DemandsHonoured` | `TypeOK`, `DemandHonoured` | inductive with the ranges of tokens, level and waits; `Extend` never brings the end of a window forward |
| `HttpClientProofs!RateLimited` | `RateBound` | `sent * Period + credit + elapsed` stays below a full bucket plus the age |
| `ScanProofs!TypeCorrect` | `TypeOK` of the scanner | for finitely many symbols; the places taken in semaphore and channel are counted by the tasks that hold them |
| `ScanProofs!AllCounted`, `NoOverlap`, `NoEarlyCrash` | `NothingLost`, `RoundsDisjoint`, `CrashOnlyAfterCancel` | `RoundInv`: a round is open, closed or over, and while it is not cancelled every symbol of its pool is counted, failed or under way, in one place only |
| `DecisionProofs!TypeCorrect`, `ModeIsRespected` | `TypeOK`, `ModeRespected` | `ModeRespected` looks at who decided, so `PathOf` ties each label of a worker to the mode it read: on a path of the AI or of the rule, the mode read was that one, and a decision is only made there |
| `SymbolScanProofs!TypeCorrect`, `MapExclusive` | `TypeOK`, `MapAccessExclusive` | `LockInv`: who reads or waits to read is at a reading label, and whoever writes is the announced writer while there are no readers; this carries the two changes of the lock in getCache |
| `SymbolScanProofs!SignalsCaused` | `SignalHasCause` | `CauseInv`: between its start and its decision a scan has no verdict, from the join on its core timeframes have candles, and the candles it decided by stay until the next scan |
| `SymbolScanProofs!BoundsKept` | `IndicatorBounds` | by induction over the candles of a series, with scaled sums in place of fractions: an average of closes lies between two of them (`EMABetween`), gains and losses are not negative (`RSIMeaning`), a signed sum stays within the sum of its parts (`FlowBounded`) |
| `DashboardProofs!TypeCorrect`, `EditsApart`, `StatusRecent` | `TypeOK`, `EditTouchesOwnKey`, `StatusIsRecent` | what an edit has read agrees with what is stored but for the keys in `missed`; the age of a status and the time spent on it bound how long ago what it says was so |

**Assumptions.** `SufficientTTL` is a hypothesis of three theorems and no assumption:
ENG:50-51 claims it in a comment ("60s TTL, enough time"). `ScanConstants` takes
candles with natural prices and volumes and periods above zero; `ValidateConfig`
(config/validator.go:109-123) refuses to start with others. The other named
assumptions only type the constants and keep markers such as `Free` apart from
processes.

**Induction over a series.** The library's induction theorems take an operator and
cannot be used here, so `SymbolScanProofs` has its own in first-order form: a set of
indices without a least counterexample is all of them (`Induction`), and a function
given by a start and a step exists (`Recursion`). `Totals` and the averages of
`Indicators` are recursive functions for that reason.

**Only model-checked**: liveness (`GuardProtects`, `BotsReturn`,
`LockEventuallyFree`, `SignalsLeaveQueue`, `EveryCallReturns`, `RoundEnds`,
`ScannerStops`, `DecisionEnds`, `ReaderEnds`, `ScanEnds`), which the prover does not
reach. Every other property of a passing run is a theorem, and so are
`MutualExclusion` and `SectionsExclusive`, which the two refinements imply and no
run checks on its own.

## 5. Plan

Done, in this order: the executor (`Trading`, `Engine`, `Guard`, `Bot`), the lock
with time, the queue and its abstraction, the market data client, the scanner,
decisions, the WebSocket session, the symbol scan with its cache and indicators, the
dashboard, the theorems above, and the abstract lock with its two refinements.

What the order of the queue does not cover: two bots may carry out in any order what
they popped in order, and a copy of a signal is popped like any other; the second order
for it is the matter of `OneOrderPerWindow`.

What would come next: the composition of `Decision` and `TradeQueue`, so that the
mode of a signal is followed into the queue; and a `HttpClient` whose callers may have
made two clients.

## 6. Not modelled

Prompts, parsing, signing and JSON (data); audit and trade histories, metrics and
logs (nothing reads them back); configuration (constants of the modules; the
optimizer only writes recommendations); the handlers that only read, routing and
authentication (single steps); candle patterns and the updates of the symbol pools
(no caller); the ticker price, the funding rate and the stored snapshot of a scan
(labels); command-line tools. The `components` of `PROJECT.json` have every part
with its reason.
