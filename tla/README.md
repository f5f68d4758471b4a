# A verification project for the Polymarket bots

The repository holds several small trading systems around one HTTP client for
the Polymarket CLOB. This directory holds TLA+ models of the parts that keep
state, the TLC runs that check them on small instances, and theorems about them
whose proofs TLAPS checks.

## Inventory

| Component | State it keeps | Operations | Talks to |
|---|---|---|---|
| Madawc paper engine (`Madawc/Madawc_v2/paper.py`, `models.py`) | ledger (cash available, cash reserved, holdings), orders, one position per market | create, fill, expire/cancel an order; settle or sell a position | called by the bot |
| Madawc bot cycle (`bot.py`, `signal.py`, `runtime.py`) | universe, dedupe set, per-cycle trade counts, clock drift | `run_cycle`: discover, visit every token, settle, save, sleep | Gamma, CLOB, websocket, engine, storage |
| Madawc discovery (`discovery.py`) | none of its own; computes the universe | `refresh_universe`, classification | Gamma |
| Madawc storage (`storage.py`) | SQLite: `pseudo_trades`, `state`, `events` | upsert a row, save and load the snapshot, count | bot, launcher |
| Madawc factory and launcher (`factory.py`, `launcher.py`) | rate limiter, position in the event log | build the bot, endless loop, append the trade log | Gamma, CLOB, disk |
| Korlic (`KORLIC_v2`) | as Madawc, with an event table and a trade log | as Madawc, with a position-based limit and a dedupe key by time bucket | as Madawc |
| Old Madawc (`old_ancient`) | as Madawc | superseded by Madawc, with a launcher of its own | as Madawc |
| MM001 (`mmaker001/MM001`) | order-book cache shared with a websocket thread, rotating list of sources, paper inventory, metrics, order counters | refresh, next tick, quote, simulated fill, trades log | CLOB REST and websocket, disk |
| Talic runtime (`Talic/runtime`) | mode, idempotency ledger, failure count | process events with retries, degrade, recover | injected handlers |
| ToTheMoon mean reversion (`strategies/automated_paper_v1_web`) | a state file and a trade file | run once over the listed markets | Gamma, CLOB, disk |
| ToTheMoon autopilot (`strategies/polymarket_autopilot`) | SQLite portfolio, positions, snapshots | cycle: fetch, trade, take profit, record; publish | Gamma, SQLite |
| ToTheMoon autopilot, earlier copy (`rootdir_strategies/polymarket_autopilot`) | as the autopilot | the same cycle once, without a rate limiter | as the autopilot |
| ToTheMoon market maker MVP (`strategies/mvp1_market_maker`) | positions and inventory in memory, order and fill rows in SQLite | run a cycle, resolve a market | SQLite |
| ToTheMoon research engine (`strategies/polymarket_engine`), MVP library (`polymarket_mvp`) | CSV price histories, paper portfolio; nothing | catalogue, download, backtest; group, score, enter, settle | Gamma, CLOB, disk |
| ToTheMoon API (`api.py`) | one rate limiter for each endpoint, shared by threads | request with retries | every strategy |
| CLOB client (`py_clob_client`) | credentials, tick-size, fee and neg-risk caches, one shared http client | build, sign and send requests; obtain keys; list; create orders | CLOB |
| Order builder, RFQ client, signing | none | amounts and prices; both ends of a quote; headers | the client |

What is hard in this code:

* **Partial fills over many cycles.** An order may be filled by the cycle that
  made it, by the book watch of a later cycle, be expired by the first or
  cancelled by a settlement; each must move the same money once.
* **Awaits between a check and its use.** The watchlist is computed once; slow
  calls carry the loop past a market's end.
* **Failing and repeated calls.** Gamma, the books and the resolution poll may
  each fail in any cycle; a poll is repeated until a winner is known.
* **A listing that flickers.** A market may be missing from one cycle's listing
  (pagination, a paused book) and come back.
* **Crashes.** Rows are durable at once, the snapshot once per cycle, memory never.
* **Threads** (MM001's cache, ToTheMoon's rate limiters, the client's shared http
  connection), **redelivery** (Talic), **two files or two transactions that must
  agree** (ToTheMoon).
* **Lists that change while they are paged** (the crawl of Gamma, the account's
  open orders), **answers that are lost after the exchange acted** (a repeated
  call, a key that was created all the same).
* **Caches with and without an expiry** under rules the exchange may change, and
  **floats** in amounts that are signed.

What makes each component correct: the engine's ledger, orders and positions
tell the same story and no money appears; the bot settles what is resolved,
exactly once, reports what the ledger shows and leaves nothing open behind it;
storage never contradicts itself after a crash; MM001 should quote on no mid older
than it believes, and on every market in turn; Talic applies each mutation once and only in NORMAL mode; the
portfolios never spend the same cash twice and their stores explain each other;
the client signs what it sends, under rules the market had, and never has a call
executed more often than it lost answers.

## Modules

| Module | What it is |
|---|---|
| `Sums` | running totals and filtered sequences, as recursive functions that can be reasoned about |
| `MadawcPaper` | the paper engine and its ledger; one action per engine method |
| `MadawcBot` | the bot's cycle; extends `MadawcPaper` and calls its actions |
| `OrderBookSource` | the order-book cache of one MM001 source, between the websocket thread and the REST refresh |
| `SourceRotation` | the rotating pool of sources and the launcher that drives it; extends `OrderBookSource` |
| `PaperAccount` | what a paper account promises, in three amounts; the engine implements it |
| `KorlicBot` | Korlic's cycle with its engine, rows, reports and trade log |
| `GammaListing` | the crawl of active markets that feeds Madawc and Korlic |
| `MeanReversion`, `Autopilot`, `Mvp1MarketMaker`, `PolymarketEngine`, `PolymarketMvp` | the strategies of ToTheMoon |
| `RateLimits` | the rate limiter of ToTheMoon's HTTP client and the threads that share it |
| `Mm001Simulator` | MM001's cycles: quotes, simulated fills, metrics, launcher |
| `TalicRuntime` | the event loop with its modes, idempotency ledger and retries, called again and again and restarted |
| `Programs` | the ten modules above side by side, from `KorlicBot` on |
| `ClobHttp` | the transport: one http client for all threads, one repetition |
| `ClobRequests` | every call with its headers and signatures; the pages of a trade listing |
| `ClobSession` | API keys, orders and their listing, against an exchange that forgets and revokes |
| `ClobOrderCreation` | the caches and the steps of `create_order` and `create_market_order` |
| `OrderAmounts` | the amounts an order is signed with; the price a market order takes |
| `RfqFlow` | the request-for-quote client at both ends |
| `ClobClient` | the six modules above side by side |
| `MCMadawcPaper`, `MCMadawcBot`, `MCSourceRotation`, `MCPrograms`, `MCClobClient` | small sets for TLC |
| `SumsProofs` | lemmas about totals and sums over finite sets, recursive functions, quotients, finite orders, cardinalities, flattened and filtered sequences |
| `MadawcPaperProofs` | theorems about the engine: reserve, money, fills; it implements the account |
| `MadawcBotProofs` | the bot implements the engine's specification; settled markets stay clean; rows, snapshot and report |
| `TalicRuntimeProofs` | theorems about the runtime |
| `SourceRotationProofs` | theorems about caches and rotation |
| `ProgramsProofs` | theorems about mean reversion, Korlic, the autopilot, the rate limits, the crawl of Gamma's pages, the research engine and the MVP library |
| `MarketMakerProofs` | theorems about the two market makers: limits, marked fills, counters, fees; the types of all ten programs; extends `ProgramsProofs` and `TalicRuntimeProofs` |
| `ClobClientProofs` | theorems about every part of the client |

### `MadawcPaper`

Money is in integer ticks, shares in integer lots. `open_orders` is the sequence
of all orders ever made, as in the code, where closed orders stay in the
dictionary. A position stores `cost` = `avg_price * size`, which `try_fill`
accumulates. `Open`, `Fillable`, `Unused`, `AfterFill` are the expressions of
the code under a name; `CreateOrder`, `TryFill`, `ExpireOrder`, `AwaitWinner`,
`SettleMarket` (the two outcomes of `settle_market`) and `ClosePositionAtPrice`
are its methods. A call that returns early changes nothing and is a stutter.
`end_known` stands for `expected_end_utc`, which the bot sets after some fills.

### `MadawcBot`

`run_cycle` is a single asyncio task: nothing interleaves between two awaits, but
the process can die anywhere and every row is durable at once. `pc` stops after
each engine call and each write, so a crash can be placed between any two of
them; the environment acts between any two steps too, and time advances where
the code awaits an order book or sleeps.

| `pc` | Actions | Code |
|---|---|---|
| discover | `DiscoverMarkets(listed)`, `GammaFails` | `bot.py:94-230`, `discovery.py` |
| token | `SkipToken`, `FetchBook`, `BeginSettlement` | `bot.py:232-264`, `985-1007` |
| watch | `WatchFill`, `NothingToWatch` | `bot.py:866-898` |
| exit | `ExitAtFlat`, `KeepPosition` | `bot.py:900-983` |
| signal | `OpenOrder`, `NoSignal` | `signal.py:34-75`, `bot.py:298-378` |
| fill | `FillNewOrder`, `NewOrderUnfilled` | `bot.py:379-478` |
| expire | `ExpireNewOrder`, `KeepNewOrder` | `bot.py:479-504` |
| settle | `StillUnresolved`, `PollResolved`, `SaveState` | `bot.py:998-1018`, `storage.py:141-153` |
| cancel | `CancelOrder`, `SettlePolled` | `bot.py:1019-1040`, `754-832` |
| sleep | `Sleep` | `launcher.py:154-174` |

Environment: `listed` is any set of markets, every call may fail, a book shows
any depth, `Resolve` publishes a result once a market has ended, possibly first
without a winner. `Crash` replaces the process: `launcher.py` builds a new bot on
the same database and calls nothing that would read the snapshot back.

### `TalicRuntime`

One action is one step of `process_events`: `Replay`, `Refuse` and `Begin` take
the next event of the stream (any event, any number of times), `HandlerReturns`,
`Retry` and `HandlerFails` are the outcomes of an attempt, `Record` writes the
ledger, `Return` ends the call. A handler may take effect and still raise, so an
attempt chooses both. `HandleError` is the whole `except` block: it counts, asks
`update_state_for_error` for a mode and goes on, or stops in `refused`, where
`transition_to` would raise. Mode and ledger are carried from `Call` to `Call` by
the host, which may call `apply_recovery` in between; `--mode` of a new process
is any mode. An exception that leaves `process_events` (`validate_input`, a
missing key) and a crash are the same `Die`: nothing but the outside effects
survives. `effects`, `failures` and `starts` record history for the properties
and guard nothing but the bound on `starts`.

### `OrderBookSource` and `SourceRotation`

Two threads share a source's cache: the websocket thread (`ApplyWsMessage`, one
side at a time) and the main thread, whose `refresh_cache` is cut where the lock
is released: `EnsureWsThread`, then the check (`ReuseCache` or `BeginFetch`), the
REST calls outside the lock (`FetchMid`, `FetchFails`), `StoreMids`. A mid is
abstracted to the time since it was written; its value matters to nothing
modelled. Any step may take time (`TimePasses`), and the exchange may remove a
book at any moment (`Delist`), after which fetching it fails with a 404. Other
errors (an empty book, a timeout after three attempts) may hit any fetch.

`SourceRotation` adds the pool. `VisitNext` to `ReturnTick` is `next_tick`,
`BeginScan` to `EndScan` is `refresh_cache` over all sources, once for each
second slept; `RemoveSource` serves both, and `CallFails` is the exception that
the launcher logs. `caller` says which of the two methods is running. A dropped
source's thread keeps running, as in the code, where nothing closes it.
The cursor, which grows without end, is kept modulo `CursorModulus`, a multiple
of every possible pool length, which changes no position it selects. The pool
with one source behaves as the plain `ClobOrderBookSource` the factory then uses,
except that the launcher would keep a source without a book.

### `PaperAccount`

The abstract specification of the engine: `cash`, `reserved` and `stake`, and the
five moves between them. `MadawcPaper` instantiates it with `cash_available`,
`cash_reserved` and a stake that is the cost of what is held less the profit of
what was closed; `Overdraft` is `AllowNegativeCash`. `ImplementsAccount` is the
refinement, a property of `paper_engine` and a theorem. `Lapse` is what the
account's owner may find surprising: a fill in a market that has been settled
already costs its reserve and never pays.

### The programs beside Madawc

Each module keeps its own state and `Programs` composes them: the programs share
no file, database or account, so a behaviour exercises one of them, named by
`program` at the start, and the others stand still. One run checks them all, and
`TalicRuntime`, described above, with them.

| Module | State and code | Actions |
|---|---|---|
| `MeanReversion` | `self.state` and its file, the trade file (`mean_reversion.py`) | `LoadState`, `ReadPage`, `BuyYes`, `SellYes`; a trade is `RecordTrade`, `TradeRecorded`, `SaveState`, `StateSaved`, cut where a file is truncated and where it is complete |
| `Autopilot` | portfolio, positions, last snapshots in SQLite (`runner.py`, `service.py`, `storage.py`) | `FetchMarkets` (with all signals of the cycle), one `ExecutePaperTrade` for each signal, `RebalanceTakeProfit`, `RecordMarketSnapshots`, `PublishDailySummary`, each one transaction |
| `Mvp1MarketMaker` | positions and inventory in memory, fills and order marks in SQLite (`runner.py`) | `RunCycle`, `AllowQuote`, `DenyQuote`, for each side `RefuseSide`, `PlaceResting` or `PlaceFilling` with `SaveFill` and `ApplyFill`; `ResolveMarket` |
| `PolymarketEngine` | CSV files, catalogue, paper portfolio (`historical.py`, `storage.py`, `risk.py`, `backtester.py`) | `DownloadCatalog`, `DownloadToken`, `FileWritten`, `StartBacktest`, `TestCandidate` |
| `PolymarketMvp` | nothing but the caller's variables (`core.py`) | `ParseMarkets`, `ObserveBooks`, `ScoreRelatedMarketIncoherence`, `ScoreTailPremium`, `SimulateEntry`, `SettleTrade` |
| `KorlicBot` | the bot's memory, table rows, event counter, trade log (`bot.py`, `signal.py`, `paper.py`, `launcher.py`) | `KDiscover`, one of `KSkip`, `KNoSignal`, `KTrade` for each token, `KBeginSettlement`, `KSettle`, `KEndCycle`, `KAppendTradeLog`, `KSleep` |
| `GammaListing` | the records of a crawl, offset and page (`factory.py`, `_retry` in `bot.py`) | `FetchSeed`, `FetchPage`, `StopAtCap`, `RequestRaises`, `CrawlAgain`; the exchange's `EventLeaves`, `EventEnters` |
| `Mm001Simulator` | inventory, metrics, counters, `ticks.csv`, trades log (`bot.py`, `strategy.py`, `launcher.py`) | `StartIteration`, `RunSimulatedCycle`, `RunEnded`, `AppendTradesLog`, `IterationFails` |
| `RateLimits` | window, count and lock of one limiter (`api.py`) | `LockLimiter`, `DecideGrant`, `NewWindow`, `CountRequest`, then `SendOnce` or `SendTransient` and `SendAgain`, `ClockTicks` |

Every program that writes to disk can crash between any two of its writes
(`StrategyCrash`, `AutopilotCrash`, `MarketMakerCrash`, `EngineCrash`, `KCrash`,
`RestartSimulator`); what a crash leaves is what the code had flushed. A file that
is rewritten whole is left torn or cut short. Ghost variables (`ap_bought`,
`mm_unmarked`, `en_downloads`, `sm_ever`, `rl_granted`, `gl_left`) record history
for the properties.

What the models show besides their properties, for a reader of the code:

* Mean reversion: `get_midpoint` returns a dictionary, which `float()` refuses, so
  with today's client every run that reaches a price ends as `RequestFails`. The
  breaker cannot trip, since an exit above `sell_above` never follows an entry
  below `buy_below` with a loss.
* Korlic: an order is never larger than the depth it is filled from, so nothing
  rests (`NothingRests`) and the book watch finds no order; `restore()` has no
  caller. `k_events` counts the events the trade log selects, a batch once.
* MM001: profits are booked on the quotes whatever the market does, so every cycle
  wins (`EveryCycleWins`); the inventory cap of the configuration is enforced
  nowhere; an edge that equals its threshold is decided by a float, hence `Enough`.
* Rate limits: windows are fixed, so twice the limit passes at a seam.
* Research engine: the repetition check compares text with integers and recognises
  repetitions within one answer only (`NewRows`; `PointsOnce` is violated).
* MVP library: a strike is the first digits of the question (`DigitsRead`), which is
  the level asked about if that is the question's first number, in full and with its
  thousands set apart (`PlainlyAsked`). "$100000" is read as 100 and "$95000" as 950,
  "$1m" as 1; beside markets written otherwise the order of the strikes is not that of
  the levels, and a market may be called too dear beside a less likely one
  (`IncoherenceJustified` speaks of levels for plain questions only). A question is modelled as its numbers in order, with the way each is
  written and the one it is about. The liquidity threshold decides nothing (`LiquidityNeverDecides`),
  and a trade may cost its notional and the fee on it.

### The CLOB client

The six parts of the client share no state that changes; `ClobClient` composes
them as `Programs` does, with `clob_part`.

| Module | Code | What is modelled |
|---|---|---|
| `ClobHttp` | `http_helpers/helpers.py` | threads send on one shared client; `Execute` is the exchange's, `NoAnswer` and `ConnectionFails` come before or after it; `CloseClient` and `RenewClient` replace the client under the other threads |
| `ClobRequests` | `client.py`, `rfq_client.py`, `headers/`, `signing/hmac.py` | the catalogue of calls by the level they ask for; what each signature covers; the pages of `get_trades` and `get_builder_trades`, signed once |
| `ClobSession` | `client.py` | `create_or_derive_api_creds` cut between creation and derivation, level-2 calls whose failure leaves open whether they were carried out, `get_orders` page by page while orders leave, heartbeats, revoked keys |
| `ClobOrderCreation` | `client.py` | the tick-size cache with its time to live, the fee and neg-risk caches without one, the caller's arguments, which the client writes to and a second call reuses |
| `OrderAmounts` | `order_builder/builder.py`, `helpers.py` | the rounding with every error a float can have, both kinds of order, and the walk through a book |
| `RfqFlow` | `rfq/rfq_client.py` | requests, quotes, acceptance and approval, and the order each side derives from the quote |

The exchange is external: it is modelled by what the client relies on. Worth
knowing: a body with an apostrophe is signed with a quotation mark in its place
and is refused (`HmacText`); a valid builder configuration that gives no headers
sends orders with the account's headers alone and builder listings bare; a failed
page loses the pages before it; a deleted key stays in the client. A
post-only order that may not rest is refused before anything is sent
(`RefusedBeforehand`). A caller's neg-risk flag is signed without asking the market.

A float sum is its value and an error below one unit of what is compared: `SumErrors`
lets each partial sum of the walk through a book be off by that much, except the
first of a sale, which is a size as it was read. `PriceReachesAmount` therefore says
exactly which level a market order is priced at unless a level meets the amount
exactly; there the error decides between that level, the next and no match: 0.7 + 0.1
falls short of 0.8, and a fill-or-kill order is told that there is no match.

Definitions marked "Altered" are deliberate mistakes (a missing guard, a missing
write). No action uses them; each is swapped in for the definition it follows to
confirm that a property notices.

## Runs

| Run | Question | Instance |
|---|---|---|
| `paper_engine` | do ledger, orders, positions and money agree after any engine calls, and does the engine implement `PaperAccount`? | 2 markets, 2 sides, 2 prices, 2 orders of 2 lots, depths 0-2: partial fills, merges of both sides, fills after a settlement and after a sale |
| `bot_cycle` | does the bot stay within the engine's protocol, report the ledger's profit, and settle what is resolved? | 1 market ending at tick 3, 2 tokens, trade limit 1, 5 ticks, no crash, no early exit |
| `bot_crash` | what survives a crash at any point? | market ending at tick 2, trade limit 2, 1 crash |
| `bot_exit` | do early exits and the fills after them create money? | early exit at 3 times the cost, dedupe limit 1 |
| `source_rotation` | are timestamps honest and ticks complete, does a removal lose or skip a source, does a failing source starve the others? | 2 sources, a window of 2 ticks, 2 ticks in an iteration, 2 seconds of sleep |
| `programs` | do the programs beside Madawc keep their books, files, logs and quotas in step, through crashes, retries and changing lists? can Talic's degradation crash its loop, can a degraded runtime mutate, and what may repeat an effect? | 2 to 3 tokens or markets for each, 1 market of 2 sides for Korlic, 5 events, 2 threads; 1 or 2 crashes each; for Talic 3 events of the 3 types, 2 attempts, 2 events in a call, 2 calls and 2 processes |
| `clob_client` | can everything sent be verified, is what is executed twice explained, are keys, listings, rules, amounts and matched orders right? | 2 threads and 2 faults; 2 nonces, 3 orders in pages of 1, 2 faults; 2 tick sizes and fees, 2 changes; prices of 1 digit, sizes to 20; 2 quotes |
| `reuse_is_fresh` | is the cache reused only if both mids are recent? (no) | as `source_rotation` |
| `one_order_per_token` | is there one order per token? (no) | as `bot_cycle` |
| `orders_close` | do unfilled orders expire? (no) | market ending at tick 2 |
| `restart_resumes` | does a restart resume from the snapshot? (no) | 1 crash |
| `points_once` | is a point in its file once? (no) | as `programs` |

Bounds: `MaxOrders`, `MaxNow` and `MaxCrashes` are named in the guards. In the
bot runs `MaxOrders` is never reached (reaching it would stop the bot, and
deadlock is checked there); the clock stops one tick after the last end, when no
step depends on time any more. One market is enough for the bot's properties,
each of which speaks of one market or of sums over markets: markets interact
only through cash, which the bot lets go negative, through the dedupe limit
(exercised by `bot_exit` with two tokens) and through the order of the scan.
The engine run has two markets. The engine run turns deadlock checking off: with
all orders used up and all positions closed nothing is left to call.

`programs` and `clob_client` turn deadlock checking off too: their programs and
callers stop at the named bounds (`MaxAutopilotCycles`, `MaxLaunches`, `RlMaxClock`,
`MmMaxCycles`, ...), a paper trade is the last step of the MVP library, a
thread of `ClobHttp` has one call, and Talic's last process may be down for good. The bounds let each case happen: mean reversion
reads two pages and may crash twice, so that a state can be torn after a
history was parted from it; the autopilot's third cycle sees snapshots of both
earlier runs; Korlic's market ends one tick before the clock stops and a process
may be restarted twice around it; a crawl needs three pages and the list may
change twice; the limiter's clock runs through two windows and a half, more than
any stretch the quota speaks of; two events in a call of Talic and two calls, in
one process or in two, let an error meet every mode the earlier ones can leave
behind, `RETRYING` included, which only `--mode` reaches; the simulator's log spans two iterations; in
`clob_client` the market may change its rules twice within one and a half times
to live, and Guard and Fine are the smallest that keep a float's error apart
from a digit. Orders of the session are interchangeable, so they are symmetric
(`MCSymmetry`); no property of that run is temporal.

Fairness: the launcher's loop never ends, so the bot's steps are weakly fair
(`WF(BotStep)`). Gamma and the resolution poll are strongly fair: each is called
again in every cycle, with four attempts and exponential backoff per call, and a
service that answers at all answers again and again. Nothing is assumed of the
listing's contents, the books, or the time at which a market is resolved.
`PositionsSettle` is therefore conditional on a published winner.

`SourceRotation` assumes that the launcher's thread is weakly fair: nothing
blocks it, since every REST call ends, if only by its timeout, and the lock is
held for assignments only. Nothing is assumed of the websocket or of the books,
so `EverySourceVisited` covers a source that fails at every visit.
Two sources suffice for the removals: one position before and one behind the
removed one. Strict alternation after a removal, which needs three, does not hold
and is not claimed (see the hazards).

### What the violations show

* `ReuseIsFresh`: one timestamp serves two mids. A websocket that speaks of one
  token keeps the other's mid in use at any age.

* `OneOrderPerToken`: deduplication is pruned to the current listing. A market
  missing from one cycle loses its keys and is ordered again when it returns.
* `OrdersClose`: an order is expired only in the iteration that created it and
  cancelled only if its market has a position. An order placed earlier that
  never fills keeps its reserve for ever.
* `RestartResumes`: the snapshot is saved and never read back.
* `PointsOnce`: the keys read back from a price file are text, those of the new
  points hold an integer; none is recognised and a second download repeats them all.

## Proofs

Assumptions: the named `ASSUME`s on constants, one or two in a module
(`AmountsAssumption`, `BotAssumption`, `KorlicAssumption`, ...), which TLC evaluates in
every run whose module extends theirs. Markets, tokens, threads, sides, prices,
sizes, depths, limits, pages and the bounds on crashes and faults are arbitrary.
The assumptions say what the code or its configuration fixes:

* sets of markets, tokens and threads are finite, amounts and limits natural
  numbers, and a marker such as `NoPosition` is no value of its kind;
* `TornAssumption`: what is left of a torn file parses neither as a state nor as a
  history;
* `StrategyAssumption`: a midpoint is positive, so 0 can stand for no position;
* `ListingAssumption`: Gamma lists an event at most once at any moment;
* `SpreadAssumption`: the highest fee of a cycle is below half the least spread,
  with `fee_rate_bps` and the floor of the spread as `config.py` sets them;
* `EngineAssumption`: Gamma's and the price history's answers are sequences of records,
  asks and limits natural numbers;
* `MvpAssumption`: a list holds a market once, thresholds are positive and
  `min_liquidity_score` is at most one half;
* `CreationAssumption`: a tick size divides 1;
* `RfqAssumption`: two complementary tokens.

Some theorems have a hypothesis of their own. Early exits (`~ExitEnabled`) are off
by default (`Madawc_v2/config.py:39`); with them a market that was sold early is still
listed and may be ordered again. `MaxCrashes = 0` for the report and for the refinement by
the bot: after a restart the memory is empty while the rows stay. `KMaxTrades = 1`
is Korlic's default (`Korlic_v2/config.py:37`); with 2 a second token may be merged
into the position of the first, and its row stays open. `MaxLosses > 0` for
`ProgramsTyped`: `max_consecutive_losses` is 3 (`mean_reversion.py:25`,
`launcher_helpers.py:196`); with 0 the first loss, which trips the breaker, would
already be past the limit.

### The paper engine (`MadawcPaperProofs`)

`Spec => []TypeOK`, `Spec => []ReserveMatchesOpenOrders` and `Spec =>
ClosedOrdersAreFinal`. The inductive invariant `IInv` adds `OrdersSound` (no order is
filled beyond its size): without it an order's unused reserve could be negative and
the floor at zero in `release` could hide a missing reserve. `OneOrderChanged` is the
heart of the argument: a step that replaces one order changes the sum of the unused
reserves by that order's difference (`TotalUpdate`), and each method changes
`cash_reserved` by the same amount. In `ExpireOrder` the floor never bites because
each term is at most the sum (`TotalBounds`).

`AccountImplemented` (`Spec => ImplementsAccount`) has one lemma for each method:
every call is a move of the account or leaves it alone. A fill is the hard case: it
is a `Fill` or, in a closed market, a `Lapse`, and what it takes out of the reserve
is never more than the reserve, because one order's share is at most the sum.
`StakeUpdate` says that a change of one position moves the stake by that position's
difference. `NoMoneyFromNowhere` follows from the account, and `FillsAccountedFor`
by the same sums over orders.

### The bot (`MadawcBotProofs`)

* `Protocol` says what one await hands to the next: the token visited is on the
  watchlist, its book is in the engine's range, and the markets still to be
  polled, with the one being settled, have an unresolved position all the while.
  It makes every step of the bot a step of the engine's specification, a stutter
  or a crash (`BotStepIsEngineStep`), and a crash puts the engine back in an
  initial state. `BotImplementsEngine` (`MaxCrashes = 0 /\ BotSpec => Spec`) and
  `BotReserveExact` (any number of crashes) follow, the latter through `IInv`.
* `Finished` explains `SettledStaysClean`: a market is closed only after its end, a
  listing computed after its end drops it, and within one cycle settlement comes
  after the last order. Each part is needed: orders are opened in markets that
  have already ended when calls are slow (`seconds_to_end` is floored at zero),
  so the guard of the signal alone does not exclude a settled market.
* `CycleTyped` adds to the types that a visit begins with a trade left
  (`TradeLeft`), so the counter stays within its limit: `BotTypeCorrect`.
* `RowsSound` is about the results table. A market is `Live` while something can
  still be written about it; a row with a result belongs to a market that has
  ended and is live no more, in this process or any later one, and the engine's
  closed positions all have theirs. From it come `SnapshotsBacked` (every position
  of the saved snapshot has its row, wherever the process stops) and `ResultsFinal`
  (a row with a result is never written again).
* `ReportIsLedger` adds the sums: the profit of the rows is cash, reserve and the
  cost of what is unresolved, less the initial cash. A settlement moves one
  position out of the cost and its profit into the rows; that the row had none
  before is `RowsSound`.

### Runtime and rotation

`TalicRuntimeProofs` proves the runtime's three invariants and its action property
for every set of events and every limit. `NeverRefused` holds
because `transition_to` refuses only `IDLE_SAFE` to `READ_ONLY` or `RETRYING`,
because `RETRYING` is asked for by nothing (a transient error always counts as
exhausted), and because no handler runs in `IDLE_SAFE`, so no transient error
arises there: `TalicHolds` ties each `pc` to the mode it was entered in. For
`RepeatsExplained` it uses a sharper count, `Explaining`: while the present
process has no result for an event, its start may not be used to explain an
effect.

`SourceRotationProofs` proves all the safety properties of `source_rotation`.
The key fact is `KnownStaysKnown`: no step of either thread makes a known mid
unknown, so what a scan leaves behind stays complete (`BehindIsComplete`, which
extends `ScanSkipsNobody` into the calls the scan makes) although the lock is
released between refresh and use. `WithoutProperties` says what dropping a source
does to the others; `OnlyMissingDropped` follows because the source at `index`
when the 404 arrives is the one at `index` when it is dropped.

### The programs (`ProgramsProofs`, `MarketMakerProofs`)

| Theorem | Inductive invariant | Why it is needed |
|---|---|---|
| `TornFileIsFinal` | `TornFileHolds` | on a torn state no run begins, on a torn history none gets past its first trade |
| `DriftBounded` | `DriftHolds` | between the two writes the history is apart from the saved state by the trade under way, but not from the state in memory (`OnItsWay`) |
| `LogRepeats` | `LogCounts` | an event behind `k_last_id` was appended by this process, one before it only by earlier ones |
| `KorlicBooksAgree` | `BooksHold` | a waiting position is one token's and its row is open; each crash orphans at most one open row for each market, and nothing rests between steps |
| `AutopilotBooks` | `AutopilotHolds` | a buy consumes its signal, and the snapshot that explains it is recorded before signals are derived again (`BuysExplained`) |
| `QuotasHold` | `LimiterHolds` | the holder of the lock decides by a clock nobody has granted after; grants are counted by window (`GrantsCounted`), requests by the grants behind them and the threads still to send (`SentBehind`) |
| `CrawlsAreComplete` | `CrawlHolds` | a standing event that was passed over was moved in front of the offset by an event that left (`Skipped`) |
| `FillsMarked` | `FillsCounted` | a filled order is among the unmarked ones until `ApplyFill` |
| `MarketMakerBooksAgree` | `MakerHolds`, `SimulatorHolds` | what the risk gate found still holds at the fill; the rows of a market are those of earlier launches and of the position held now; MM001's log lacks the ticks of the iteration under way |
| `ResearchDataHolds` | `EngineHolds`, `MvpHolds` | a time has at most one row in a file for each download begun (`PointsHold`), the tokens still to download are all different and have a download left (`DownloadsHold`), and what is held without lots has no cost and came from the catalogue (`PortfolioHolds`); every signal is made by a pair or a tail of the markets parsed (`SignalsMade`) and justified by what they showed (`SignalsGiven`), by strikes that are those of the questions (`StrikesRead`) |
| `ProgramsTyped` | `StrategyHolds` and the invariants above | a strategy has losses left until its breaker trips (`LossesWithin`), on disk as in memory; its queue is at most the pages read |

`NothingHidesInSteps` says something of any two members of a group, of which the code
compares neighbours only. In a group without a signal each step to the next
strike hides less than a signal's worth (`QuietGroup`), and a chain of neighbours
leads from one strike to any other in fewer steps than the group has members
(`ChainOfSteps`).

That MM001's cycles win needs arithmetic alone: the quotes of NO mirror those of YES
(`Mirrored`), a quote keeps half the least spread on each side, and a fee is at most
a quarter of its rate.

### The client (`ClobClientProofs`)

* `DeliveriesAreExplained` joins two invariants: of the transport
  (`AttemptsCounted`: an attempt executes a call at most once and only the first
  is repeated; `QuietNetwork`: until the first fault nobody replaces the client)
  and of the requests (`ListingSound`: the headers of a listing are those of its
  call, the cursor is one behind the pages read). That the headers fit their call
  needs the catalogue: `AccountCallPaths` and its neighbours tell the sets of
  calls apart by path and method.
* `CredsAreTheOnesAskedFor` is inductive as it stands.
* `ListingsAreComplete` rests on `ListingInv`: an order that stayed open and was
  passed over (`Missed`) was moved in front of the offset by one that left, and
  dropping an order moves at most one other across (`WithoutKeeps`).
* `OrdersAreSignedUnderMarketRules` rests on `CreationInv`: the cache is never
  older than it says (`AgesSound`), a fee or a neg-risk flag once cached was the
  market's at some time (`FeesSound`, `NegsSound`), and a price checked against one tick is still a multiple of the
  tick it is signed with (`PriceSound`, with `RoundedInside`).
* `AmountsAreAtThePrice` is arithmetic: `AdjustBounds` and `AdjustExact` say what the
  rounding with guard digits makes of a product whose floats may err by less than
  a fine unit, for any scale; `DepthIsReach` that the walk's
  sums are what the levels hold, off by less than a unit, `ErrorDecidesTies` that
  such an error changes a comparison with the amount only where the two are equal,
  and `PriceFromBookSound` that the level at which the walk stops is the worst one
  needed.
* `OrdersOfQuotesMatch` rests on `RfqInv` (the orders of a quote are derived from the
  quote as it still stands) and on `OrdersOfAQuoteMatch`, the two ways of answering
  a request.
* `ClobTypeCorrect` collects the types; they need `HttpInv`, `RfqInv`, `CreationInv` and
  `ListingInv`.

### The lemmas beneath

`SumsProofs` has no induction over data: each fact comes by minimal counterexample
(`LeastNatural`). On it rest what a recursive function is (`RecursionExists` and its
neighbours), what `SumFunctionOnSet` of the community modules does when one term
changes, is added or is bounded, how cardinalities of sets with one member more or
less compare, what a flattened sequence of sequences contains, what a filter keeps
of a sequence (`MembersKept`, `NoMoreKept`), how quotients and products compare, and
how far two members of a finite chain lie apart, given its steps.

### Only model-checked

Every safety invariant and every action property of a passing run is the subject of a
theorem. Liveness (`PositionsSettle`, `EverySourceVisited`) stays with TLC: fairness
is beyond the prover.

## Not modelled, and why

Old Madawc is the superseded ancestor of Madawc: its launcher runs the same cycle
without a settlement, and nothing calls its `restore()`. The copy of the autopilot in
`rootdir_strategies` differs by one cycle per run and the missing rate limiter.
`restore()` of Madawc and Korlic and
Talic's `run_idempotent` have no caller outside tests.

Logging, CSV and business exports, charts, command lines and text classification:
no state other parts depend on. Cryptography (EIP-712, the HMAC itself), JSON and
field parsing, address look-ups and the hash of a book: encodings without
behaviour. ToTheMoon's `real_helpers` and the engine's execution client are
adapters to the live exchange. The backtest's own `order_events.csv` and `fills.csv`
(`execution.py:41-42`) are written under fresh keys and read by nothing. In the crawl
a listed event has at least one market. The RFQ client's conversion to base units is left
out: sizes are exact.

Float rounding is modelled where amounts are signed and books are added up
(`OrderAmounts`) and where a threshold is met exactly (`Mm001Simulator`), not in
the paper ledgers, whose amounts are exact. Clocks move forward only: corrections by the server are left
out. The values of MM001's mids are not followed from the websocket to the quotes.

Two hazards of the list have no property: the row of a second token stays OPEN
(`Madawc/Madawc_v2/bot.py:418`), and a REST answer may overwrite a newer websocket
value (`mmaker001/MM001/bot.py:132`), which a model without values cannot tell.

## Plan

1. Korlic's engine as an implementation of `PaperAccount`, as Madawc's is.
2. Rows of a market's second token in `MadawcBot`, with what the report makes of
   them; clock corrections.
3. Versions of the mids in `OrderBookSource`, so that an old REST answer can be
   told from a newer websocket message, and the mids handed to `Mm001Simulator`.
