------------------------------ MODULE MadawcBot ------------------------------
(***************************************************************************)
(* One Madawc bot: run_cycle (Madawc_v2/bot.py) with the discovery, signal *)
(* and storage code it calls, driving the paper engine of MadawcPaper.     *)
(*                                                                         *)
(* run_cycle is one asyncio task, so between two awaits nothing else runs; *)
(* but the process may die anywhere, and every row it saves is durable at  *)
(* once.  pc therefore stops after each engine call and each write:        *)
(*                                                                         *)
(*   discover -> token -> watch -> exit -> signal -> fill -> expire        *)
(*                 ^ |_______________________________________|  per token   *)
(*                 |                                                       *)
(*               settle <-> cancel -> sleep -> discover                    *)
(*                                                                         *)
(* Gamma, the CLOB and the exchange that resolves markets are the          *)
(* environment: what they answer, and whether they answer, is any choice.  *)
(* Time is the server's, in ticks; time_sync is taken to have no error.    *)
(***************************************************************************)
EXTENDS MadawcPaper, FiniteSets, Functions

CONSTANTS
    End,                \* market.end_time of each market
    WatchWindow,        \* config.watch_window_seconds
    EntryWindow,        \* signal config.entry_seconds_threshold
    OrderExpiry,        \* config.order_expiry_seconds
    MaxTradesPerMarket, \* config.max_trades_per_market
    EntryPrice,         \* signal config.entry_price
    StakeSize,          \* max_stake_per_trade / entry_price
    MinDepth,           \* signal config.min_operational_size
    MinOrderSize,       \* signal config.min_order_size
    MaxDedupe,          \* SignalEngine.max_dedupe_entries
    ExitEnabled,        \* config.exit_at_flat_enabled
    ExitMultiple,       \* config.exit_at_flat
    Bids,               \* best bids a book can show; 0: no bid
    MaxNow,             \* bound: the clock stops there, well after every End
    MaxCrashes,         \* bound: crashes in one behaviour
    Pending,            \* get_market_resolution answers (False, None)
    NoWinner,           \* ... answers (True, None)
    NoToken, NoBook, NoPoll, NoSnapshot

ASSUME BotAssumption ==
    /\ End \in [Markets -> Nat]
    /\ {WatchWindow, EntryWindow, OrderExpiry, MaxTradesPerMarket, MaxDedupe,
        ExitMultiple, MinDepth, MinOrderSize, MaxNow, MaxCrashes} \subseteq Nat
    /\ EntryPrice \in Prices
    /\ StakeSize \in Sizes
    /\ Bids \subseteq Prices \cup {0}
    /\ Sides \subseteq Nat /\ IsFiniteSet(Sides)
    /\ ExitEnabled \in BOOLEAN
    /\ AllowNegativeCash            \* bot.py:91 keeps the engine's default
    /\ Pending \notin Sides /\ NoWinner \notin Sides /\ Pending # NoWinner
    /\ NoToken \notin Tokens

VARIABLES
    now,            \* time_sync.now_ms()
    resolution,     \* what the CLOB knows of each market's outcome
    universe,       \* keys of self.universe.markets, also the watchlist
    dedupe,         \* signal_engine.dedupe
    to_scan,        \* tokens of the watchlist this cycle has still to visit
    trades,         \* trades_taken_per_market of this cycle
    cur, book,      \* token being visited and its order book
    to_settle,      \* markets _settle_resolved_positions has still to poll
    polled,         \* market being settled and its winner
    pc,
    rows,           \* table pseudo_trades, by token
    snapshot,       \* table state, key 'runtime'
    crashes

env_vars == <<now, resolution>>
scan_vars == <<to_scan, trades, cur, book>>
settle_vars == <<to_settle, polled>>
disk == <<rows, snapshot>>
bot_vars == <<paper_vars, env_vars, universe, dedupe, scan_vars, settle_vars,
              pc, disk, crashes>>

NoRow == [result |-> "NONE", pnl |-> 0]
OpenRow == [result |-> "OPEN", pnl |-> 0]
ClosedRow(pnl, won) == [result |-> IF won THEN "WIN" ELSE "LOSS", pnl |-> pnl]
Settled(row) == row.result \in {"WIN", "LOSS"}

PseudoTrade == [result : {"NONE", "OPEN", "WIN", "LOSS"}, pnl : Int]

CycleTypeOK ==
    /\ now \in 0 .. MaxNow
    /\ resolution \in [Markets -> Sides \cup {Pending, NoWinner}]
    /\ universe \subseteq Markets
    /\ dedupe \subseteq Tokens
    /\ to_scan \subseteq universe \X Sides
    /\ trades \in [Markets -> 0 .. MaxTradesPerMarket]
    /\ cur \in Tokens \cup {NoToken}
    /\ to_settle \subseteq Markets
    /\ pc \in {"discover", "token", "watch", "exit", "signal", "fill", "expire",
               "settle", "cancel", "sleep"}
    /\ rows \in [Tokens -> PseudoTrade]
    /\ cur # NoToken <=> pc \in {"watch", "exit", "signal", "fill", "expire"}

BotTypeOK == TypeOK /\ CycleTypeOK

BotInit ==
    /\ Init
    /\ universe = {} /\ dedupe = {}
    /\ to_scan = {} /\ trades = [m \in Markets |-> 0]
    /\ cur = NoToken /\ book = NoBook
    /\ to_settle = {} /\ polled = NoPoll
    /\ pc = "discover"
    /\ now = 0
    /\ resolution = [m \in Markets |-> Pending]
    /\ rows = [t \in Tokens |-> NoRow]
    /\ snapshot = NoSnapshot
    /\ crashes = 0

SecondsTo(m) == NonNegative(End[m] - now)

-----------------------------------------------------------------------------
(* Discovery *)

\* Altered: a market that has ended still counts as near its expiry.
NearOrPastExpiry(m) == SecondsTo(m) <= WatchWindow

NearExpiry(m) == 0 < SecondsTo(m) /\ SecondsTo(m) <= WatchWindow

\* _trim_dedupe discards the smallest keys beyond the limit.
Above(t, u) == t[1] > u[1] \/ (t[1] = u[1] /\ t[2] > u[2])
Trimmed(keys) == {k \in keys : Cardinality({j \in keys : Above(j, k)}) < MaxDedupe}

\* prune_to_active_markets
Pruned(keys, active) == Trimmed({k \in keys : k[1] \in active})

\* Gamma lists `listed'.  refresh_universe keeps exactly the fresh markets.
DiscoverMarkets(listed) ==
    /\ pc = "discover"
    /\ universe' = {m \in listed : NearExpiry(m)}
    /\ dedupe' = Pruned(dedupe, universe')
    /\ to_scan' = universe' \X Sides
    /\ trades' = [m \in Markets |-> 0]
    /\ pc' = "token"
    /\ UNCHANGED <<paper_vars, env_vars, cur, book, settle_vars, disk, crashes>>

\* Every attempt failed: the cycle ends without settling or saving anything.
GammaFails ==
    /\ pc = "discover"
    /\ pc' = "sleep"
    /\ UNCHANGED <<paper_vars, env_vars, universe, dedupe, scan_vars, settle_vars,
                   disk, crashes>>

-----------------------------------------------------------------------------
(* One token of the watchlist *)

\* Markets one after the other, the tokens of each in order.
NextToken(t) ==
    /\ t \in to_scan
    /\ \A u \in to_scan :
          IF u[1] = t[1] THEN t[2] <= u[2] ELSE {u[1]} \X Sides \subseteq to_scan

AtToken(t) == pc = "token" /\ NextToken(t)

\* Altered: one trade too many.
TradesExceeded(t) == trades[t[1]] > MaxTradesPerMarket
TradesExhausted(t) == trades[t[1]] >= MaxTradesPerMarket

\* The limit of trades is reached, or get_orderbook failed.
SkipToken(t) ==
    /\ AtToken(t)
    /\ to_scan' = to_scan \ {t}
    /\ UNCHANGED <<paper_vars, env_vars, universe, dedupe, trades, cur, book,
                   settle_vars, pc, disk, crashes>>

FetchBook(t, asks, bid, bid_depth) ==
    /\ AtToken(t)
    /\ ~TradesExhausted(t)
    /\ cur' = t
    /\ book' = [asks |-> asks, bid |-> bid, bid_depth |-> bid_depth]
    /\ pc' = "watch"
    /\ UNCHANGED <<paper_vars, env_vars, universe, dedupe, to_scan, trades,
                   settle_vars, disk, crashes>>

Goto(label) ==
    /\ pc' = label
    /\ UNCHANGED <<env_vars, universe, to_scan, cur, book, settle_vars, snapshot, crashes>>

\* The iteration ends; the book is forgotten.
TokenDone ==
    /\ pc' = "token"
    /\ to_scan' = to_scan \ {cur}
    /\ cur' = NoToken /\ book' = NoBook
    /\ UNCHANGED <<env_vars, universe, dedupe, trades, settle_vars, disk, crashes>>

\* _find_open_order: the oldest OPEN order for the token.
OpenFor(o, t) ==
    Open(o) /\ open_orders[o].market = t[1] /\ open_orders[o].side = t[2]
FindOpenOrder(o) == OpenFor(o, cur) /\ \A i \in 1 .. o - 1 : ~OpenFor(i, cur)

\* _try_fill_open_order_from_book_watch: the fill is applied, but neither a
\* row nor the position's expected_end_utc is written.
WatchFill(o) ==
    /\ pc = "watch"
    /\ FindOpenOrder(o)
    /\ TryFill(o, book.asks, FALSE)
    /\ Goto("exit")
    /\ UNCHANGED <<dedupe, trades, rows>>

NothingToWatch ==
    /\ pc = "watch"
    /\ \A o \in DOMAIN open_orders : FindOpenOrder(o) => Fillable(o, book.asks) = 0
    /\ Goto("exit")
    /\ UNCHANGED <<paper_vars, dedupe, trades, rows>>

\* The guards of _try_exit_position_at_flat, with the target price
\* avg_price * exit_at_flat multiplied through by the position's size.
ExitReached ==
    /\ ExitEnabled /\ ExitMultiple > 0
    /\ HasPosition(cur[1])
    /\ LET pos == positions[cur[1]]
       IN /\ pos.side = cur[2]
          /\ pos.status = "OPEN"
          /\ book.bid > 0
          /\ book.bid * pos.size >= pos.cost * ExitMultiple
          /\ book.bid_depth >= pos.size

ExitAtFlat ==
    /\ pc = "exit"
    /\ ExitReached
    /\ ClosePositionAtPrice(cur[1], book.bid)
    /\ rows' = [rows EXCEPT ![cur] =
                  ClosedRow(positions'[cur[1]].pnl, positions'[cur[1]].pnl >= 0)]
    /\ Goto("signal")
    /\ UNCHANGED <<dedupe, trades>>

KeepPosition ==
    /\ pc = "exit"
    /\ ~ExitReached
    /\ Goto("signal")
    /\ UNCHANGED <<paper_vars, dedupe, trades, rows>>

\* signal_engine.evaluate finds a candidate.
SignalDue ==
    /\ SecondsTo(cur[1]) <= EntryWindow
    /\ book.asks >= MinDepth
    /\ StakeSize >= MinOrderSize
    /\ cur \notin dedupe

OpenOrder ==
    /\ pc = "signal"
    /\ SignalDue
    /\ CreateOrder(cur[1], cur[2], EntryPrice, StakeSize)
    /\ dedupe' = Trimmed(dedupe \cup {cur})
    /\ trades' = [trades EXCEPT ![cur[1]] = @ + 1]
    /\ Goto("fill")
    /\ UNCHANGED rows

NoSignal ==
    /\ pc = "signal"
    /\ ~SignalDue
    /\ TokenDone
    /\ UNCHANGED paper_vars

NewOrder == Len(open_orders)

FillNewOrder ==
    /\ pc = "fill"
    /\ TryFill(NewOrder, book.asks, TRUE)
    /\ rows' = [rows EXCEPT ![cur] = OpenRow]
    /\ Goto("expire")
    /\ UNCHANGED <<dedupe, trades>>

NewOrderUnfilled ==
    /\ pc = "fill"
    /\ Fillable(NewOrder, book.asks) = 0
    /\ Goto("expire")
    /\ UNCHANGED <<paper_vars, dedupe, trades, rows>>

ExpiryDue == Open(NewOrder) /\ SecondsTo(cur[1]) <= OrderExpiry

ExpireNewOrder ==
    /\ pc = "expire"
    /\ ExpiryDue
    /\ ExpireOrder(NewOrder, "EXPIRED")
    /\ TokenDone

KeepNewOrder ==
    /\ pc = "expire"
    /\ ~ExpiryDue
    /\ TokenDone
    /\ UNCHANGED paper_vars

-----------------------------------------------------------------------------
(* Settlement, persistence, sleep *)

EndKnown(m) == m \in universe \/ positions[m].end_known

\* Altered: closed positions are settled again.
BeginSettlementOfAll ==
    /\ pc = "token"
    /\ to_scan = {}
    /\ to_settle' = {m \in Markets : HasPosition(m) /\ (EndKnown(m) => now >= End[m])}
    /\ pc' = "settle"
    /\ UNCHANGED <<paper_vars, env_vars, universe, dedupe, scan_vars, polled, disk, crashes>>

\* Altered: a position without a known end is skipped.
BeginSettlementOfKnownEnds ==
    /\ pc = "token"
    /\ to_scan = {}
    /\ to_settle' = {m \in Markets : Unresolved(m) /\ EndKnown(m) /\ now >= End[m]}
    /\ pc' = "settle"
    /\ UNCHANGED <<paper_vars, env_vars, universe, dedupe, scan_vars, polled, disk, crashes>>

\* _settle_resolved_positions reads the clock and the positions once.
BeginSettlement ==
    /\ pc = "token"
    /\ to_scan = {}
    /\ to_settle' = {m \in Markets : Unresolved(m) /\ (EndKnown(m) => now >= End[m])}
    /\ pc' = "settle"
    /\ UNCHANGED <<paper_vars, env_vars, universe, dedupe, scan_vars, polled, disk, crashes>>

\* The market is not resolved yet, or get_market_resolution failed.
StillUnresolved(m) ==
    /\ pc = "settle"
    /\ m \in to_settle
    /\ to_settle' = to_settle \ {m}
    /\ UNCHANGED <<paper_vars, env_vars, universe, dedupe, scan_vars, polled, pc, disk, crashes>>

PollResolved(m) ==
    /\ pc = "settle"
    /\ m \in to_settle
    /\ resolution[m] # Pending
    /\ to_settle' = to_settle \ {m}
    /\ polled' = [market |-> m, winner |-> resolution[m]]
    /\ pc' = "cancel"
    /\ UNCHANGED <<paper_vars, env_vars, universe, dedupe, scan_vars, disk, crashes>>

OpenInMarket(o, m) == Open(o) /\ open_orders[o].market = m

\* The loop that cancels the market's OPEN orders, oldest first.
CancelOrder(o) ==
    /\ pc = "cancel"
    /\ OpenInMarket(o, polled.market)
    /\ \A i \in 1 .. o - 1 : ~OpenInMarket(i, polled.market)
    /\ ExpireOrder(o, "CANCELLED_LOCAL")
    /\ UNCHANGED <<env_vars, universe, dedupe, scan_vars, settle_vars, pc, disk, crashes>>

\* Altered: the settled position is not saved to pseudo_trades.
SettleUnreported ==
    /\ pc = "cancel"
    /\ \A o \in DOMAIN open_orders : ~OpenInMarket(o, polled.market)
    /\ IF polled.winner = NoWinner
       THEN AwaitWinner(polled.market)
       ELSE SettleMarket(polled.market, polled.winner)
    /\ polled' = NoPoll
    /\ pc' = "settle"
    /\ UNCHANGED <<env_vars, universe, dedupe, scan_vars, to_settle, disk, crashes>>

\* Altered: the market is settled before its orders are cancelled.
SettleWithOpenOrders ==
    /\ pc = "cancel"
    /\ IF polled.winner = NoWinner
       THEN AwaitWinner(polled.market)
       ELSE SettleMarket(polled.market, polled.winner)
    /\ polled' = NoPoll
    /\ pc' = "settle"
    /\ UNCHANGED <<env_vars, universe, dedupe, scan_vars, to_settle, disk, crashes>>

\* settle_position
SettlePolled ==
    /\ pc = "cancel"
    /\ \A o \in DOMAIN open_orders : ~OpenInMarket(o, polled.market)
    /\ LET m == polled.market
       IN IF polled.winner = NoWinner
          THEN /\ AwaitWinner(m)
               /\ UNCHANGED rows
          ELSE /\ SettleMarket(m, polled.winner)
               /\ rows' = [rows EXCEPT ![<<m, positions[m].side>>] =
                             ClosedRow(positions'[m].pnl, positions'[m].status = "WON")]
    /\ polled' = NoPoll
    /\ pc' = "settle"
    /\ UNCHANGED <<env_vars, universe, dedupe, scan_vars, to_settle, snapshot, crashes>>

\* save_runtime_state
SaveState ==
    /\ pc = "settle"
    /\ to_settle = {}
    /\ snapshot' = [cash_available |-> cash_available, cash_reserved |-> cash_reserved,
                    orders |-> open_orders, positions |-> positions, dedupe |-> dedupe]
    /\ pc' = "sleep"
    /\ UNCHANGED <<paper_vars, env_vars, universe, dedupe, scan_vars, settle_vars, rows, crashes>>

\* asyncio.sleep(interval_seconds) between two cycles.
Sleep ==
    /\ pc = "sleep"
    /\ now' = Least(now + 1, MaxNow)
    /\ pc' = "discover"
    /\ UNCHANGED <<paper_vars, resolution, universe, dedupe, scan_vars, settle_vars,
                   disk, crashes>>

-----------------------------------------------------------------------------
(* The environment *)

\* Time passes while the bot waits for an order book.
SlowCall ==
    /\ pc = "token"
    /\ to_scan # {}
    /\ now < MaxNow
    /\ now' = now + 1
    /\ UNCHANGED <<paper_vars, resolution, universe, dedupe, scan_vars, settle_vars,
                   pc, disk, crashes>>

\* A market is resolved after its end, perhaps at first without a winner.
Resolve(m, outcome) ==
    /\ now >= End[m]
    /\ resolution[m] \notin Sides \cup {outcome}
    /\ resolution' = [resolution EXCEPT ![m] = outcome]
    /\ UNCHANGED <<paper_vars, now, universe, dedupe, scan_vars, settle_vars, pc,
                   disk, crashes>>

\* The process dies and is started again: the launcher builds a new bot on the
\* same database and never calls restore().
Crash ==
    /\ crashes < MaxCrashes
    /\ crashes' = crashes + 1
    /\ cash_available' = InitialCash /\ cash_reserved' = 0
    /\ holdings' = [t \in Tokens |-> 0]
    /\ open_orders' = <<>>
    /\ positions' = [m \in Markets |-> NoPosition]
    /\ universe' = {} /\ dedupe' = {}
    /\ to_scan' = {} /\ trades' = [m \in Markets |-> 0]
    /\ cur' = NoToken /\ book' = NoBook
    /\ to_settle' = {} /\ polled' = NoPoll
    /\ pc' = "discover"
    /\ UNCHANGED <<env_vars, disk>>

VisitToken ==
    \/ \E t \in to_scan :
          \/ SkipToken(t)
          \/ \E a \in Depths, b \in Bids, d \in Depths : FetchBook(t, a, b, d)
    \/ \E o \in DOMAIN open_orders : WatchFill(o)
    \/ NothingToWatch
    \/ ExitAtFlat
    \/ KeepPosition
    \/ OpenOrder
    \/ NoSignal
    \/ FillNewOrder
    \/ NewOrderUnfilled
    \/ ExpireNewOrder
    \/ KeepNewOrder

SettlePositions ==
    \/ BeginSettlement
    \/ \E m \in to_settle : StillUnresolved(m) \/ PollResolved(m)
    \/ \E o \in DOMAIN open_orders : CancelOrder(o)
    \/ SettlePolled

BotStep ==
    \/ \E listed \in SUBSET Markets : DiscoverMarkets(listed)
    \/ GammaFails
    \/ VisitToken
    \/ SettlePositions
    \/ SaveState
    \/ Sleep

BotNext ==
    \/ BotStep
    \/ SlowCall
    \/ \E m \in Markets, w \in Sides \cup {NoWinner} : Resolve(m, w)
    \/ Crash

BotSpec == BotInit /\ [][BotNext]_bot_vars

\* The loop of the launcher never stops; Gamma answers again and again; a
\* market that stays resolved is, when polled again and again, seen resolved.
BotFairness ==
    /\ WF_bot_vars(BotStep)
    /\ SF_bot_vars(\E listed \in SUBSET Markets : DiscoverMarkets(listed))
    /\ \A m \in Markets : SF_bot_vars(PollResolved(m))

FairBotSpec == BotSpec /\ BotFairness

-----------------------------------------------------------------------------
(* What the bot promises *)

\* A settled market is finished: no order of it can fill any more, even if it
\* was opened while a slow call carried the cycle past the market's end.
SettledMarketHasNoOpenOrders ==
    \A m \in Markets : Closed(m) => \A o \in DOMAIN open_orders : ~OpenInMarket(o, m)

ReportedPnl == SumFunctionOnSet([t \in Tokens |-> rows[t].pnl], Tokens)
CostOfUnresolved(m) == IF Unresolved(m) THEN positions[m].cost ELSE 0
Equity ==
    cash_available + cash_reserved
        + Total([m \in Nat |-> CostOfUnresolved(m)], NumMarkets)

\* The profit that trade_counters sums over the rows is the profit in the
\* ledger: cash, reserve and the cost of unresolved positions exceed the initial
\* cash by exactly the reported profit.
ReportMatchesLedger == Equity = InitialCash + ReportedPnl

\* A row that reports a final result is never rewritten, across restarts too.
SettledRowsAreFinal ==
    [][\A t \in Tokens : Settled(rows[t]) => rows'[t] = rows[t]]_bot_vars

\* The saved state never runs ahead of the rows: a position it shows as closed
\* has its result in pseudo_trades.
SnapshotBackedByRows ==
    snapshot # NoSnapshot =>
        \A m \in Markets :
            LET pos == snapshot.positions[m]
            IN pos # NoPosition /\ pos.status \in {"WON", "LOST"}
               => rows[<<m, pos.side>>] = ClosedRow(pos.pnl, pos.status = "WON")

\* A position whose market has a winner is settled in the end, whatever calls
\* fail and however Gamma's listing flickers.
PositionsSettle ==
    \A m \in Markets : (Unresolved(m) /\ resolution[m] \in Sides) ~> Closed(m)

\* "las ordenes no llenadas se dejan expirar localmente" (Madawc/README.md:10):
\* an order whose market has long been resolved is not OPEN for ever.
OrdersClose ==
    \A o \in 1 .. MaxOrders :
        (Open(o) /\ resolution[open_orders[o].market] \in Sides) ~> ~Open(o)

\* "una sola orden por token en cada mercado" (signal.py:59).
OneOrderPerToken ==
    \A t \in Tokens :
        Cardinality({o \in DOMAIN open_orders :
                        open_orders[o].market = t[1] /\ open_orders[o].side = t[2]}) <= 1

\* The snapshot is there "para poder reanudar ejecucion tras reinicio"
\* (storage.py:142): a restart finds the saved orders and positions again.
RestartResumes ==
    [][crashes' > crashes /\ snapshot # NoSnapshot
         => open_orders' = snapshot.orders /\ positions' = snapshot.positions]_bot_vars
=============================================================================
