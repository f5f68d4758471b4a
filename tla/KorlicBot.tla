------------------------------ MODULE KorlicBot ------------------------------
(***************************************************************************)
(* The Korlic bot (KORLIC_v2/Korlic_v2) with its launcher's loop: run_cycle,*)
(* the signal and paper code it calls, the rows it saves and the trade log *)
(* the launcher appends after each cycle.                                  *)
(*                                                                         *)
(* An iteration of the token loop awaits only the order book; what follows *)
(* runs to its end without another task, and a crash inside it loses the   *)
(* memory it wrote, so it is one action.                                   *)
(***************************************************************************)
EXTENDS Integers, FiniteSets, Functions

CONSTANTS
    KMarkets, KSides,   \* <<m, s>> is a token id
    KEnd,               \* market.end_time
    KWatchWindow,       \* config.watch_window_seconds
    KEntryWindow,       \* signal config.entry_seconds_threshold
    KMaxTrades,         \* config.max_trades_per_market
    KPrice, KPayout,    \* entry_price, and what a winning lot pays
    KStakeSize,         \* max_stake_per_trade / entry_price
    KMinDepth,          \* signal config.min_operational_size
    KOrderExpiry,       \* config.order_expiry_seconds
    KDepths,            \* depths at the entry price a book can show
    KMaxNow, KMaxCrashes, \* bounds
    KPending, KNoWinner, \* a market's resolution: (False, None), (True, None)
    KNoPosition

ASSUME KorlicAssumption ==
    /\ IsFiniteSet(KMarkets) /\ IsFiniteSet(KSides)
    /\ KMaxTrades \in Nat /\ KPrice \in Nat /\ KPayout \in Nat /\ KMinDepth \in Nat \ {0}
    /\ KStakeSize \in Nat /\ KDepths \subseteq Nat
    /\ KEnd \in [KMarkets -> Nat] /\ KEntryWindow \in Nat \ {0} /\ KMaxNow \in Nat
    /\ KNoWinner \notin KSides

VARIABLES
    k_pc,
    k_now,          \* time_sync.now_ms()
    k_resolution,   \* what the CLOB answers for each market
    k_watch,        \* the universe, also the watchlist
    k_scan,         \* tokens this cycle has still to visit
    k_trades,       \* trades_taken_per_market
    k_dedupe,       \* signal_engine.dedupe
    k_engine,       \* paper engine and its ledger
    k_settle,       \* markets still to poll
    k_rows,         \* table pseudo_trades
    k_events,       \* table events: an order's and a settlement's, each batch once,
                    \* without the NO_TRADE that a visit always writes
    k_report,       \* the last business report
    k_log,          \* trade log file: copies of each event
    k_last_id,      \* _run_loop_with_trade_log's last_id
    k_crashes

k_memory == <<k_watch, k_scan, k_trades, k_dedupe, k_engine, k_settle, k_last_id>>
k_disk == <<k_rows, k_events, k_report, k_log>>
k_vars == <<k_pc, k_now, k_resolution, k_memory, k_disk, k_crashes>>

KTokens == KMarkets \X KSides

\* PaperPosition, of the market it is kept under.
KPositions ==
    [side : KSides, size : Nat, status : {"OPEN", "PENDING_RESOLUTION", "CLOSED"}]

\* Ledger and PaperExecutionEngine: `orders' is what is left of a token's open order.
KEngines ==
    [cash : Int, reserved : Int, holdings : [KTokens -> Nat],
     positions : [KMarkets -> KPositions \cup {KNoPosition}], orders : [KTokens -> Nat]]

KorlicTypeOK ==
    /\ k_pc \in {"discover", "scan", "settle", "append", "sleep"}
    /\ k_now \in 0 .. KMaxNow
    /\ k_resolution \in [KMarkets -> KSides \cup {KPending, KNoWinner}]
    /\ k_watch \subseteq KMarkets /\ k_scan \subseteq KTokens /\ k_settle \subseteq KMarkets
    /\ k_trades \in [KMarkets -> 0 .. KMaxTrades]
    /\ k_dedupe \subseteq KTokens \X {0, 1}
    /\ k_engine \in KEngines
    /\ k_rows \in [KTokens -> {"NONE", "OPEN", "SETTLED"}]
    /\ k_report \in [total : Nat, settled : Nat, pending : Nat]
    /\ DOMAIN k_log = 1 .. k_events /\ k_last_id \in 0 .. k_events

ASSUME KPositionAssumption == KNoPosition \notin KPositions

KNewEngine ==
    [cash |-> 0, reserved |-> 0, holdings |-> [t \in KTokens |-> 0],
     positions |-> [m \in KMarkets |-> KNoPosition], orders |-> [t \in KTokens |-> 0]]

\* A new process: the factory builds a bot on the database and restore() has no caller.
FreshMemory ==
    [watch |-> {}, scan |-> {}, trades |-> [m \in KMarkets |-> 0], dedupe |-> {},
     engine |-> KNewEngine, settle |-> {}, last_id |-> 0]

KorlicInit ==
    /\ k_pc = "discover" /\ k_now = 0 /\ k_crashes = 0
    /\ k_resolution = [m \in KMarkets |-> KPending]
    /\ k_watch = FreshMemory.watch /\ k_scan = FreshMemory.scan
    /\ k_trades = FreshMemory.trades /\ k_dedupe = FreshMemory.dedupe
    /\ k_engine = FreshMemory.engine /\ k_settle = FreshMemory.settle
    /\ k_last_id = FreshMemory.last_id
    /\ k_rows = [t \in KTokens |-> "NONE"]
    /\ k_report = [total |-> 0, settled |-> 0, pending |-> 0]
    /\ k_events = 0 /\ k_log = <<>>

KMin(a, b) == IF a <= b THEN a ELSE b
KSecondsTo(m) == IF KEnd[m] > k_now THEN KEnd[m] - k_now ELSE 0

-----------------------------------------------------------------------------
(* The paper engine *)

\* create_order: the cash is reserved, overdrawn if need be.
KCreateOrder(e, t, size) ==
    [e EXCEPT !.cash = @ - KPrice * size, !.reserved = @ + KPrice * size,
              !.orders[t] = @ + size]

KFilledPosition(pos, side, lots) ==
    IF pos = KNoPosition THEN [side |-> side, size |-> lots, status |-> "OPEN"]
    ELSE [pos EXCEPT !.size = @ + lots]

\* What try_fill takes from the book for the token's open order.
KLots(e, t, depth) == KMin(e.orders[t], depth)

KTryFill(e, t, depth) ==
    LET lots == KLots(e, t, depth)
    IN IF lots = 0 THEN e
       ELSE [e EXCEPT !.reserved = @ - KPrice * lots,
                      !.holdings[t] = @ + lots,
                      !.positions[t[1]] = KFilledPosition(@, t[2], lots),
                      !.orders[t] = @ - lots]

KExpireOrder(e, t) ==
    [e EXCEPT !.reserved = @ - KPrice * e.orders[t],
              !.cash = @ + KPrice * e.orders[t], !.orders[t] = 0]

\* expire_order of every order of the market.
KCancelOrders(e, m) ==
    LET left == SumFunctionOnSet(e.orders, {m} \X KSides)
    IN [e EXCEPT !.reserved = @ - KPrice * left, !.cash = @ + KPrice * left,
                 !.orders = [t \in KTokens |-> IF t[1] = m THEN 0 ELSE @[t]]]

\* settle_market: without a winner the position waits.
KSettleMarket(e, m, winner) ==
    LET pos == e.positions[m]
    IN IF winner = KNoWinner THEN [e EXCEPT !.positions[m].status = "PENDING_RESOLUTION"]
       ELSE [e EXCEPT !.positions[m].status = "CLOSED",
                      !.cash = @ + (IF winner = pos.side THEN pos.size * KPayout ELSE 0)]

-----------------------------------------------------------------------------
(* Events and rows *)

\* save_event, `n' of them of the types the trade log selects.
KSaveEvents(n) ==
    /\ k_events' = k_events + n
    /\ k_log' = [e \in 1 .. k_events + n |-> IF e \in DOMAIN k_log THEN k_log[e] ELSE 0]

\* save_pseudo_trade replaces the row of the token.
KSavePseudoTrade(t, result) == k_rows' = [k_rows EXCEPT ![t] = result]

\* The counters of the business report, from the rows.
KTradeCounters ==
    [total |-> Cardinality({t \in KTokens : k_rows[t] # "NONE"}),
     settled |-> Cardinality({t \in KTokens : k_rows[t] = "SETTLED"})]

-----------------------------------------------------------------------------
(* Discovery *)

KNearExpiry(m) == 0 < KSecondsTo(m) /\ KSecondsTo(m) <= KWatchWindow

\* refresh_universe: what is no longer found is dropped.
KRefresh(previous, fresh) == {m \in previous \cup fresh : m \in fresh}

\* Gamma answers with `listed'; a market that is not operable or that the
\* prefix and title filters reject is one that is not listed.
KDiscover(listed) ==
    /\ k_pc = "discover"
    /\ k_watch' = KRefresh(k_watch, {m \in listed : KNearExpiry(m)})
    /\ k_dedupe' = {k \in k_dedupe : k[1][1] \in k_watch'}
    /\ k_scan' = k_watch' \X KSides
    /\ k_trades' = [m \in KMarkets |-> 0]
    /\ k_pc' = "scan"
    /\ UNCHANGED <<k_now, k_resolution, k_engine, k_settle, k_last_id, k_disk, k_crashes>>

\* run_cycle returns without settling or saving; the launcher goes on.
KGammaFails ==
    /\ k_pc = "discover"
    /\ k_pc' = "append"
    /\ UNCHANGED <<k_now, k_resolution, k_memory, k_disk, k_crashes>>

-----------------------------------------------------------------------------
(* One token *)

\* Altered: only this cycle's trades count.
CycleTradeCount(m) == k_trades[m]
MarketTradeCount(m) ==
    (IF k_engine.positions[m] # KNoPosition THEN 1 ELSE 0) + k_trades[m]

\* The bucket is 0 inside the entry window and 1 at its very edge.
DedupeKey(t) == <<t, KSecondsTo(t[1]) \div KEntryWindow>>

KSignal(t, depth) ==
    /\ KSecondsTo(t[1]) <= KEntryWindow
    /\ depth >= KMinDepth
    /\ DedupeKey(t) \notin k_dedupe

\* evaluate: never more than the book shows.
KOrderSize(depth) == KMin(depth, KStakeSize)

KVisit(t) ==
    /\ k_pc = "scan" /\ t \in k_scan
    /\ k_scan' = k_scan \ {t}
    /\ UNCHANGED <<k_pc, k_now, k_resolution, k_watch, k_settle, k_report, k_last_id, k_crashes>>

\* The limit is reached, or the book is missing.
KSkip(t) ==
    /\ KVisit(t)
    /\ UNCHANGED <<k_trades, k_dedupe, k_engine, k_rows, k_events, k_log>>

\* The book is tried on the token's open order; a fill found there is an event
\* and no row.
KBookWatch(t, depth) == KTryFill(k_engine, t, depth)
KWatchEvents(t, depth) == IF KLots(k_engine, t, depth) > 0 THEN 1 ELSE 0

KNoSignal(t, depth) ==
    /\ KVisit(t)
    /\ MarketTradeCount(t[1]) < KMaxTrades
    /\ ~KSignal(t, depth)
    /\ k_engine' = KBookWatch(t, depth)
    /\ KSaveEvents(KWatchEvents(t, depth))
    /\ UNCHANGED <<k_trades, k_dedupe, k_rows>>

KTrade(t, depth) ==
    /\ KVisit(t)
    /\ MarketTradeCount(t[1]) < KMaxTrades
    /\ KSignal(t, depth)
    /\ LET opened == KCreateOrder(KBookWatch(t, depth), t, KOrderSize(depth))
           filled == KTryFill(opened, t, depth)
       IN /\ k_engine' = IF KSecondsTo(t[1]) <= KOrderExpiry THEN KExpireOrder(filled, t)
                         ELSE filled
          /\ KSaveEvents(KWatchEvents(t, depth) + 1)
          /\ IF KLots(opened, t, depth) > 0 THEN KSavePseudoTrade(t, "OPEN")
             ELSE UNCHANGED k_rows
    /\ k_dedupe' = k_dedupe \cup {DedupeKey(t)}
    /\ k_trades' = [k_trades EXCEPT ![t[1]] = @ + 1]

-----------------------------------------------------------------------------
(* Settlement *)

KUnresolved(m) ==
    /\ k_engine.positions[m] # KNoPosition
    /\ k_engine.positions[m].status \in {"OPEN", "PENDING_RESOLUTION"}

\* expected_end_utc is set by every fill, so every position's end is known.
KBeginSettlement ==
    /\ k_pc = "scan" /\ k_scan = {}
    /\ k_settle' = {m \in KMarkets : KUnresolved(m) /\ k_now >= KEnd[m]}
    /\ k_pc' = "settle"
    /\ UNCHANGED <<k_now, k_resolution, k_watch, k_scan, k_trades, k_dedupe, k_engine,
                   k_last_id, k_disk, k_crashes>>

\* Not resolved yet, or the CLOB does not answer.
KStillUnresolved(m) ==
    /\ k_pc = "settle" /\ m \in k_settle
    /\ k_settle' = k_settle \ {m}
    /\ UNCHANGED <<k_pc, k_now, k_resolution, k_watch, k_scan, k_trades, k_dedupe, k_engine,
                   k_last_id, k_disk, k_crashes>>

\* settle_position: the row of the position's token gets the result.
KSettlePosition(m) ==
    IF k_resolution[m] = KNoWinner THEN UNCHANGED <<k_rows, k_events, k_log>>
    ELSE /\ KSavePseudoTrade(<<m, k_engine.positions[m].side>>, "SETTLED")
         /\ KSaveEvents(1)

KSettle(m) ==
    /\ k_pc = "settle" /\ m \in k_settle
    /\ k_resolution[m] # KPending
    /\ k_settle' = k_settle \ {m}
    /\ k_engine' = KSettleMarket(KCancelOrders(k_engine, m), m, k_resolution[m])
    /\ KSettlePosition(m)
    /\ UNCHANGED <<k_pc, k_now, k_resolution, k_watch, k_scan, k_trades, k_dedupe, k_report,
                   k_last_id, k_crashes>>

\* save_runtime_state, whose snapshot no process reads back, and the report.
KEndCycle ==
    /\ k_pc = "settle" /\ k_settle = {}
    /\ k_report' = [total |-> KTradeCounters.total, settled |-> KTradeCounters.settled,
                    pending |-> Cardinality({m \in KMarkets : KUnresolved(m)})]
    /\ k_pc' = "append"
    /\ UNCHANGED <<k_now, k_resolution, k_memory, k_rows, k_events, k_log, k_crashes>>

-----------------------------------------------------------------------------
(* The launcher's loop and the environment *)

\* Altered: an event is taken again when it is the last one logged.
AppendFromLastId(e) == e >= k_last_id
NewForLog(e) == e > k_last_id

\* _append_trade_log
KAppendTradeLog ==
    /\ k_pc = "append"
    /\ k_log' = [e \in 1 .. k_events |-> k_log[e] + (IF NewForLog(e) THEN 1 ELSE 0)]
    /\ k_last_id' = k_events
    /\ k_pc' = "sleep"
    /\ UNCHANGED <<k_now, k_resolution, k_watch, k_scan, k_trades, k_dedupe, k_engine,
                   k_settle, k_rows, k_events, k_report, k_crashes>>

KSleep ==
    /\ k_pc = "sleep"
    /\ k_now' = KMin(k_now + 1, KMaxNow)
    /\ k_pc' = "discover"
    /\ UNCHANGED <<k_resolution, k_memory, k_disk, k_crashes>>

\* Time passes while a request is awaited.
KSlowCall ==
    /\ k_pc \in {"scan", "settle"}
    /\ k_now < KMaxNow
    /\ k_now' = k_now + 1
    /\ UNCHANGED <<k_pc, k_resolution, k_memory, k_disk, k_crashes>>

KResolve(m, outcome) ==
    /\ k_now >= KEnd[m]
    /\ k_resolution[m] \notin KSides \cup {outcome}
    /\ k_resolution' = [k_resolution EXCEPT ![m] = outcome]
    /\ UNCHANGED <<k_pc, k_now, k_memory, k_disk, k_crashes>>

KCrash ==
    /\ k_crashes < KMaxCrashes
    /\ k_crashes' = k_crashes + 1
    /\ k_pc' = "discover"
    /\ k_watch' = FreshMemory.watch /\ k_scan' = FreshMemory.scan
    /\ k_trades' = FreshMemory.trades /\ k_dedupe' = FreshMemory.dedupe
    /\ k_engine' = FreshMemory.engine /\ k_settle' = FreshMemory.settle
    /\ k_last_id' = FreshMemory.last_id
    /\ UNCHANGED <<k_now, k_resolution, k_disk>>

KorlicNext ==
    \/ \E listed \in SUBSET KMarkets : KDiscover(listed)
    \/ KGammaFails
    \/ \E t \in k_scan : KSkip(t) \/ \E d \in KDepths : KNoSignal(t, d) \/ KTrade(t, d)
    \/ KBeginSettlement
    \/ \E m \in k_settle : KStillUnresolved(m) \/ KSettle(m)
    \/ KEndCycle
    \/ KAppendTradeLog
    \/ KSleep
    \/ KSlowCall
    \/ \E m \in KMarkets, w \in KSides \cup {KNoWinner} : KResolve(m, w)
    \/ KCrash

-----------------------------------------------------------------------------
(* What the bot promises *)

\* An order is never larger than the depth it is filled from: nothing of it
\* rests, and no cash stays reserved.
NothingRests == k_engine.reserved = 0 /\ \A t \in KTokens : k_engine.orders[t] = 0

\* A position is what the bot holds of its token, and of the market's other
\* tokens it holds nothing: two tokens are never merged into one position, which
\* settlement would pay as if all of it had won.
PositionIsHeld ==
    \A m \in KMarkets, s \in KSides :
        k_engine.holdings[<<m, s>>] =
            IF k_engine.positions[m] # KNoPosition /\ k_engine.positions[m].side = s
            THEN k_engine.positions[m].size ELSE 0

\* In the report the trades of the database are the settled ones and the
\* positions in memory that wait for a result; a crash leaves at most one row of
\* a market that is neither, and never settles.
ReportAddsUp ==
    k_report.total - k_report.settled - k_report.pending \in
        0 .. k_crashes * Cardinality(KMarkets)

\* After each cycle the trade log has every event, and more than once only as
\* often as the process was restarted.
LogRepeatsByCrashes ==
    \A e \in 1 .. k_events :
        /\ k_log[e] <= 1 + k_crashes
        /\ k_pc = "sleep" => k_log[e] >= 1

\* The bot's books, in memory and on disk, tell one story of its trades: orders
\* leave no reserve, positions are single-token, and reports and log entries that
\* disagree with them are explained by crashes.
KorlicBooks ==
    NothingRests /\ PositionIsHeld /\ ReportAddsUp /\ LogRepeatsByCrashes
=============================================================================
