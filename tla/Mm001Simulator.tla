--------------------------- MODULE Mm001Simulator ---------------------------
(***************************************************************************)
(* MM001's trading loop (mmaker001/MM001: bot.py, strategy.py, launcher.py):*)
(* in each iteration the launcher runs the bot's cycles, which quote both  *)
(* tokens around a mid shifted by the inventory and book simulated fills,  *)
(* and appends the rows of ticks.csv to its trades log.  The bot outlives  *)
(* an iteration that fails.  Where a tick comes from is SourceRotation.    *)
(*                                                                         *)
(* Quantities are lots of SIMULATION_SIZE, prices basis points, profits    *)
(* ten-thousandths of a lot times a basis point.                           *)
(***************************************************************************)
EXTENDS Integers, FiniteSets, Functions

CONSTANTS
    MmMarkets,
    MmTicks,            \* what next_tick can return: [market, yes, no]
    MmCycles,           \* config.SIMULATION_CYCLES
    MmSkew,             \* INVENTORY_SKEW_FACTOR, for a lot
    MmSpreadFloor, MmBuffers,   \* MIN_SPREAD_FLOOR; buffers less what is expected back
    MmFeeRate,          \* FEE_RATE_BPS
    MmMergeEdge, MmSplitEdge,   \* MERGE_EDGE_MIN, SPLIT_SELL_EDGE_MIN
    MmCash,             \* Inventory.cash of a new bot
    MmMaxCycles, MmMaxStops     \* bounds: cycles, and failures and restarts

Prices == 0 .. 10000
Ticks == [market : MmMarkets, yes : Prices, no : Prices]

ASSUME SimulatorAssumption ==
    /\ MmCycles \in Nat \ {0} /\ IsFiniteSet(MmMarkets) /\ MmTicks \subseteq Ticks
    /\ MmSkew \in Int /\ MmCash \in Int /\ MmBuffers \in Int
    /\ MmMergeEdge \in Nat /\ MmSplitEdge \in Nat
    /\ MmMaxCycles \in Nat /\ MmMaxStops \in Nat

\* Half the least spread is more than the highest fee of a cycle, as config.py
\* sets them.
ASSUME SpreadAssumption ==
    /\ MmFeeRate \in Nat /\ MmSpreadFloor \in Nat
    /\ MmSpreadFloor >= 2 /\ MmSpreadFloor <= 19600
    /\ 2500 * MmFeeRate < 10000 * (MmSpreadFloor \div 2)

VARIABLES
    sm_pc,          \* "run", "append" or "sleep"
    sm_cycle,       \* cycles of this iteration that are done
    sm_inventory,
    sm_metrics,
    sm_orders,      \* market_open_orders and the other three counters
    sm_ticks,       \* rows of ticks.csv
    sm_log,         \* rows appended to the trades log
    sm_summary,     \* run_summary.json
    sm_ever,        \* ghost: cycles closed by all processes
    sm_stops        \* failures and restarts

sm_vars == <<sm_pc, sm_cycle, sm_inventory, sm_metrics, sm_orders, sm_ticks, sm_log, sm_summary, sm_ever, sm_stops>>

NewInventory == [yes |-> 0, no |-> 0, cash |-> MmCash]
NewMetrics == [realized |-> 0, fills |-> 0, notional |-> 0, takers |-> 0,
               closed |-> 0, winning |-> 0, losing |-> 0, breakeven |-> 0]
OrderCounts == [open : Nat, executed : Nat, canceled : Nat, closed : Nat]
NoOrders == [open |-> 0, executed |-> 0, canceled |-> 0, closed |-> 0]

Inventories == [yes : Nat, no : Nat, cash : Int]
Metrics == [realized : Int, fills : Nat, notional : Int, takers : Nat,
            closed : Nat, winning : Nat, losing : Nat, breakeven : Nat]
Summaries == [realized : Int, won : Nat, settled : Nat, closed : Nat,
              fills : Nat, paired : Nat, unpaired : Nat]

SimulatorTypeOK ==
    /\ sm_pc \in {"run", "append", "sleep"} /\ sm_cycle \in 0 .. MmCycles
    /\ sm_inventory \in Inventories /\ sm_metrics \in Metrics
    /\ sm_orders \in [MmMarkets -> OrderCounts]
    /\ sm_ticks \in 0 .. MmCycles /\ sm_log \in Nat
    /\ sm_summary \in Summaries
    /\ sm_ever \in 0 .. MmMaxCycles /\ sm_stops \in 0 .. MmMaxStops

\* What run_all returns of them.  The inventory is one for all markets.
Summary(metrics, inventory) ==
    LET paired == IF inventory.yes < inventory.no THEN inventory.yes ELSE inventory.no
    IN [realized |-> metrics.realized, won |-> metrics.winning,
        settled |-> metrics.winning + metrics.losing, closed |-> metrics.closed,
        fills |-> metrics.fills, paired |-> paired,
        unpaired |-> inventory.yes + inventory.no - 2 * paired]

NewBot ==
    /\ sm_inventory' = NewInventory /\ sm_metrics' = NewMetrics
    /\ sm_orders' = [m \in MmMarkets |-> NoOrders]

SimulatorInit ==
    /\ sm_pc = "sleep" /\ sm_cycle = 0
    /\ sm_inventory = NewInventory /\ sm_metrics = NewMetrics
    /\ sm_orders = [m \in MmMarkets |-> NoOrders]
    /\ sm_summary = Summary(NewMetrics, NewInventory)
    /\ sm_ticks = 0 /\ sm_log = 0 /\ sm_ever = 0 /\ sm_stops = 0

-----------------------------------------------------------------------------
(* strategy.py *)

Clamped(price) ==
    IF price < 100 THEN 100 ELSE IF price > 9900 THEN 9900 ELSE price

NetYes(inventory) == inventory.yes - inventory.no

FeeEquivalent(price) == (MmFeeRate * price * (10000 - price)) \div 10000

MinimumNetSpread(price) ==
    LET raw == FeeEquivalent(price) \div 10000 + MmBuffers
    IN IF raw > MmSpreadFloor THEN raw ELSE MmSpreadFloor

ReservationPrice(mid, inventory) == Clamped(mid - NetYes(inventory) * MmSkew)

\* Altered: the NO side is quoted around its own mid, without the skew.
BuildQuotesUnskewed(tick, inventory) ==
    LET yes == ReservationPrice(tick.yes, inventory)
        half == MinimumNetSpread(yes) \div 2
    IN [yes_bid |-> Clamped(yes - half), yes_ask |-> Clamped(yes + half),
        no_bid |-> Clamped(tick.no - half), no_ask |-> Clamped(tick.no + half)]
BuildQuotes(tick, inventory) ==
    LET yes == ReservationPrice(tick.yes, inventory)
        no == Clamped(10000 - yes)
        half == MinimumNetSpread(yes) \div 2
    IN [yes_bid |-> Clamped(yes - half), yes_ask |-> Clamped(yes + half),
        no_bid |-> Clamped(no - half), no_ask |-> Clamped(no + half)]

FillInventory(inventory, fill) ==
    [yes |-> inventory.yes + (IF fill.side = "YES" THEN 1 ELSE 0),
     no |-> inventory.no + (IF fill.side = "NO" THEN 1 ELSE 0),
     cash |-> inventory.cash - fill.price]

-----------------------------------------------------------------------------
(* _simulate_fill_and_pnl *)

MakerFill(side, quotes) ==
    [side |-> side, price |-> IF side = "YES" THEN quotes.yes_bid ELSE quotes.no_bid]
MakerSpread(side, quotes) ==
    IF side = "YES" THEN quotes.yes_ask - quotes.yes_bid ELSE quotes.no_ask - quotes.no_bid

TakerFill(tick, inventory) ==
    IF NetYes(inventory) > 0 THEN [side |-> "NO", price |-> tick.no]
                             ELSE [side |-> "YES", price |-> tick.yes]

\* Whether an edge is enough: at the minimum itself the floats decide.
Enough(edge, minimum) ==
    {yes \in BOOLEAN : (edge > minimum => yes) /\ (yes => edge >= minimum)}

\* Profits are booked on the quotes, whatever the market does next.
CycleProfit(tick, quotes, side, taker, merge, split) ==
    LET fee == FeeEquivalent(tick.yes)
    IN 10000 * (MakerSpread(side, quotes)
                + (IF merge THEN 10000 - quotes.yes_bid - quotes.no_bid ELSE 0)
                + (IF split THEN quotes.yes_ask + quotes.no_ask - 10000 ELSE 0))
       + (18 * fee) \div 100 - (IF taker THEN fee ELSE 0)

Booked(metrics, profit, notional, taker) ==
    [realized |-> metrics.realized + profit,
     fills |-> metrics.fills + (IF taker THEN 2 ELSE 1),
     notional |-> metrics.notional + notional,
     takers |-> metrics.takers + (IF taker THEN 1 ELSE 0),
     closed |-> metrics.closed + 1,
     winning |-> metrics.winning + (IF profit > 0 THEN 1 ELSE 0),
     losing |-> metrics.losing + (IF profit < 0 THEN 1 ELSE 0),
     breakeven |-> metrics.breakeven + (IF profit = 0 THEN 1 ELSE 0)]

\* Two quotes, one of them executed; a taker cancels the other, a merge closes.
Counted(orders, taker, merge) ==
    [open |-> orders.open + 2, executed |-> orders.executed + 1,
     canceled |-> orders.canceled + (IF taker THEN 1 ELSE 0),
     closed |-> orders.closed + (IF merge THEN 1 ELSE 0)]

\* What run_all books of a cycle.
BookCycle(market, profit, notional, taker, merge) ==
    /\ sm_metrics' = Booked(sm_metrics, profit, notional, taker)
    /\ sm_orders' = [sm_orders EXCEPT ![market] = Counted(@, taker, merge)]

\* One cycle of run_all, and its row in ticks.csv.
RunSimulatedCycle(tick, side, taker) ==
    /\ sm_pc = "run" /\ sm_cycle < MmCycles /\ sm_ever < MmMaxCycles
    /\ LET quotes == BuildQuotes(tick, sm_inventory)
           made == FillInventory(sm_inventory, MakerFill(side, quotes))
           taken == IF taker THEN FillInventory(made, TakerFill(tick, made)) ELSE made
       IN /\ sm_inventory' = taken
          /\ \E merge \in Enough(10000 - quotes.yes_bid - quotes.no_bid, MmMergeEdge),
                split \in Enough(quotes.yes_ask + quotes.no_ask - 10000, MmSplitEdge) :
                BookCycle(tick.market, CycleProfit(tick, quotes, side, taker, merge, split),
                          sm_inventory.cash - taken.cash, taker, merge)
    /\ sm_cycle' = sm_cycle + 1 /\ sm_ticks' = sm_ticks + 1
    /\ sm_ever' = sm_ever + 1
    /\ UNCHANGED <<sm_pc, sm_log, sm_summary, sm_stops>>

RunEnded ==
    /\ sm_pc = "run" /\ sm_cycle = MmCycles
    /\ sm_summary' = Summary(sm_metrics, sm_inventory) /\ sm_pc' = "append"
    /\ UNCHANGED <<sm_cycle, sm_inventory, sm_metrics, sm_orders, sm_ticks, sm_log, sm_ever, sm_stops>>

-----------------------------------------------------------------------------
(* launcher.py *)

\* run_all opens ticks.csv for writing: the rows of the last iteration go.
StartIteration ==
    /\ sm_pc = "sleep"
    /\ sm_pc' = "run" /\ sm_cycle' = 0 /\ sm_ticks' = 0
    /\ UNCHANGED <<sm_inventory, sm_metrics, sm_orders, sm_log, sm_summary, sm_ever, sm_stops>>

AppendTradesLog ==
    /\ sm_pc = "append"
    /\ sm_log' = sm_log + sm_ticks /\ sm_pc' = "sleep"
    /\ UNCHANGED <<sm_cycle, sm_inventory, sm_metrics, sm_orders, sm_ticks, sm_summary, sm_ever, sm_stops>>

Stops == sm_stops < MmMaxStops /\ sm_stops' = sm_stops + 1

\* next_tick raises: main logs the failure and goes on with the same bot.
IterationFails ==
    /\ sm_pc = "run" /\ sm_cycle < MmCycles /\ Stops
    /\ sm_pc' = "sleep"
    /\ UNCHANGED <<sm_cycle, sm_inventory, sm_metrics, sm_orders, sm_ticks, sm_log, sm_summary, sm_ever>>

RestartSimulator ==
    /\ Stops /\ NewBot
    /\ sm_pc' = "sleep" /\ sm_cycle' = 0
    /\ UNCHANGED <<sm_ticks, sm_log, sm_summary, sm_ever>>

SimulatorNext ==
    \/ StartIteration \/ RunEnded \/ AppendTradesLog \/ IterationFails \/ RestartSimulator
    \/ \E tick \in MmTicks, side \in {"YES", "NO"}, taker \in BOOLEAN : RunSimulatedCycle(tick, side, taker)

-----------------------------------------------------------------------------
(* What the bot reports *)

\* Inventory, metrics and order counters tell one story across iterations, the
\* failed ones included: cash is what the fills cost, and every lot is a fill.
BooksAgree ==
    LET Total(field) == SumFunctionOnSet([m \in MmMarkets |-> sm_orders[m][field]], MmMarkets)
    IN /\ sm_inventory.cash = MmCash - sm_metrics.notional
       /\ sm_inventory.yes + sm_inventory.no = sm_metrics.fills
       /\ sm_metrics.fills = sm_metrics.closed + sm_metrics.takers
       /\ Total("open") = 2 * sm_metrics.closed /\ Total("executed") = sm_metrics.closed
       /\ Total("canceled") = sm_metrics.takers
       /\ 2 * sm_summary.paired + sm_summary.unpaired = sm_summary.fills

\* However far the inventory has shifted the price, neither token is quoted
\* crossed, and no one can buy or sell the pair from the bot at a gain.
QuotesAreSafe ==
    \A tick \in MmTicks :
        LET quotes == BuildQuotes(tick, sm_inventory)
        IN /\ quotes.yes_bid < quotes.yes_ask /\ quotes.no_bid < quotes.no_ask
           /\ quotes.yes_bid + quotes.no_bid < 10000 /\ quotes.yes_ask + quotes.no_ask > 10000

\* The win rate says nothing of the market: with the configured fees and spread
\* every cycle books a gain, whichever side is hit and whatever it is worth.
EveryCycleWins ==
    /\ sm_metrics.winning = sm_metrics.closed
    /\ sm_summary.won = sm_summary.settled /\ sm_summary.settled = sm_summary.closed
    /\ sm_summary.realized >= 0

\* A closed cycle reaches the trades log once; those that do not are the running
\* iteration's, or fewer than an iteration's for each failure or restart.
LogLossesByStops ==
    /\ sm_log <= sm_ever
    /\ sm_ever - sm_log <= MmCycles * (sm_stops + 1)
    /\ sm_stops = 0 /\ sm_pc = "sleep" => sm_log = sm_ever

SimulatorBooks == BooksAgree /\ QuotesAreSafe /\ EveryCycleWins /\ LogLossesByStops
=============================================================================
