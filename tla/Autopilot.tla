----------------------------- MODULE Autopilot -----------------------------
(***************************************************************************)
(* The Polymarket autopilot of ToTheMoon (strategies/polymarket_autopilot): *)
(* a paper portfolio in SQLite.  A cycle fetches the markets, derives every *)
(* signal from the snapshots recorded by the cycle before, executes them   *)
(* one transaction each, takes profits in one transaction and records the  *)
(* new snapshots last.  `once` runs some cycles and publishes a summary.   *)
(***************************************************************************)
EXTENDS Integers, Sequences, FiniteSets, SequencesExt, Functions

CONSTANTS
    Items,                  \* market ids
    Payloads,               \* what the API may say of one market
    Missing,                \* an absent field, price or snapshot
    StartingCapital,        \* in cents per thousandth of a lot, like all money
    MinAllocation,          \* 25 dollars
    ProfitTarget,           \* per cent
    SimulationDays,
    MaxAutopilotCycles,     \* bound
    MaxAutopilotCrashes     \* bound

PriceFields == (Int \X Int) \cup {Missing}
PayloadFields ==
    [outcomePrices : PriceFields, prices : PriceFields, yesPrice : Int \cup {Missing},
     noPrice : Int \cup {Missing}, volume : Nat, comments : Nat]
Snapshots == [yes : Int, no : Int, volume : Nat, news : Nat]

ASSUME AutopilotAssumption ==
    /\ IsFiniteSet(Items)
    /\ Payloads \subseteq PayloadFields
    /\ Missing \notin Payloads \cup Snapshots \cup Int \cup (Int \X Int)
    /\ StartingCapital \in Nat /\ MinAllocation \in Nat /\ ProfitTarget \in Nat
    /\ SimulationDays \in Nat \ {0}
    /\ MaxAutopilotCycles \in Nat /\ MaxAutopilotCrashes \in Nat

VARIABLES
    ap_pc,
    ap_days,        \* cycles left in this run
    ap_snapshots,   \* market -> the snapshot fetched, or Missing
    ap_signals,     \* the signals still to execute
    portfolio,      \* cash, in the database
    holdings,       \* <<market, side>> -> quantity and cost
    realized,       \* the sum of the trades' pnl
    market_history, \* market -> the snapshot last recorded
    ap_bought,      \* ghost: buys of a market by a strategy since its last record
    ap_cycles, ap_crashes

ap_store == <<portfolio, holdings, realized>>
ap_vars == <<ap_pc, ap_days, ap_snapshots, ap_signals, ap_store, market_history,
             ap_bought, ap_cycles, ap_crashes>>

Sides == {"YES", "NO"}
AutopilotStrategies == {"TAIL", "BONDING", "SPREAD"}
TradeSignals ==
    [item : Items, strategy : AutopilotStrategies, side : Sides, confidence : Nat]
NoHolding == [quantity |-> 0, cost |-> 0]

AutopilotTypeOK ==
    /\ ap_pc \in {"idle", "fetch", "trade", "rebalance", "record", "publish"}
    /\ ap_days \in 0 .. SimulationDays
    /\ portfolio \in Nat /\ realized \in Nat
    /\ holdings \in [Items \X Sides -> [quantity : Nat, cost : Nat]]
    /\ market_history \in [Items -> Snapshots \cup {Missing}]
    /\ ap_snapshots \in [Items -> Snapshots \cup {Missing}]
    /\ ap_signals \in Seq(TradeSignals)
    /\ ap_bought \in [Items \X AutopilotStrategies -> Nat]
    /\ ap_cycles \in 0 .. MaxAutopilotCycles /\ ap_crashes \in 0 .. MaxAutopilotCrashes

AutopilotInit ==
    /\ ap_pc = "idle" /\ ap_days = 0
    /\ ap_snapshots = [i \in Items |-> Missing] /\ ap_signals = <<>>
    /\ portfolio = StartingCapital /\ realized = 0
    /\ holdings = [k \in Items \X Sides |-> NoHolding]
    /\ market_history = [i \in Items |-> Missing]
    /\ ap_bought = [k \in Items \X AutopilotStrategies |-> 0]
    /\ ap_cycles = 0 /\ ap_crashes = 0

-----------------------------------------------------------------------------
(* Snapshots: prices are in cents, the news score in twentieths *)

ExtractPrices(item) ==
    CASE item.outcomePrices # Missing -> item.outcomePrices
      [] item.outcomePrices = Missing /\ item.prices # Missing -> item.prices
      [] OTHER -> IF item.yesPrice = Missing THEN Missing
                  ELSE <<item.yesPrice,
                         IF item.noPrice = Missing THEN 100 - item.yesPrice ELSE item.noPrice>>

ParseMarket(item) ==
    LET prices == ExtractPrices(item)
    IN  IF prices = Missing THEN Missing
        ELSE [yes |-> prices[1], no |-> prices[2], volume |-> item.volume,
              news |-> IF item.comments < 20 THEN item.comments ELSE 20]

PriceOf(snapshot, side) == IF side = "YES" THEN snapshot.yes ELSE snapshot.no

-----------------------------------------------------------------------------
(* Signals: a confidence is in thousandths *)

TailSignal(i, now, before) ==
    IF /\ now.yes >= 60 /\ before # Missing
       /\ before.volume > 0
       /\ 4 * (now.volume - before.volume) > before.volume
    THEN <<[item |-> i, strategy |-> "TAIL", side |-> "YES",
            confidence |-> IF now.yes < 100 THEN now.yes ELSE 100]>>
    ELSE <<>>

BondingSignal(i, now, before) ==
    IF /\ before # Missing
       /\ before.yes > 0
       /\ 10 * (now.yes - before.yes) <= -before.yes
       /\ now.news >= 10
    THEN <<[item |-> i, strategy |-> "BONDING", side |-> "YES", confidence |-> 80]>>
    ELSE <<>>

SpreadSignal(i, now) ==
    IF now.yes + now.no > 105
    THEN <<[item |-> i, strategy |-> "SPREAD",
            side |-> IF now.yes <= now.no THEN "YES" ELSE "NO", confidence |-> 50]>>
    ELSE <<>>

SignalsOf(snapshots, i) ==
    LET now == snapshots[i]
    IN  FlattenSeq(<<TailSignal(i, now, market_history[i]),
                     BondingSignal(i, now, market_history[i]), SpreadSignal(i, now)>>)

GenerateSignals(snapshots) ==
    FlattenSeq([n \in 1 .. Cardinality(Items) |->
        LET i == SetToSeq(Items)[n]
        IN  IF snapshots[i] = Missing THEN <<>> ELSE SignalsOf(snapshots, i)])

-----------------------------------------------------------------------------
(* A cycle *)

StartAutopilot ==
    /\ ap_pc = "idle"
    /\ ap_pc' = "fetch" /\ ap_days' = SimulationDays
    /\ UNCHANGED <<ap_snapshots, ap_signals, ap_store, market_history, ap_bought, ap_cycles, ap_crashes>>

FetchMarkets ==
    /\ ap_pc = "fetch" /\ ap_cycles < MaxAutopilotCycles
    /\ \E answer \in [Items -> Payloads \cup {Missing}] :
          LET snapshots == [i \in Items |-> IF answer[i] = Missing THEN Missing
                                            ELSE ParseMarket(answer[i])]
          IN  /\ ap_snapshots' = snapshots
              /\ ap_signals' = GenerateSignals(snapshots)
    /\ ap_pc' = "trade" /\ ap_cycles' = ap_cycles + 1
    /\ UNCHANGED <<ap_days, ap_store, market_history, ap_bought, ap_crashes>>

EndAutopilot ==
    /\ ap_pc' = "idle" /\ ap_days' = 0
    /\ ap_snapshots' = [i \in Items |-> Missing] /\ ap_signals' = <<>>
    /\ UNCHANGED <<ap_store, market_history, ap_bought, ap_cycles>>

\* main prints the exception and returns 1.
FetchMarketsFails == ap_pc \in {"fetch", "publish"} /\ EndAutopilot /\ UNCHANGED ap_crashes

Rounded(a, b) == (2 * a + b) \div (2 * b)

\* The lots a signal buys: none when the allocation is too small.
Lots(signal, price) ==
    LET allocation == portfolio * signal.confidence
    IN  IF allocation < 1000 * MinAllocation THEN 0
        ELSE Rounded(allocation, 1000 * (IF price > 1 THEN price ELSE 1))

\* Altered: adding to a position forgets what it has cost.
BoughtMoreForgetting(holding, lots, price) ==
    [quantity |-> holding.quantity + lots, cost |-> lots * price]
BoughtMore(holding, lots, price) ==
    [quantity |-> holding.quantity + lots, cost |-> holding.cost + lots * price]

ExecutePaperTrade ==
    /\ ap_pc = "trade" /\ ap_signals # <<>>
    /\ LET signal == Head(ap_signals)
           key == <<signal.item, signal.side>>
           price == PriceOf(ap_snapshots[signal.item], signal.side)
           lots == Lots(signal, price)
       IN  IF lots > 0 /\ price > 0 /\ lots * price <= portfolio
           THEN /\ holdings' = [holdings EXCEPT ![key] = BoughtMore(@, lots, price)]
                /\ portfolio' = portfolio - lots * price
                /\ ap_bought' = [ap_bought EXCEPT ![<<signal.item, signal.strategy>>] = @ + 1]
           ELSE UNCHANGED <<holdings, portfolio, ap_bought>>
    /\ ap_signals' = Tail(ap_signals)
    /\ UNCHANGED <<ap_pc, ap_days, ap_snapshots, realized, market_history, ap_cycles, ap_crashes>>

TradesExecuted ==
    /\ ap_pc = "trade" /\ ap_signals = <<>>
    /\ ap_pc' = "rebalance"
    /\ UNCHANGED <<ap_days, ap_snapshots, ap_signals, ap_store, market_history, ap_bought, ap_cycles, ap_crashes>>

Proceeds(k) == holdings[k].quantity * PriceOf(ap_snapshots[k[1]], k[2])

Costs(positions) == [k \in Items \X Sides |-> positions[k].cost]

InProfit(k) ==
    /\ holdings[k].quantity > 0
    /\ ap_snapshots[k[1]] # Missing
    /\ 100 * Proceeds(k) >= (100 + ProfitTarget) * holdings[k].cost

RebalanceTakeProfit ==
    /\ ap_pc = "rebalance"
    /\ LET closed == {k \in Items \X Sides : InProfit(k)}
           proceeds == SumFunctionOnSet([k \in closed |-> Proceeds(k)], closed)
       IN  /\ holdings' = [k \in Items \X Sides |-> IF k \in closed THEN NoHolding ELSE holdings[k]]
           /\ portfolio' = portfolio + proceeds
           /\ realized' = realized + proceeds - SumFunctionOnSet(Costs(holdings), closed)
    /\ ap_pc' = "record"
    /\ UNCHANGED <<ap_days, ap_snapshots, ap_signals, market_history, ap_bought, ap_cycles, ap_crashes>>

RecordMarketSnapshots ==
    /\ ap_pc = "record"
    /\ market_history' = [i \in Items |-> IF ap_snapshots[i] = Missing
                                          THEN market_history[i] ELSE ap_snapshots[i]]
    /\ ap_bought' = [k \in Items \X AutopilotStrategies |->
                        IF ap_snapshots[k[1]] = Missing THEN ap_bought[k] ELSE 0]
    /\ ap_days' = ap_days - 1
    /\ ap_pc' = IF ap_days' = 0 THEN "publish" ELSE "fetch"
    /\ UNCHANGED <<ap_snapshots, ap_signals, ap_store, ap_cycles, ap_crashes>>

\* The summary fetches the markets again and only reads the database.
PublishDailySummary == ap_pc = "publish" /\ EndAutopilot /\ UNCHANGED ap_crashes

AutopilotCrash ==
    /\ ap_pc # "idle" /\ ap_crashes < MaxAutopilotCrashes
    /\ EndAutopilot /\ ap_crashes' = ap_crashes + 1

AutopilotNext ==
    \/ StartAutopilot \/ FetchMarkets \/ FetchMarketsFails \/ ExecutePaperTrade \/ TradesExecuted
    \/ RebalanceTakeProfit \/ RecordMarketSnapshots \/ PublishDailySummary \/ AutopilotCrash

-----------------------------------------------------------------------------
(* Properties *)

\* However runs crash between their transactions, the cash and what the open
\* positions cost are the starting capital and the profit of the SELL trades:
\* every transaction moves money between a position and the portfolio row.
BooksBalance ==
    portfolio + SumFunctionOnSet(Costs(holdings), Items \X Sides) = StartingCapital + realized

\* A strategy buys a market at most once for each snapshot recorded of it, and
\* once more for each crash: the signals of a cycle are derived before its first
\* trade and the snapshot that explains them is recorded after its last one.
OneBuyPerSnapshot ==
    \A k \in Items \X AutopilotStrategies : ap_bought[k] <= 1 + ap_crashes
=============================================================================
