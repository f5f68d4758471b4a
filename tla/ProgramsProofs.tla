--------------------------- MODULE ProgramsProofs ---------------------------
(***************************************************************************)
(* Theorems about the programs beside the Madawc bot: what a crash or a    *)
(* torn file does to the mean-reversion strategy, that Korlic's books      *)
(* agree and how often its trade log repeats an event, that the autopilot  *)
(* never spends what it does not have, what the rate limiter lets through, *)
(* what the crawl of Gamma's pages can miss, what justifies the MVP        *)
(* library's signals, and what the research engine stores and holds.  Each *)
(* program has its own inductive invariant; StepOfEach says that a step of *)
(* the whole is a step of each of them or leaves it alone.                 *)
(***************************************************************************)
EXTENDS Programs, SumsProofs

\* A step of the whole is a step of each program or leaves it alone.
LEMMA StepOfEach ==
    ASSUME [ProgramsNext]_program_vars
    PROVE  /\ [StrategyNext]_mr_vars
           /\ [MarketMakerNext]_mm_vars
           /\ [KorlicNext]_k_vars
           /\ [AutopilotNext]_ap_vars
           /\ [RateLimitsNext]_rl_vars
           /\ [ListingNext]_gl_vars
           /\ [SimulatorNext]_sm_vars
           /\ [EngineNext]_en_vars
           /\ [MvpNext]_pv_vars
           /\ [TalicNext]_talic_vars
<1>1. CASE UNCHANGED program_vars
  BY <1>1 DEF program_vars
<1>2. CASE StrategyRuns
  BY <1>2 DEF StrategyRuns
<1>3. CASE MarketMakerRuns
  BY <1>3 DEF MarketMakerRuns
<1>4. CASE KorlicRuns
  BY <1>4 DEF KorlicRuns
<1>6. CASE AutopilotRuns
  BY <1>6 DEF AutopilotRuns
<1>7. CASE RateLimitsRuns
  BY <1>7 DEF RateLimitsRuns
<1>8. CASE ListingRuns
  BY <1>8 DEF ListingRuns
<1>9. CASE SimulatorRuns
  BY <1>9 DEF SimulatorRuns
<1>5. CASE EngineRuns
  BY <1>5 DEF EngineRuns
<1>10. CASE MvpRuns
  BY <1>10 DEF MvpRuns
<1>11. CASE TalicRuns
  BY <1>11 DEF TalicRuns
<1> QED BY <1>1, <1>2, <1>3, <1>4, <1>5, <1>6, <1>7, <1>8, <1>9, <1>10, <1>11 DEF ProgramsNext

-----------------------------------------------------------------------------
(* Mean reversion: a torn file *)

Memories == [open : [Tokens -> {0} \cup Midpoints], losses : Nat, breaker : BOOLEAN]

\* No run begins on a torn state, and a run on a torn history gets no further
\* than its first trade.
TornFileHolds ==
    /\ mr_memory \in Memories
    /\ state_file \in Memories \cup {Torn}
    /\ trades_file \in [Tokens -> Int] \cup {Torn}
    /\ mr_trade.bought \in Int
    /\ state_file = Torn => mr_pc = "idle"
    /\ trades_file = Torn => mr_pc \notin {"recording", "save", "saving"}

LEMMA MemoriesNotTorn == Torn \notin Memories /\ Torn \notin [Tokens -> Int] /\ NewState \in Memories
BY TornAssumption DEF TornAssumption, Memories, NewState

LEMMA TornInit == StrategyInit => TornFileHolds
BY MemoriesNotTorn DEF StrategyInit, TornFileHolds, NoTrade

LEMMA TradeKeepsMemories ==
    ASSUME NEW memory \in Memories, NEW token, NEW price \in {0} \cup Midpoints
    PROVE  [memory EXCEPT !.open[token] = price] \in Memories
BY DEF Memories

LEMMA AfterPnlMemories ==
    ASSUME NEW memory \in Memories, NEW pnl
    PROVE  AfterPnl(memory, pnl) \in Memories
<1> DEFINE losses == IF pnl < 0 THEN memory.losses + 1 ELSE 0
<1>1. losses \in Nat
  BY DEF Memories
<1>2. (memory.breaker \/ losses >= MaxLosses) \in BOOLEAN
  OBVIOUS
<1>3. AfterPnl(memory, pnl)
        = [memory EXCEPT !.losses = losses, !.breaker = memory.breaker \/ losses >= MaxLosses]
  BY DEF AfterPnl
<1> HIDE DEF losses
<1> QED BY <1>1, <1>2, <1>3 DEF Memories

LEMMA HistoryKept ==
    ASSUME NEW history \in [Tokens -> Int], NEW token, NEW bought \in Int
    PROVE  [history EXCEPT ![token] = @ + bought] \in [Tokens -> Int]
<1>1. CASE token \in Tokens
  <2>1. history[token] + bought \in Int
    BY <1>1
  <2> QED BY <2>1
<1>2. CASE token \notin Tokens
  <2>1. [history EXCEPT ![token] = @ + bought] = history
    BY <1>2
  <2> QED BY <2>1
<1> QED BY <1>1, <1>2

LEMMA TornStep ==
    ASSUME TornFileHolds, [StrategyNext]_mr_vars
    PROVE  TornFileHolds'
<1> USE MemoriesNotTorn DEF TornFileHolds
<1>1. CASE LoadState
  BY <1>1 DEF LoadState
<1>2. CASE ReadPage
  BY <1>2 DEF ReadPage
<1>3. CASE RequestFails \/ RunFinishes
  BY <1>3 DEF RequestFails, RunFinishes, RunEnds, NoTrade
<1>4. CASE NothingToTrade
  BY <1>4 DEF NothingToTrade
<1>5. CASE BuyYes
  <2>1. PICK price \in Midpoints : Trade(1, [mr_memory EXCEPT !.open[Token] = price])
    BY <1>5 DEF BuyYes
  <2>2. [mr_memory EXCEPT !.open[Token] = price] \in Memories
    BY TradeKeepsMemories
  <2> QED BY <1>5, <2>1, <2>2 DEF BuyYes, Trade
<1>6. CASE SellYes
  <2>1. PICK price \in Midpoints :
            Trade(-1, [AfterPnl(mr_memory, price - Entry) EXCEPT !.open[Token] = 0])
    BY <1>6 DEF SellYes
  <2>2. [AfterPnl(mr_memory, price - Entry) EXCEPT !.open[Token] = 0] \in Memories
    BY AfterPnlMemories, TradeKeepsMemories
  <2> QED BY <1>6, <2>1, <2>2 DEF SellYes, Trade
<1>7. CASE RecordTrade
  <2>1. CASE trades_file = Torn
    BY <1>7, <2>1 DEF RecordTrade, RunEnds, NoTrade
  <2>2. CASE trades_file # Torn
    <3>1. [trades_file EXCEPT ![mr_trade.token] = @ + mr_trade.bought] \in [Tokens -> Int]
      BY <2>2, HistoryKept
    <3>2. /\ trades_file' = [trades_file EXCEPT ![mr_trade.token] = @ + mr_trade.bought]
          /\ mr_pc' = "recording"
          /\ UNCHANGED <<mr_trade, mr_memory, state_file>>
      BY <1>7, <2>2 DEF RecordTrade
    <3>3. trades_file' \in [Tokens -> Int] /\ trades_file' # Torn
      BY <3>1, <3>2
    <3>4. state_file # Torn
      BY <1>7 DEF RecordTrade
    <3> QED BY <3>2, <3>3, <3>4
  <2> QED BY <2>1, <2>2
<1>8. CASE TradeRecorded
  BY <1>8 DEF TradeRecorded
<1>9. CASE SaveState
  BY <1>9 DEF SaveState
<1>10. CASE StateSaved
  BY <1>10 DEF StateSaved, NoTrade
<1>11. CASE StrategyCrash
  BY <1>11 DEF StrategyCrash, NoTrade
<1>12. CASE UNCHANGED mr_vars
  BY <1>12 DEF mr_vars
<1> QED
  BY <1>1, <1>2, <1>3, <1>4, <1>5, <1>6, <1>7, <1>8, <1>9, <1>10, <1>11, <1>12 DEF StrategyNext

LEMMA TornFileKept ==
    ASSUME TornFileHolds, [StrategyNext]_mr_vars, state_file = Torn \/ trades_file = Torn
    PROVE  UNCHANGED <<state_file, trades_file>>
<1> USE DEF TornFileHolds
<1>1. CASE LoadState \/ ReadPage \/ NothingToTrade \/ TradeRecorded \/ StateSaved
  BY <1>1 DEF LoadState, ReadPage, NothingToTrade, TradeRecorded, StateSaved
<1>2. CASE RequestFails \/ RunFinishes
  BY <1>2 DEF RequestFails, RunFinishes, RunEnds
<1>3. CASE BuyYes \/ SellYes
  BY <1>3 DEF BuyYes, SellYes, Trade
<1>4. CASE RecordTrade
  BY <1>4 DEF RecordTrade, RunEnds
<1>5. CASE SaveState
  BY <1>5 DEF SaveState
<1>6. CASE StrategyCrash
  BY <1>6 DEF StrategyCrash
<1>7. CASE UNCHANGED mr_vars
  BY <1>7 DEF mr_vars
<1> QED BY <1>1, <1>2, <1>3, <1>4, <1>5, <1>6, <1>7 DEF StrategyNext

\* A crash that tears either file of the mean-reversion strategy stops it for
\* good (mean_reversion.py loads the state before a run and rereads the history
\* before a trade, and both loads raise): neither file is written again.
THEOREM TornFileIsFinal == ProgramsSpec => TornFileStopsTrading
<1>1. ProgramsInit => TornFileHolds
  BY TornInit DEF ProgramsInit
<1>2. TornFileHolds /\ [ProgramsNext]_program_vars => TornFileHolds'
  BY StepOfEach, TornStep
<1>3. TornFileHolds /\ [ProgramsNext]_program_vars
        => [state_file = Torn \/ trades_file = Torn => UNCHANGED <<state_file, trades_file>>]_mr_vars
  BY StepOfEach, TornFileKept
<1> QED BY <1>1, <1>2, <1>3, PTL DEF ProgramsSpec, TornFileStopsTrading

-----------------------------------------------------------------------------
(* Mean reversion: the drift of the two files *)

\* How far the recorded trades and a state are apart, over all tokens.
Drift(history, state) == [t \in Tokens |-> Distance(history[t], Held(state, t))]
DriftSum(history, state) == SumFunctionOnSet(Drift(history, state), Tokens)

\* While a trade is on its way to the files, the state in memory is the saved one
\* with the trade made; the history is apart from the saved state by the trade
\* once it is recorded, and not from the one in memory.
TradedBetween(before, after, token, bought) ==
    \A t \in Tokens : Held(after, t) = Held(before, t) + IF t = token THEN bought ELSE 0

OnItsWay == TradedBetween(state_file, mr_memory, mr_trade.token, mr_trade.bought)

DriftHolds ==
    /\ mr_crashes \in Nat /\ mr_trade.bought \in {-1, 0, 1}
    /\ mr_pc \in {"discover", "evaluate", "saving"} => mr_memory = state_file
    /\ mr_pc \in {"record", "recording", "save"} => OnItsWay
    /\ Torn \notin {state_file, trades_file} =>
          IF mr_pc \in {"recording", "save"}
          THEN /\ DriftSum(trades_file, state_file) <= mr_crashes + 1
               /\ DriftSum(trades_file, mr_memory) <= mr_crashes
          ELSE DriftSum(trades_file, state_file) <= mr_crashes

LEMMA DriftSummable ==
    ASSUME NEW history \in [Tokens -> Int], NEW state
    PROVE  /\ Summable(Drift(history, state), Tokens)
           /\ DriftSum(history, state) \in Int
           /\ \A t \in Tokens : Drift(history, state)[t] = Distance(history[t], Held(state, t))
<1>1. Summable(Drift(history, state), Tokens)
  BY StrategyAssumption DEF StrategyAssumption, Summable, Drift, Distance, Held
<1> QED BY <1>1, SetSumDef DEF Drift, DriftSum

LEMMA DriftHoldsInit == StrategyInit => DriftHolds
<1> SUFFICES ASSUME StrategyInit PROVE DriftHolds
  OBVIOUS
<1>1. trades_file \in [Tokens -> Int] /\ \A t \in Tokens : trades_file[t] = 0 /\ Held(state_file, t) = 0
  BY DEF StrategyInit, NewState, Held
<1>2. \A t \in Tokens : Drift(trades_file, state_file)[t] = 0
  BY <1>1, DriftSummable DEF Distance
<1>3. DriftSum(trades_file, state_file) = 0
  BY <1>1, <1>2, DriftSummable, SetSumZero DEF DriftSum
<1> QED BY <1>3 DEF StrategyInit, NoTrade, DriftHolds

\* A trade that moves its token from or into the state.
LEMMA TradeOnItsWay ==
    ASSUME NEW token, NEW bought \in {-1, 1}, NEW before \in Memories, NEW after \in Memories,
           \A t \in Tokens : t # token => after.open[t] = before.open[t],
           token \in Tokens => (bought = 1 <=> before.open[token] = 0),
           token \in Tokens => (bought = -1 <=> after.open[token] = 0)
    PROVE  TradedBetween(before, after, token, bought)
BY DEF Held, TradedBetween

LEMMA AfterPnlOpen ==
    ASSUME NEW memory \in Memories, NEW pnl
    PROVE  AfterPnl(memory, pnl).open = memory.open
BY DEF AfterPnl, Memories

\* Recording the trade brings the history as close to the state in memory as it
\* was to the saved one.
LEMMA RecordedDrift ==
    ASSUME NEW history \in [Tokens -> Int], NEW token, NEW bought \in {-1, 0, 1}, NEW before, NEW after,
           TradedBetween(before, after, token, bought)
    PROVE  LET recorded == [history EXCEPT ![token] = @ + bought] IN
           /\ DriftSum(recorded, after) = DriftSum(history, before)
           /\ DriftSum(recorded, before) <= DriftSum(history, before) + 1
<1> DEFINE recorded == [history EXCEPT ![token] = @ + bought]
           f == Drift(history, before)
           g == Drift(recorded, before)
<1>1. recorded \in [Tokens -> Int]
  BY HistoryKept
<1>2. \A t \in Tokens : recorded[t] = IF t = token THEN history[t] + bought ELSE history[t]
  OBVIOUS
<1>3. \A t \in Tokens : Held(before, t) \in {0, 1} /\ history[t] \in Int
  BY DEF Held
<1> USE DEF TradedBetween
<1> HIDE DEF recorded
<1>4. DriftSum(recorded, after) = DriftSum(history, before)
  <2>1. \A t \in Tokens : Drift(history, before)[t] = Drift(recorded, after)[t]
    <3> SUFFICES ASSUME NEW t \in Tokens PROVE Drift(history, before)[t] = Drift(recorded, after)[t]
      OBVIOUS
    <3>1. /\ Drift(history, before)[t] = Distance(history[t], Held(before, t))
          /\ Drift(recorded, after)[t] = Distance(recorded[t], Held(after, t))
      BY <1>1, DriftSummable
    <3>2. \A a, b, c \in Int : Distance(a + c, b + c) = Distance(a, b)
      BY DEF Distance
    <3>3. CASE t = token
      <4>1. recorded[t] = history[t] + bought /\ Held(after, t) = Held(before, t) + bought
        BY <1>2, <3>3
      <4>2. Distance(history[t] + bought, Held(before, t) + bought) = Distance(history[t], Held(before, t))
        <5>1. history[t] \in Int /\ Held(before, t) \in Int /\ bought \in Int
          BY <1>3
        <5> QED BY <3>2, <5>1
      <4> QED BY <3>1, <4>1, <4>2
    <3>4. CASE t # token
      <4>1. recorded[t] = history[t] /\ Held(after, t) = Held(before, t)
        BY <1>2, <1>3, <3>4
      <4> QED BY <3>1, <4>1
    <3> QED BY <3>3, <3>4
  <2> QED BY <1>1, <2>1, DriftSummable, SetSumSame DEF DriftSum
<1>5. DriftSum(recorded, before) <= DriftSum(history, before) + 1
  <2>1. /\ Summable(f, Tokens) /\ Summable(g, Tokens)
        /\ DriftSum(recorded, before) \in Int /\ DriftSum(history, before) \in Int
        /\ \A t \in Tokens : /\ f[t] = Distance(history[t], Held(before, t)) /\ f[t] \in Int
                             /\ g[t] = Distance(recorded[t], Held(before, t)) /\ g[t] \in Int
    BY <1>1, DriftSummable DEF Summable
  <2> HIDE DEF f, g
  <2>2. \A t \in Tokens : t # token => g[t] = f[t]
    BY <1>2, <2>1
  <2>3. CASE token \in Tokens
    <3>1. SumFunctionOnSet(g, Tokens) = SumFunctionOnSet(f, Tokens) + g[token] - f[token]
      BY <2>1, <2>2, <2>3, SetSumUpdate
    <3>2. g[token] <= f[token] + 1
      <4>1. recorded[token] = history[token] + bought
        BY <1>2, <2>3
      <4>2. \A a, b \in Int, c \in {-1, 0, 1} : Distance(a + c, b) <= Distance(a, b) + 1
        BY DEF Distance
      <4> QED BY <1>3, <2>1, <2>3, <4>1, <4>2
    <3>3. f[token] \in Int /\ g[token] \in Int
      BY <2>1, <2>3
    <3> QED BY <2>1, <3>1, <3>2, <3>3 DEF DriftSum, f, g
  <2>4. CASE token \notin Tokens
    <3>1. SumFunctionOnSet(f, Tokens) = SumFunctionOnSet(g, Tokens)
      BY <2>1, <2>2, <2>4, SetSumSame
    <3> QED BY <2>1, <3>1 DEF DriftSum, f, g
  <2> QED BY <2>3, <2>4
<1> QED BY <1>4, <1>5 DEF recorded

LEMMA DriftStep ==
    ASSUME TornFileHolds, DriftHolds, [StrategyNext]_mr_vars
    PROVE  DriftHolds'
<1> USE DEF DriftHolds
<1>0. /\ mr_crashes \in Nat /\ mr_memory \in Memories
      /\ Torn \notin {state_file, trades_file} =>
            /\ DriftSum(trades_file, state_file) \in Int /\ DriftSum(trades_file, mr_memory) \in Int
            /\ trades_file \in [Tokens -> Int] /\ state_file \in Memories
  BY DriftSummable DEF TornFileHolds
<1>1. CASE LoadState
  BY <1>1 DEF LoadState
<1>2. CASE ReadPage
  BY <1>2 DEF ReadPage
<1>3. CASE RequestFails \/ RunFinishes
  BY <1>3 DEF RequestFails, RunFinishes, RunEnds, NoTrade
<1>4. CASE NothingToTrade
  BY <1>4 DEF NothingToTrade
<1>5. CASE BuyYes
  <2>1. PICK price \in Midpoints : Trade(1, [mr_memory EXCEPT !.open[Token] = price])
    BY <1>5 DEF BuyYes
  <2> DEFINE after == [mr_memory EXCEPT !.open[Token] = price]
  <2>2. price # 0
    BY <2>1, StrategyAssumption DEF StrategyAssumption
  <2>3. after \in Memories
    BY <1>0, TradeKeepsMemories
  <2>4. /\ \A t \in Tokens : t # Token => after.open[t] = mr_memory.open[t]
        /\ Token \in Tokens => after.open[Token] = price /\ mr_memory.open[Token] = 0
    BY <1>0, <1>5 DEF BuyYes, Entry, Memories
  <2>5. /\ mr_memory' = after /\ mr_trade' = [token |-> Token, bought |-> 1]
        /\ mr_pc' = "record" /\ mr_pc = "evaluate" /\ UNCHANGED <<state_file, trades_file, mr_crashes>>
    BY <1>5, <2>1 DEF BuyYes, Trade
  <2> HIDE DEF after
  <2>6. TradedBetween(mr_memory, after, Token, 1)
    BY <1>0, <2>2, <2>3, <2>4, TradeOnItsWay
  <2>7. OnItsWay'
    BY <2>5, <2>6 DEF OnItsWay
  <2> QED BY <2>5, <2>7
<1>6. CASE SellYes
  <2>1. PICK price \in Midpoints :
            Trade(-1, [AfterPnl(mr_memory, price - Entry) EXCEPT !.open[Token] = 0])
    BY <1>6 DEF SellYes
  <2> DEFINE paid == AfterPnl(mr_memory, price - Entry)
             after == [paid EXCEPT !.open[Token] = 0]
  <2>2. paid \in Memories /\ paid.open = mr_memory.open
    BY <1>0, AfterPnlMemories, AfterPnlOpen
  <2> HIDE DEF paid
  <2>3. after \in Memories
    <3>1. 0 \in {0} \cup Midpoints
      OBVIOUS
    <3> QED BY <2>2, <3>1, TradeKeepsMemories
  <2>4. /\ \A t \in Tokens : t # Token => after.open[t] = mr_memory.open[t]
        /\ Token \in Tokens => after.open[Token] = 0 /\ mr_memory.open[Token] # 0
    BY <1>0, <1>6, <2>2 DEF SellYes, Entry, Memories
  <2>5. /\ mr_memory' = after /\ mr_trade' = [token |-> Token, bought |-> -1]
        /\ mr_pc' = "record" /\ mr_pc = "evaluate" /\ UNCHANGED <<state_file, trades_file, mr_crashes>>
    BY <1>6, <2>1 DEF SellYes, Trade, paid
  <2> HIDE DEF after
  <2>6. TradedBetween(mr_memory, after, Token, -1)
    BY <1>0, <2>3, <2>4, TradeOnItsWay
  <2>7. OnItsWay'
    BY <2>5, <2>6 DEF OnItsWay
  <2> QED BY <2>5, <2>7
<1>7. CASE RecordTrade
  <2>1. CASE trades_file = Torn
    BY <1>7, <2>1 DEF RecordTrade, RunEnds, NoTrade
  <2>2. CASE trades_file # Torn
    <3>1. /\ trades_file' = [trades_file EXCEPT ![mr_trade.token] = @ + mr_trade.bought]
          /\ mr_pc = "record" /\ mr_pc' = "recording"
          /\ UNCHANGED <<mr_trade, mr_memory, state_file, mr_crashes>>
      BY <1>7, <2>2 DEF RecordTrade
    <3>2. OnItsWay' /\ OnItsWay
      BY <3>1 DEF OnItsWay
    <3>3. state_file # Torn /\ trades_file \in [Tokens -> Int]
      BY <2>2, <3>1 DEF TornFileHolds
    <3> DEFINE token == mr_trade.token
               bought == mr_trade.bought
               recorded == [trades_file EXCEPT ![token] = @ + bought]
    <3>4. /\ DriftSum(recorded, mr_memory) = DriftSum(trades_file, state_file)
          /\ DriftSum(recorded, state_file) <= DriftSum(trades_file, state_file) + 1
      <4>1. /\ bought \in {-1, 0, 1}
            /\ TradedBetween(state_file, mr_memory, token, bought)
        BY <3>2 DEF OnItsWay
      <4> HIDE DEF token, bought
      <4> QED BY <3>3, <4>1, RecordedDrift
    <3>5. recorded \in [Tokens -> Int]
      BY <3>3, HistoryKept
    <3>6. DriftSum(recorded, state_file) \in Int
      BY <3>5, DriftSummable
    <3>7. trades_file' = recorded
      BY <3>1
    <3> HIDE DEF recorded
    <3>8. DriftSum(trades_file, state_file) <= mr_crashes
      BY <2>2, <3>1, <3>3
    <3>10. /\ DriftSum(recorded, state_file) <= mr_crashes + 1
           /\ DriftSum(recorded, mr_memory) <= mr_crashes
      BY <1>0, <2>2, <3>3, <3>4, <3>6, <3>8
    <3>11. /\ DriftSum(trades_file, state_file)' = DriftSum(recorded, state_file)
           /\ DriftSum(trades_file, mr_memory)' = DriftSum(recorded, mr_memory)
      BY <3>1, <3>7 DEF DriftSum, Drift, Held
    <3>9. /\ DriftSum(trades_file, state_file)' <= mr_crashes' + 1
          /\ DriftSum(trades_file, mr_memory)' <= mr_crashes'
      BY <3>1, <3>10, <3>11
    <3> QED BY <3>1, <3>2, <3>9
  <2> QED BY <2>1, <2>2
<1>8. CASE TradeRecorded
  BY <1>8 DEF TradeRecorded, OnItsWay
<1>9. CASE SaveState
  BY <1>9 DEF SaveState, TornFileHolds
<1>10. CASE StateSaved
  BY <1>10 DEF StateSaved, NoTrade
<1>11. CASE StrategyCrash
  <2>1. /\ mr_pc' = "idle" /\ mr_trade' = NoTrade /\ mr_crashes' = mr_crashes + 1
        /\ state_file' = IF mr_pc = "saving" THEN Torn ELSE state_file
        /\ trades_file' = IF mr_pc = "recording" THEN Torn ELSE trades_file
    BY <1>11 DEF StrategyCrash
  <2>2. Torn \notin {state_file, trades_file} => DriftSum(trades_file, state_file) <= mr_crashes + 1
    BY <1>0
  <2> QED BY <1>0, <2>1, <2>2 DEF NoTrade
<1>12. CASE UNCHANGED mr_vars
  BY <1>12 DEF mr_vars, OnItsWay
<1> QED
  BY <1>1, <1>2, <1>3, <1>4, <1>5, <1>6, <1>7, <1>8, <1>9, <1>10, <1>11, <1>12 DEF StrategyNext

\* The two files of the mean-reversion strategy disagree about at most one
\* position for every crash (mean_reversion.py writes the trade before the
\* state), for any number of tokens, whatever requests fail in between.
THEOREM DriftBounded == ProgramsSpec => []DriftBoundedByCrashes
<1>1. ProgramsInit => TornFileHolds /\ DriftHolds
  BY TornInit, DriftHoldsInit DEF ProgramsInit
<1>2. TornFileHolds /\ DriftHolds /\ [ProgramsNext]_program_vars => TornFileHolds' /\ DriftHolds'
  BY StepOfEach, TornStep, DriftStep
<1>3. DriftHolds => DriftBoundedByCrashes
  BY DEF DriftHolds, DriftBoundedByCrashes, DriftSum, Drift
<1> QED BY <1>1, <1>2, <1>3, PTL DEF ProgramsSpec

-----------------------------------------------------------------------------
(* Mean reversion: types *)

\* The losses reach the limit only in the step that trips the breaker, and no
\* sale is made after it; the queue holds no more than the pages read so far.
LossesWithin(state) == state.losses \in 0 .. MaxLosses /\ (~state.breaker => state.losses < MaxLosses)

StrategyHolds ==
    /\ StrategyTypeOK
    /\ mr_pc = "discover" => mr_pages < PageLimit
    /\ Len(mr_queue) <= mr_pages * PageSize
    /\ LossesWithin(mr_memory)
    /\ state_file # Torn => LossesWithin(state_file)

LEMMA StrategyNumbers ==
    /\ MaxLosses \in Nat /\ PageLimit \in Nat \ {0} /\ PageSize \in Nat /\ MaxStrategyCrashes \in Nat
    /\ \A m \in ListedMarkets : m.yes \in Tokens \cup {NoToken}
    /\ 0 * PageSize = 0
    /\ \A n \in Nat : n * PageSize \in Nat /\ (n + 1) * PageSize = n * PageSize + PageSize
    /\ \A n \in 0 .. PageLimit : n * PageSize <= PageLimit * PageSize
<1>1. /\ MaxLosses \in Nat /\ PageLimit \in Nat \ {0} /\ PageSize \in Nat /\ MaxStrategyCrashes \in Nat
      /\ \A m \in ListedMarkets : m.yes \in Tokens \cup {NoToken}
  BY StrategyAssumption DEF StrategyAssumption
<1>2. \A n \in Nat : n * PageSize = PageSize * n /\ n * PageSize \in Nat /\ (n + 1) * PageSize = n * PageSize + PageSize
  BY <1>1
<1>3. \A n \in 0 .. PageLimit : PageSize * n <= PageSize * PageLimit
  BY <1>1, ProductMonotonic
<1> QED BY <1>1, <1>2, <1>3

LEMMA NewStateTyped == MaxLosses > 0 => NewState \in StrategyStates /\ LossesWithin(NewState)
BY StrategyNumbers DEF NewState, StrategyStates, LossesWithin

LEMMA StrategyBegins == MaxLosses > 0 /\ StrategyInit => StrategyHolds
<1> SUFFICES ASSUME MaxLosses > 0, StrategyInit PROVE StrategyHolds
  OBVIOUS
<1>1. mr_pages \in 0 .. PageLimit /\ mr_crashes \in 0 .. MaxStrategyCrashes /\ mr_queue \in Seq(Tokens)
  BY StrategyNumbers DEF StrategyInit
<1>2. Len(mr_queue) <= mr_pages * PageSize /\ Len(mr_queue) <= PageLimit * PageSize
  <2>1. Len(mr_queue) = 0 /\ mr_pages = 0
    BY DEF StrategyInit
  <2>2. 0 <= 0 * PageSize /\ PageLimit * PageSize \in Nat
    BY StrategyNumbers
  <2> QED BY <2>1, <2>2
<1>3. trades_file \in [Tokens -> Int] /\ mr_trade \in [token : Tokens \cup {NoToken}, bought : {-1, 0, 1}]
  BY DEF StrategyInit, NoTrade
<1>4. /\ mr_memory \in StrategyStates /\ LossesWithin(mr_memory)
      /\ state_file \in StrategyStates /\ LossesWithin(state_file)
  BY NewStateTyped DEF StrategyInit
<1> QED BY <1>1, <1>2, <1>3, <1>4 DEF StrategyInit, StrategyHolds, StrategyTypeOK

\* The tokens taken from a page are no more than its markets.
LEMMA PageTokens ==
    ASSUME NEW page \in BoundedSeq(ListedMarkets, PageSize)
    PROVE  YesTokens(page) \in Seq(Tokens) /\ Len(YesTokens(page)) <= PageSize
<1> DEFINE kept == MembersAt(page, {i \in DOMAIN page : IsCandidate(page[i]) /\ page[i].yes # NoToken})
<1>1. page \in Seq(ListedMarkets) /\ Len(page) <= PageSize
  <2>1. PICK n \in 0 .. PageSize : page \in [1 .. n -> ListedMarkets]
    BY DEF BoundedSeq, SeqOf
  <2>2. Len(page) = n
    BY <2>1
  <2> QED BY <2>1, <2>2, StrategyNumbers
<1>2. /\ kept \in Seq(ListedMarkets) /\ Len(kept) <= Len(page)
      /\ \A j \in DOMAIN kept : \E i \in DOMAIN page : kept[j] = page[i] /\ page[i].yes # NoToken
  <2> DEFINE indexes == {i \in DOMAIN page : IsCandidate(page[i]) /\ page[i].yes # NoToken}
  <2>1. \A i \in indexes : page[i].yes # NoToken
    OBVIOUS
  <2> HIDE DEF indexes
  <2>2. /\ MembersAt(page, indexes) \in Seq(ListedMarkets) /\ Len(MembersAt(page, indexes)) <= Len(page)
        /\ \A j \in DOMAIN MembersAt(page, indexes) :
              \E i \in DOMAIN page \cap indexes : MembersAt(page, indexes)[j] = page[i]
    BY <1>1, NoMoreKept
  <2>3. \A j \in DOMAIN MembersAt(page, indexes) :
           \E i \in DOMAIN page : MembersAt(page, indexes)[j] = page[i] /\ page[i].yes # NoToken
    BY <2>1, <2>2
  <2> QED BY <2>2, <2>3 DEF indexes
<1> HIDE DEF kept
<1>3. \A j \in DOMAIN kept : kept[j].yes \in Tokens
  <2> SUFFICES ASSUME NEW j \in DOMAIN kept PROVE kept[j].yes \in Tokens
    OBVIOUS
  <2>1. kept[j].yes # NoToken /\ kept[j] \in ListedMarkets
    BY <1>2
  <2> QED BY <2>1, StrategyNumbers
<1>4. YesTokens(page) = [i \in DOMAIN kept |-> kept[i].yes]
  BY DEF YesTokens, kept
<1>5. DOMAIN kept = 1 .. Len(kept) /\ Len(kept) \in Nat
  BY <1>2
<1>6. YesTokens(page) \in Seq(Tokens) /\ Len(YesTokens(page)) = Len(kept)
  BY <1>3, <1>4, <1>5
<1> QED BY <1>1, <1>2, <1>6, StrategyNumbers

LEMMA PageKeepsStrategy == StrategyHolds /\ ReadPage => StrategyHolds'
<1> SUFFICES ASSUME StrategyHolds, ReadPage PROVE StrategyHolds'
  OBVIOUS
<1>1. PICK page \in BoundedSeq(ListedMarkets, PageSize), more \in BOOLEAN :
         /\ mr_queue' = mr_queue \o YesTokens(page) /\ mr_pages' = mr_pages + 1
         /\ mr_pc' = IF MorePages(page, more) THEN "discover" ELSE "evaluate"
  BY DEF ReadPage
<1>2. /\ mr_pc = "discover" /\ mr_pages < PageLimit /\ mr_pages \in 0 .. PageLimit
      /\ mr_queue \in Seq(Tokens) /\ Len(mr_queue) <= mr_pages * PageSize
      /\ UNCHANGED <<mr_trade, mr_memory, state_file, trades_file, mr_crashes>>
  BY DEF ReadPage, StrategyHolds, StrategyTypeOK
<1>3. mr_pages' \in 0 .. PageLimit /\ (mr_pc' = "discover" => mr_pages' < PageLimit)
  BY <1>1, <1>2, StrategyNumbers DEF MorePages
<1>4. mr_queue' \in Seq(Tokens) /\ Len(mr_queue') <= mr_pages' * PageSize
  <2> DEFINE tokens == YesTokens(page)
  <2>1. tokens \in Seq(Tokens) /\ Len(tokens) <= PageSize
    BY PageTokens
  <2> HIDE DEF tokens
  <2>2. mr_queue' = mr_queue \o tokens
    BY <1>1 DEF tokens
  <2>3. mr_queue' \in Seq(Tokens) /\ Len(mr_queue') = Len(mr_queue) + Len(tokens)
    BY <1>2, <2>1, <2>2
  <2>4. mr_pages \in Nat
    BY <1>2, StrategyNumbers
  <2>5. mr_pages' * PageSize = mr_pages * PageSize + PageSize /\ mr_pages * PageSize \in Nat
    BY <1>1, <2>4, StrategyNumbers
  <2> DEFINE room == mr_pages * PageSize
             roomAfter == mr_pages' * PageSize
  <2>6. Len(mr_queue) <= room /\ roomAfter = room + PageSize /\ room \in Nat
    BY <1>2, <2>5
  <2> HIDE DEF room, roomAfter
  <2>7. Len(mr_queue') <= roomAfter
    BY <1>2, <2>1, <2>3, <2>6, StrategyNumbers
  <2> QED BY <2>3, <2>7 DEF roomAfter
<1>5. Len(mr_queue') <= PageLimit * PageSize
  <2>1. mr_pages' * PageSize <= PageLimit * PageSize /\ mr_pages' * PageSize \in Nat /\ PageLimit * PageSize \in Nat
    <3> DEFINE n == mr_pages'
    <3>1. n \in 0 .. PageLimit /\ n \in Nat /\ PageLimit \in Nat
      BY <1>3, StrategyNumbers
    <3> HIDE DEF n
    <3>2. n * PageSize <= PageLimit * PageSize
      BY <3>1, StrategyNumbers
    <3>3. n * PageSize \in Nat /\ PageLimit * PageSize \in Nat
      BY <3>1, StrategyNumbers
    <3> QED BY <3>2, <3>3 DEF n
  <2> DEFINE room == mr_pages' * PageSize
             most == PageLimit * PageSize
  <2>2. room <= most /\ room \in Nat /\ most \in Nat /\ Len(mr_queue') <= room /\ Len(mr_queue') \in Nat
    BY <1>4, <2>1
  <2> HIDE DEF room, most
  <2>3. Len(mr_queue') <= most
    BY <2>2
  <2> QED BY <2>3 DEF most
<1>6. mr_pc' \in {"discover", "evaluate"}
  BY <1>1
<1> QED BY <1>2, <1>3, <1>4, <1>5, <1>6 DEF StrategyHolds, StrategyTypeOK, LossesWithin

\* A run that ends, or is killed, leaves nothing in memory.
LEMMA GoneKeepsStrategy ==
    MaxLosses > 0 /\ StrategyHolds /\ ((RunEnds /\ UNCHANGED mr_crashes) \/ StrategyCrash) => StrategyHolds'
<1> SUFFICES ASSUME MaxLosses > 0, StrategyHolds, (RunEnds /\ UNCHANGED mr_crashes) \/ StrategyCrash
             PROVE  StrategyHolds'
  OBVIOUS
<1>1. /\ mr_pc' = "idle" /\ mr_pages' = 0 /\ mr_queue' = <<>> /\ mr_trade' = NoTrade /\ mr_memory' = NewState
      /\ state_file' \in {state_file, Torn} /\ trades_file' \in {trades_file, Torn}
      /\ mr_crashes' = mr_crashes \/ (mr_crashes < MaxStrategyCrashes /\ mr_crashes' = mr_crashes + 1)
  BY DEF RunEnds, StrategyCrash
<1>2. /\ state_file \in StrategyStates \cup {Torn} /\ (state_file # Torn => LossesWithin(state_file))
      /\ (trades_file = Torn \/ trades_file \in [Tokens -> Int]) /\ mr_crashes \in 0 .. MaxStrategyCrashes
  BY DEF StrategyHolds, StrategyTypeOK
<1>3. mr_memory' \in StrategyStates /\ LossesWithin(mr_memory')
  BY <1>1, NewStateTyped
<1>4. /\ state_file' \in StrategyStates \cup {Torn} /\ (state_file' # Torn => LossesWithin(state_file'))
      /\ (trades_file' = Torn \/ trades_file' \in [Tokens -> Int])
  BY <1>1, <1>2
<1>5. mr_crashes' \in 0 .. MaxStrategyCrashes /\ mr_pages' \in 0 .. PageLimit
  BY <1>1, <1>2, StrategyNumbers
<1>6. mr_queue' \in Seq(Tokens) /\ Len(mr_queue') <= mr_pages' * PageSize /\ Len(mr_queue') <= PageLimit * PageSize
  <2>1. Len(mr_queue') = 0 /\ mr_queue' \in Seq(Tokens) /\ mr_pages' = 0
    BY <1>1
  <2>2. 0 <= 0 * PageSize /\ PageLimit * PageSize \in Nat
    BY StrategyNumbers
  <2> QED BY <2>1, <2>2
<1>7. mr_trade' \in [token : Tokens \cup {NoToken}, bought : {-1, 0, 1}]
  BY <1>1 DEF NoTrade
<1>8. LossesWithin(mr_memory)' /\ (state_file # Torn => LossesWithin(state_file))'
  BY <1>3, <1>4 DEF LossesWithin
<1> QED BY <1>1, <1>3, <1>4, <1>5, <1>6, <1>7, <1>8 DEF StrategyHolds, StrategyTypeOK

\* The state after a purchase, and after a sale with a profit or a loss.
LEMMA StateBought ==
    ASSUME NEW memory \in StrategyStates, LossesWithin(memory), NEW token, NEW price \in {0} \cup Midpoints
    PROVE  /\ [memory EXCEPT !.open[token] = price] \in StrategyStates
           /\ LossesWithin([memory EXCEPT !.open[token] = price])
BY DEF StrategyStates, LossesWithin

LEMMA StateSold ==
    ASSUME MaxLosses > 0, NEW memory \in StrategyStates, LossesWithin(memory), ~memory.breaker, NEW pnl
    PROVE  AfterPnl(memory, pnl) \in StrategyStates /\ LossesWithin(AfterPnl(memory, pnl))
<1> DEFINE losses == IF pnl < 0 THEN memory.losses + 1 ELSE 0
           tripped == memory.breaker \/ losses >= MaxLosses
<1>1. losses \in 0 .. MaxLosses /\ tripped \in BOOLEAN /\ (~tripped => losses < MaxLosses)
  BY StrategyNumbers DEF StrategyStates, LossesWithin
<1>2. AfterPnl(memory, pnl) = [memory EXCEPT !.losses = losses, !.breaker = tripped]
  BY DEF AfterPnl
<1> HIDE DEF losses, tripped
<1>3. AfterPnl(memory, pnl) \in StrategyStates
  BY <1>1, <1>2 DEF StrategyStates
<1>4. AfterPnl(memory, pnl).losses = losses /\ AfterPnl(memory, pnl).breaker = tripped
  BY <1>2 DEF StrategyStates
<1> QED BY <1>1, <1>3, <1>4 DEF LossesWithin

\* The market evaluated leaves the queue.
LEMMA QueueServed ==
    ASSUME StrategyHolds, mr_queue # <<>>, mr_queue' = Tail(mr_queue), UNCHANGED mr_pages
    PROVE  /\ Token \in Tokens /\ mr_queue' \in Seq(Tokens)
           /\ Len(mr_queue') <= mr_pages' * PageSize /\ Len(mr_queue') <= PageLimit * PageSize
<1> DEFINE room == mr_pages * PageSize
           most == PageLimit * PageSize
<1>1. /\ mr_queue \in Seq(Tokens) /\ Len(mr_queue) <= room /\ Len(mr_queue) <= most
      /\ mr_pages \in Nat /\ mr_pages' = mr_pages
  BY StrategyNumbers DEF StrategyHolds, StrategyTypeOK
<1>2. room \in Nat /\ most \in Nat
  BY <1>1, StrategyNumbers
<1>3. Tail(mr_queue) \in Seq(Tokens) /\ Len(Tail(mr_queue)) = Len(mr_queue) - 1 /\ Len(mr_queue) \in Nat \ {0}
      /\ Head(mr_queue) \in Tokens
  BY <1>1, TailOf
<1>4. mr_pages' * PageSize = room
  BY <1>1
<1> HIDE DEF room, most
<1>5. Len(Tail(mr_queue)) <= room /\ Len(Tail(mr_queue)) <= most
  BY <1>1, <1>2, <1>3
<1> QED BY <1>3, <1>4, <1>5 DEF Token, most

LEMMA TradeKeepsStrategy ==
    ASSUME StrategyHolds, NEW bought \in {-1, 1}, NEW memory \in StrategyStates, LossesWithin(memory),
           mr_queue # <<>>, Trade(bought, memory)
    PROVE  StrategyHolds'
<1>1. /\ mr_memory' = memory /\ mr_trade' = [token |-> Token, bought |-> bought]
      /\ mr_queue' = Tail(mr_queue) /\ mr_pc' = "record"
      /\ UNCHANGED <<mr_pages, state_file, trades_file, mr_crashes>>
  BY DEF Trade
<1>2. /\ Token \in Tokens /\ mr_queue' \in Seq(Tokens)
      /\ Len(mr_queue') <= mr_pages' * PageSize /\ Len(mr_queue') <= PageLimit * PageSize
  BY <1>1, QueueServed
<1>3. mr_trade' \in [token : Tokens \cup {NoToken}, bought : {-1, 0, 1}]
  BY <1>1, <1>2
<1>4. LossesWithin(mr_memory)' /\ (state_file # Torn => LossesWithin(state_file))'
  BY <1>1 DEF StrategyHolds, LossesWithin
<1> QED BY <1>1, <1>2, <1>3, <1>4 DEF StrategyHolds, StrategyTypeOK

LEMMA StrategyStep ==
    ASSUME MaxLosses > 0, StrategyHolds, [StrategyNext]_mr_vars
    PROVE  StrategyHolds'
<1>1. CASE LoadState
  <2>1. /\ mr_memory' = state_file /\ state_file # Torn /\ mr_pc' = "discover" /\ mr_pages' = 0 /\ mr_queue' = <<>>
        /\ UNCHANGED <<mr_trade, state_file, trades_file, mr_crashes>>
    BY <1>1 DEF LoadState
  <2>2. mr_queue' \in Seq(Tokens) /\ Len(mr_queue') <= mr_pages' * PageSize /\ Len(mr_queue') <= PageLimit * PageSize
    <3>1. Len(mr_queue') = 0 /\ mr_queue' \in Seq(Tokens) /\ mr_pages' = 0
      BY <2>1
    <3>2. 0 <= 0 * PageSize /\ PageLimit * PageSize \in Nat
      BY StrategyNumbers
    <3> QED BY <3>1, <3>2
  <2>3. mr_pages' \in 0 .. PageLimit /\ mr_pages' < PageLimit
    BY <2>1, StrategyNumbers
  <2>4. LossesWithin(mr_memory)' /\ (state_file # Torn => LossesWithin(state_file))'
    BY <2>1 DEF StrategyHolds, LossesWithin
  <2> QED BY <2>1, <2>2, <2>3, <2>4 DEF StrategyHolds, StrategyTypeOK
<1>2. CASE ReadPage
  BY <1>2, PageKeepsStrategy
<1>3. CASE RequestFails \/ RunFinishes \/ StrategyCrash
  BY <1>3, GoneKeepsStrategy DEF RequestFails, RunFinishes
<1>4. CASE NothingToTrade
  <2>1. /\ mr_queue # <<>> /\ mr_queue' = Tail(mr_queue) /\ mr_pc = "evaluate"
        /\ UNCHANGED <<mr_pc, mr_pages, mr_trade, mr_memory, state_file, trades_file, mr_crashes>>
    BY <1>4 DEF NothingToTrade
  <2>2. /\ mr_queue' \in Seq(Tokens)
        /\ Len(mr_queue') <= mr_pages' * PageSize /\ Len(mr_queue') <= PageLimit * PageSize
    BY <2>1, QueueServed
  <2>3. LossesWithin(mr_memory)' /\ (state_file # Torn => LossesWithin(state_file))'
    BY <2>1 DEF StrategyHolds, LossesWithin
  <2> QED BY <2>1, <2>2, <2>3 DEF StrategyHolds, StrategyTypeOK
<1>5. CASE BuyYes
  <2>1. PICK price \in Midpoints : Trade(1, [mr_memory EXCEPT !.open[Token] = price])
    BY <1>5 DEF BuyYes
  <2>2. mr_memory \in StrategyStates /\ LossesWithin(mr_memory) /\ mr_queue # <<>>
    BY <1>5 DEF BuyYes, StrategyHolds, StrategyTypeOK
  <2>3. /\ [mr_memory EXCEPT !.open[Token] = price] \in StrategyStates
        /\ LossesWithin([mr_memory EXCEPT !.open[Token] = price])
    BY <2>2, StateBought
  <2> QED BY <2>1, <2>2, <2>3, TradeKeepsStrategy
<1>6. CASE SellYes
  <2>1. PICK price \in Midpoints : Trade(-1, [AfterPnl(mr_memory, price - Entry) EXCEPT !.open[Token] = 0])
    BY <1>6 DEF SellYes
  <2>2. mr_memory \in StrategyStates /\ LossesWithin(mr_memory) /\ mr_queue # <<>> /\ ~mr_memory.breaker
    BY <1>6 DEF SellYes, StrategyHolds, StrategyTypeOK
  <2> DEFINE sold == AfterPnl(mr_memory, price - Entry)
  <2>3. sold \in StrategyStates /\ LossesWithin(sold)
    BY <2>2, StateSold
  <2> HIDE DEF sold
  <2>4. [sold EXCEPT !.open[Token] = 0] \in StrategyStates /\ LossesWithin([sold EXCEPT !.open[Token] = 0])
    BY <2>3, StateBought
  <2>5. Trade(-1, [sold EXCEPT !.open[Token] = 0])
    BY <2>1 DEF sold
  <2> QED BY <2>2, <2>4, <2>5, TradeKeepsStrategy
<1>7. CASE RecordTrade
  <2>1. CASE trades_file = Torn
    <3>1. RunEnds /\ UNCHANGED mr_crashes
      BY <1>7, <2>1 DEF RecordTrade
    <3> QED BY <3>1, GoneKeepsStrategy
  <2>2. CASE trades_file # Torn
    <3>1. /\ trades_file' = [trades_file EXCEPT ![mr_trade.token] = @ + mr_trade.bought]
          /\ mr_pc' = "recording" /\ UNCHANGED <<mr_pages, mr_queue, mr_trade, mr_memory, state_file, mr_crashes>>
      BY <1>7, <2>2 DEF RecordTrade
    <3>2. trades_file \in [Tokens -> Int] /\ mr_trade.bought \in Int
      BY <2>2 DEF StrategyHolds, StrategyTypeOK
    <3>3. trades_file' \in [Tokens -> Int]
      BY <3>1, <3>2, HistoryKept
    <3>4. LossesWithin(mr_memory)' /\ (state_file # Torn => LossesWithin(state_file))'
      BY <3>1 DEF StrategyHolds, LossesWithin
    <3> QED BY <3>1, <3>3, <3>4 DEF StrategyHolds, StrategyTypeOK
  <2> QED BY <2>1, <2>2
<1>8. CASE TradeRecorded \/ SaveState \/ StateSaved
  <2>1. /\ mr_pc' \in {"save", "saving", "evaluate"} /\ mr_trade' \in {mr_trade, NoTrade}
        /\ state_file' \in {state_file, mr_memory}
        /\ UNCHANGED <<mr_pages, mr_queue, mr_memory, trades_file, mr_crashes>>
    BY <1>8 DEF TradeRecorded, SaveState, StateSaved
  <2>2. mr_trade' \in [token : Tokens \cup {NoToken}, bought : {-1, 0, 1}]
    BY <2>1 DEF StrategyHolds, StrategyTypeOK, NoTrade
  <2>3. LossesWithin(mr_memory)' /\ (state_file # Torn => LossesWithin(state_file))'
    BY <2>1 DEF StrategyHolds, LossesWithin
  <2>4. state_file' \in StrategyStates \cup {Torn}
    BY <2>1 DEF StrategyHolds, StrategyTypeOK
  <2> QED BY <2>1, <2>2, <2>3, <2>4 DEF StrategyHolds, StrategyTypeOK
<1>9. CASE UNCHANGED mr_vars
  BY <1>9 DEF mr_vars, StrategyHolds, StrategyTypeOK, LossesWithin
<1> QED BY <1>1, <1>2, <1>3, <1>4, <1>5, <1>6, <1>7, <1>8, <1>9 DEF StrategyNext

-----------------------------------------------------------------------------
(* Korlic: the trade log *)

\* An event is in the log once for every process that appended it, and the
\* present process has appended what its last_id covers.
LogCounts ==
    /\ k_crashes \in Nat /\ k_events \in Nat /\ k_last_id \in 0 .. k_events
    /\ DOMAIN k_log = 1 .. k_events
    /\ k_pc = "sleep" => k_last_id = k_events
    /\ \A e \in 1 .. k_events :
          /\ k_log[e] \in Nat
          /\ k_log[e] <= k_crashes + IF e <= k_last_id THEN 1 ELSE 0
          /\ e <= k_last_id => k_log[e] >= 1

LEMMA LogInit == KorlicInit => LogCounts
BY DEF KorlicInit, LogCounts, FreshMemory

\* Events are saved while the cycle runs, behind what has been appended.
LEMMA SaveKeepsCounts ==
    ASSUME LogCounts, NEW n \in Nat, KSaveEvents(n), k_pc' # "sleep",
           UNCHANGED <<k_last_id, k_crashes>>
    PROVE  LogCounts'
BY DEF LogCounts, KSaveEvents

LEMMA WatchEventsNat == ASSUME NEW t, NEW depth PROVE KWatchEvents(t, depth) \in {0, 1}
BY DEF KWatchEvents

LEMMA LogStep ==
    ASSUME LogCounts, [KorlicNext]_k_vars
    PROVE  LogCounts'
<1> USE DEF k_disk, k_memory
<1>1. CASE \/ \E listed \in SUBSET KMarkets : KDiscover(listed)
           \/ KGammaFails \/ KBeginSettlement \/ KEndCycle
           \/ \E m \in k_settle : KStillUnresolved(m)
           \/ \E t \in k_scan : KSkip(t)
  <2>1. k_pc' # "sleep" /\ UNCHANGED <<k_events, k_log, k_last_id, k_crashes>>
    BY <1>1 DEF KDiscover, KGammaFails, KBeginSettlement, KEndCycle, KStillUnresolved, KSkip, KVisit
  <2> QED BY <2>1 DEF LogCounts
<1>2. CASE \E t \in k_scan : \E d \in KDepths : KNoSignal(t, d)
  <2>1. PICK t \in k_scan, d \in KDepths : KNoSignal(t, d)
    BY <1>2
  <2>2. /\ KSaveEvents(KWatchEvents(t, d))
        /\ k_pc' # "sleep" /\ UNCHANGED <<k_last_id, k_crashes>>
    BY <2>1 DEF KNoSignal, KVisit
  <2>3. KWatchEvents(t, d) \in Nat
    BY WatchEventsNat
  <2> QED BY <2>2, <2>3, SaveKeepsCounts
<1>3. CASE \E t \in k_scan : \E d \in KDepths : KTrade(t, d)
  <2>1. PICK t \in k_scan, d \in KDepths : KTrade(t, d)
    BY <1>3
  <2>2. /\ KSaveEvents(KWatchEvents(t, d) + 1)
        /\ k_pc' # "sleep" /\ UNCHANGED <<k_last_id, k_crashes>>
    BY <2>1 DEF KTrade, KVisit
  <2>3. KWatchEvents(t, d) + 1 \in Nat
    BY WatchEventsNat
  <2> QED BY <2>2, <2>3, SaveKeepsCounts
<1>4. CASE \E m \in k_settle : KSettle(m)
  <2>1. PICK m \in k_settle : KSettle(m)
    BY <1>4
  <2>2. k_pc' # "sleep" /\ UNCHANGED <<k_last_id, k_crashes>> /\ KSettlePosition(m)
    BY <2>1 DEF KSettle
  <2>3. CASE KSaveEvents(1)
    BY <2>2, <2>3, SaveKeepsCounts
  <2>4. CASE UNCHANGED <<k_events, k_log>>
    BY <2>2, <2>4 DEF LogCounts
  <2> QED BY <2>2, <2>3, <2>4 DEF KSettlePosition
<1>5. CASE KAppendTradeLog
  <2>1. /\ k_log' = [e \in 1 .. k_events |-> k_log[e] + (IF e > k_last_id THEN 1 ELSE 0)]
        /\ k_last_id' = k_events /\ k_pc' = "sleep"
        /\ UNCHANGED <<k_events, k_crashes>>
    BY <1>5 DEF KAppendTradeLog, NewForLog
  <2> QED BY <2>1 DEF LogCounts
<1>6. CASE KSleep \/ KSlowCall \/ \E m \in KMarkets, w \in KSides \cup {KNoWinner} : KResolve(m, w)
  <2>1. /\ k_pc' = "sleep" => k_pc = "sleep"
        /\ UNCHANGED <<k_events, k_log, k_last_id, k_crashes>>
    BY <1>6 DEF KSleep, KSlowCall, KResolve
  <2> QED BY <2>1 DEF LogCounts
<1>7. CASE KCrash
  <2>1. /\ k_pc' # "sleep" /\ k_last_id' = 0 /\ k_crashes' = k_crashes + 1
        /\ UNCHANGED <<k_events, k_log>>
    BY <1>7 DEF KCrash, FreshMemory
  <2> QED BY <2>1 DEF LogCounts
<1>8. CASE UNCHANGED k_vars
  BY <1>8 DEF k_vars, LogCounts
<1> QED BY <1>1, <1>2, <1>3, <1>4, <1>5, <1>6, <1>7, <1>8 DEF KorlicNext

\* The launcher's trade log has every event of the database after each cycle,
\* and repeats one only as often as the process was restarted, since last_id
\* starts at zero in each (_run_loop_with_trade_log), for any number of markets.
THEOREM LogRepeats == ProgramsSpec => []LogRepeatsByCrashes
<1>1. ProgramsInit => LogCounts
  BY LogInit DEF ProgramsInit
<1>2. LogCounts /\ [ProgramsNext]_program_vars => LogCounts'
  BY StepOfEach, LogStep
<1>3. LogCounts => LogRepeatsByCrashes
  BY DEF LogCounts, LogRepeatsByCrashes
<1> QED BY <1>1, <1>2, <1>3, PTL DEF ProgramsSpec

-----------------------------------------------------------------------------
(* Korlic: the books *)

\* The types of the money, which every step of the engine keeps.
LEMMA EngineFields ==
    ASSUME NEW e \in KEngines
    PROVE  /\ e = [cash |-> e.cash, reserved |-> e.reserved, holdings |-> e.holdings,
                   positions |-> e.positions, orders |-> e.orders]
           /\ e.cash \in Int /\ e.reserved \in Int
           /\ e.holdings \in [KTokens -> Nat] /\ e.orders \in [KTokens -> Nat]
           /\ e.positions \in [KMarkets -> KPositions \cup {KNoPosition}]
BY DEF KEngines

LEMMA TokenParts == \A t \in KTokens : t = <<t[1], t[2]>> /\ t[1] \in KMarkets /\ t[2] \in KSides
BY DEF KTokens

\* No order is open and nothing is reserved.
AtRest(e) == e.reserved = 0 /\ \A t \in KTokens : e.orders[t] = 0

\* The book that is watched has no order to fill.
LEMMA NothingToFill ==
    ASSUME NEW e \in KEngines, AtRest(e), NEW t \in KTokens, NEW depth \in Nat
    PROVE  KLots(e, t, depth) = 0 /\ KTryFill(e, t, depth) = e
BY DEF AtRest, KLots, KTryFill, KMin

LEMMA FilledPositionType ==
    ASSUME NEW pos \in KPositions \cup {KNoPosition}, NEW side \in KSides, NEW lots \in Nat
    PROVE  KFilledPosition(pos, side, lots) \in KPositions
BY DEF KFilledPosition, KPositions

\* An order that is no larger than the depth is filled at once and completely.
LEMMA OrderFills ==
    ASSUME NEW e \in KEngines, AtRest(e), NEW t \in KTokens, NEW depth \in Nat,
           NEW size \in Nat, size <= depth
    PROVE  LET opened == KCreateOrder(e, t, size)
               filled == KTryFill(opened, t, depth) IN
           /\ KLots(opened, t, depth) = size
           /\ filled \in KEngines /\ AtRest(filled)
           /\ size = 0 => filled.holdings = e.holdings /\ filled.positions = e.positions
           /\ size > 0 =>
                /\ filled.holdings = [e.holdings EXCEPT ![t] = @ + size]
                /\ filled.positions = [e.positions EXCEPT ![t[1]] = KFilledPosition(@, t[2], size)]
<1> DEFINE opened == KCreateOrder(e, t, size)
           filled == KTryFill(opened, t, depth)
           value == KPrice * size
<1>1. value \in Nat
  BY KorlicAssumption DEF KorlicAssumption
<1>2. opened = [cash |-> e.cash - value, reserved |-> value, holdings |-> e.holdings,
                positions |-> e.positions, orders |-> [e.orders EXCEPT ![t] = size]]
  <2>1. e.reserved + value = value /\ e.orders[t] + size = size
    BY <1>1, EngineFields DEF AtRest
  <2>2. opened = [e EXCEPT !.cash = @ - value, !.reserved = @ + value, !.orders[t] = @ + size]
    BY DEF KCreateOrder
  <2>3. opened = [e EXCEPT !.cash = e.cash - value, !.reserved = value,
                           !.orders = [e.orders EXCEPT ![t] = size]]
    BY <2>1, <2>2 DEF KEngines
  <2> HIDE DEF value, opened
  <2> QED BY <2>3 DEF KEngines
<1>3. KLots(opened, t, depth) = size
  BY <1>2, EngineFields DEF KLots, KMin
<1>4. CASE size = 0
  <2>1. filled = opened /\ value = 0
    BY <1>3, <1>4, KorlicAssumption DEF KTryFill, KorlicAssumption
  <2>2. opened.orders = e.orders
    BY <1>2, <1>4, EngineFields DEF AtRest
  <2>3. e.cash - value \in Int
    BY <2>1, EngineFields
  <2> QED BY <1>2, <1>3, <1>4, <2>1, <2>2, <2>3, EngineFields DEF AtRest, KEngines
<1>5. CASE size > 0
  <2> DEFINE held == [e.holdings EXCEPT ![t] = @ + size]
             positions == [e.positions EXCEPT ![t[1]] = KFilledPosition(@, t[2], size)]
             orders == [e.orders EXCEPT ![t] = 0]
  <2>1. filled = [opened EXCEPT !.reserved = @ - KPrice * size, !.holdings[t] = @ + size,
                                !.positions[t[1]] = KFilledPosition(@, t[2], size),
                                !.orders[t] = @ - size]
    BY <1>3, <1>5 DEF KTryFill
  <2>2. filled = [cash |-> e.cash - value, reserved |-> 0, holdings |-> held,
                  positions |-> positions, orders |-> orders]
    <3>1. value - KPrice * size = 0
      BY <1>1
    <3>2. [[e.orders EXCEPT ![t] = size] EXCEPT ![t] = @ - size] = orders
      BY EngineFields
    <3>3. filled = [cash |-> opened.cash, reserved |-> opened.reserved - KPrice * size,
                    holdings |-> [opened.holdings EXCEPT ![t] = @ + size],
                    positions |-> [opened.positions EXCEPT ![t[1]] = KFilledPosition(@, t[2], size)],
                    orders |-> [opened.orders EXCEPT ![t] = @ - size]]
      <4> HIDE DEF opened, filled
      <4> QED BY <1>2, <2>1
    <3>4. /\ opened.cash = e.cash - value /\ opened.reserved = value
          /\ opened.holdings = e.holdings /\ opened.positions = e.positions
          /\ opened.orders = [e.orders EXCEPT ![t] = size]
      <4> HIDE DEF opened, value
      <4> QED BY <1>2
    <3> HIDE DEF value, opened, filled
    <3> QED BY <3>1, <3>2, <3>3, <3>4
  <2>3. held \in [KTokens -> Nat] /\ orders \in [KTokens -> Nat] /\ e.cash - value \in Int
    BY <1>1, EngineFields
  <2>4. positions \in [KMarkets -> KPositions \cup {KNoPosition}]
    BY FilledPositionType, TokenParts, EngineFields
  <2>5. \A u \in KTokens : orders[u] = 0
    BY EngineFields DEF AtRest
  <2> HIDE DEF held, positions, orders
  <2>6. filled \in KEngines
    BY <2>2, <2>3, <2>4 DEF KEngines
  <2>7. AtRest(filled)
    BY <2>2, <2>5 DEF AtRest
  <2> QED BY <1>3, <1>5, <2>2, <2>6, <2>7 DEF held, positions
<1> QED BY <1>4, <1>5

\* Expiring an order that has been filled changes nothing.
LEMMA NothingToExpire ==
    ASSUME NEW e \in KEngines, AtRest(e), NEW t \in KTokens
    PROVE  /\ KExpireOrder(e, t) \in KEngines /\ AtRest(KExpireOrder(e, t))
           /\ KExpireOrder(e, t).holdings = e.holdings /\ KExpireOrder(e, t).positions = e.positions
<1>1. KPrice * e.orders[t] = 0
  BY KorlicAssumption DEF KorlicAssumption, AtRest
<1>2. KExpireOrder(e, t) = [cash |-> e.cash, reserved |-> 0, holdings |-> e.holdings,
                           positions |-> e.positions, orders |-> [e.orders EXCEPT ![t] = 0]]
  <2>1. e.reserved - KPrice * e.orders[t] = 0 /\ e.cash + KPrice * e.orders[t] = e.cash
    BY <1>1, EngineFields DEF AtRest
  <2>2. KExpireOrder(e, t) = [e EXCEPT !.reserved = 0, !.cash = e.cash, !.orders[t] = 0]
    BY <2>1 DEF KExpireOrder
  <2> HIDE DEF AtRest
  <2> QED BY <2>2 DEF KEngines
<1>3. [e.orders EXCEPT ![t] = 0] \in [KTokens -> Nat]
  BY EngineFields
<1> QED BY <1>2, <1>3, EngineFields DEF AtRest, KEngines

LEMMA NothingToCancel ==
    ASSUME NEW e \in KEngines, AtRest(e), NEW m \in KMarkets
    PROVE  KCancelOrders(e, m) = e
<1> DEFINE tokens == {m} \X KSides
           left == SumFunctionOnSet(e.orders, tokens)
<1>1. IsFiniteSet(tokens)
  BY KorlicAssumption, FS_Singleton, FS_Product DEF KorlicAssumption
<1>2. tokens \subseteq KTokens
  BY DEF KTokens
<1>3. Summable(e.orders, tokens) /\ \A t \in tokens : e.orders[t] = 0
  BY <1>1, <1>2 DEF Summable, AtRest
<1>4. left = 0
  BY <1>3, SetSumZero
<1>5. [t \in KTokens |-> IF t[1] = m THEN 0 ELSE e.orders[t]] = e.orders
  BY EngineFields DEF AtRest
<1> HIDE DEF left
<1>6. KPrice * left = 0
  BY <1>4, KorlicAssumption DEF KorlicAssumption
<1>7. KCancelOrders(e, m) = [e EXCEPT !.reserved = @ - KPrice * left, !.cash = @ + KPrice * left,
                                     !.orders = [t \in KTokens |-> IF t[1] = m THEN 0 ELSE @[t]]]
  BY DEF KCancelOrders, left
<1>8. e.reserved - KPrice * left = e.reserved /\ e.cash + KPrice * left = e.cash
  BY <1>6, EngineFields
<1>9. KCancelOrders(e, m) = [e EXCEPT !.reserved = e.reserved, !.cash = e.cash, !.orders = e.orders]
  BY <1>5, <1>7, <1>8
<1> QED BY <1>9, EngineFields

LEMMA CountersFinite == IsFiniteSet(KTokens)
BY KorlicAssumption, FS_Product DEF KorlicAssumption, KTokens

LEMMA CountersNat ==
    /\ KTradeCounters.total \in Nat /\ KTradeCounters.settled \in Nat
    /\ Cardinality({m \in KMarkets : KUnresolved(m)}) \in Nat
<1>1. \A S : Cardinality({t \in KTokens : t \in S}) \in Nat
  BY CountersFinite, FS_Subset, FS_CardinalityType
<1>2. IsFiniteSet({t \in KTokens : k_rows[t] # "NONE"}) /\ IsFiniteSet({t \in KTokens : k_rows[t] = "SETTLED"})
  BY CountersFinite, FS_Subset
<1>3. IsFiniteSet({m \in KMarkets : KUnresolved(m)})
  BY KorlicAssumption, FS_Subset DEF KorlicAssumption
<1> QED BY <1>2, <1>3, FS_CardinalityType DEF KTradeCounters

LEMMA Bucket ==
    ASSUME k_now \in Nat, NEW t \in KTokens, KSecondsTo(t[1]) <= KEntryWindow
    PROVE  DedupeKey(t) \in KTokens \X {0, 1}
<1>1. KSecondsTo(t[1]) \in 0 .. KEntryWindow
  BY KorlicAssumption, TokenParts DEF KorlicAssumption, KSecondsTo
<1>2. \A w \in Nat \ {0} : \A x \in 0 .. w : x \div w \in {0, 1}
  OBVIOUS
<1> QED BY <1>1, <1>2, KorlicAssumption DEF KorlicAssumption, DedupeKey

\* What settling the position of a market leaves alone, and its new status.
IsSettled(settled, e, m, winner) ==
    /\ settled \in KEngines
    /\ settled.reserved = e.reserved /\ settled.orders = e.orders /\ settled.holdings = e.holdings
    /\ settled.positions = [e.positions EXCEPT ![m].status =
                              IF winner = KNoWinner THEN "PENDING_RESOLUTION" ELSE "CLOSED"]

LEMMA SettledType ==
    ASSUME NEW e \in KEngines, NEW m \in KMarkets, NEW winner, e.positions[m] # KNoPosition
    PROVE  IsSettled(KSettleMarket(e, m, winner), e, m, winner)
<1> USE DEF IsSettled
<1>1. e.positions[m] \in KPositions
  BY EngineFields
<1>2. e.positions[m].size \in Nat
  BY <1>1 DEF KPositions
<1>3. \A status \in {"PENDING_RESOLUTION", "CLOSED"} :
          [e.positions EXCEPT ![m].status = status] \in [KMarkets -> KPositions \cup {KNoPosition}]
  BY <1>1, EngineFields DEF KPositions
<1>4. CASE winner = KNoWinner
  <2>1. KSettleMarket(e, m, winner) = [e EXCEPT !.positions = [e.positions EXCEPT ![m].status = "PENDING_RESOLUTION"]]
    BY <1>4 DEF KSettleMarket, KEngines
  <2> QED BY <1>3, <1>4, <2>1 DEF KEngines
<1>5. CASE winner # KNoWinner
  <2> DEFINE paid == IF winner = e.positions[m].side THEN e.positions[m].size * KPayout ELSE 0
  <2>1. KSettleMarket(e, m, winner) = [e EXCEPT !.positions = [e.positions EXCEPT ![m].status = "CLOSED"],
                                                !.cash = e.cash + paid]
    BY <1>5 DEF KSettleMarket, KEngines
  <2>2. e.cash + paid \in Int
    <3>1. e.positions[m].size * KPayout \in Int
      BY <1>2, KorlicAssumption DEF KorlicAssumption
    <3> QED BY <3>1, EngineFields
  <2> HIDE DEF paid
  <2> QED BY <1>3, <1>5, <2>1, <2>2 DEF KEngines
<1> QED BY <1>4, <1>5

\* The engine after a trade of `size' lots in one visit.
LEMMA Traded ==
    ASSUME NEW e \in KEngines, AtRest(e), NEW t \in KTokens, NEW depth \in Nat,
           NEW now,
           now \in {KTryFill(KCreateOrder(KTryFill(e, t, depth), t, KOrderSize(depth)), t, depth),
                    KExpireOrder(KTryFill(KCreateOrder(KTryFill(e, t, depth), t, KOrderSize(depth)), t, depth), t)}
    PROVE  /\ KOrderSize(depth) \in Nat
           /\ KLots(KCreateOrder(KTryFill(e, t, depth), t, KOrderSize(depth)), t, depth) = KOrderSize(depth)
           /\ now \in KEngines /\ AtRest(now)
           /\ KOrderSize(depth) = 0 => now.holdings = e.holdings /\ now.positions = e.positions
           /\ KOrderSize(depth) > 0 =>
                /\ now.holdings = [e.holdings EXCEPT ![t] = @ + KOrderSize(depth)]
                /\ now.positions = [e.positions EXCEPT ![t[1]] = KFilledPosition(@, t[2], KOrderSize(depth))]
<1>1. KOrderSize(depth) \in Nat /\ KOrderSize(depth) <= depth
  BY KorlicAssumption DEF KorlicAssumption, KOrderSize, KMin
<1>2. KTryFill(e, t, depth) = e
  BY NothingToFill
<1> HIDE DEF KTryFill
<1> QED BY <1>1, <1>2, OrderFills, NothingToExpire

LEMMA KorlicTypeInit == KorlicInit => KorlicTypeOK
<1>1. KNewEngine \in KEngines
  BY DEF KNewEngine, KEngines
<1> QED BY <1>1, KorlicAssumption DEF KorlicAssumption, KorlicInit, KorlicTypeOK, FreshMemory

LEMMA LogType ==
    ASSUME LogCounts, [KorlicNext]_k_vars
    PROVE  DOMAIN k_log' = 1 .. k_events' /\ k_last_id' \in 0 .. k_events'
BY LogStep DEF LogCounts

LEMMA KorlicTypeStep ==
    ASSUME KorlicTypeOK, AtRest(k_engine), \A m \in k_settle : KUnresolved(m), LogCounts,
           [KorlicNext]_k_vars
    PROVE  KorlicTypeOK'
<1> USE KorlicAssumption DEF KorlicAssumption, KorlicTypeOK
<1> DEFINE Logged == DOMAIN k_log' = 1 .. k_events' /\ k_last_id' \in 0 .. k_events'
<1>0. Logged
  BY LogType
<1> HIDE DEF Logged
<1>1. ASSUME NEW listed \in SUBSET KMarkets, KDiscover(listed) PROVE KorlicTypeOK'
  BY <1>0, <1>1 DEF Logged, KDiscover, KRefresh, KTokens, k_disk
<1>2. CASE KGammaFails \/ KBeginSettlement \/ KSleep \/ KSlowCall
  BY <1>0, <1>2 DEF Logged, KGammaFails, KBeginSettlement, KSleep, KSlowCall, KMin, k_memory, k_disk
<1>3. ASSUME NEW t \in k_scan, KSkip(t) PROVE KorlicTypeOK'
  BY <1>0, <1>3 DEF Logged, KSkip, KVisit
<1>4. ASSUME NEW t \in k_scan, NEW d \in KDepths, KNoSignal(t, d) PROVE KorlicTypeOK'
  <2>1. k_engine' = k_engine
    BY <1>4, NothingToFill DEF KNoSignal, KBookWatch
  <2> QED BY <1>0, <1>4, <2>1 DEF Logged, KNoSignal, KVisit
<1>5. ASSUME NEW t \in k_scan, NEW d \in KDepths, KTrade(t, d) PROVE KorlicTypeOK'
  <2>1. k_engine' \in KEngines
    BY <1>5, Traded DEF KTrade, KBookWatch
  <2>2. k_rows' \in [KTokens -> {"NONE", "OPEN", "SETTLED"}]
    BY <1>5 DEF KTrade, KSavePseudoTrade
  <2>3. k_trades' \in [KMarkets -> 0 .. KMaxTrades]
    <3>1. k_trades[t[1]] + 1 <= KMaxTrades /\ t[1] \in KMarkets
      BY <1>5, TokenParts DEF KTrade, MarketTradeCount
    <3> QED BY <1>5, <3>1 DEF KTrade
  <2>4. k_dedupe' \subseteq KTokens \X {0, 1}
    <3>1. DedupeKey(t) \in KTokens \X {0, 1}
      BY <1>5, Bucket DEF KTrade, KSignal
    <3> QED BY <1>5, <3>1 DEF KTrade
  <2>5. k_scan' \subseteq KTokens /\ UNCHANGED <<k_pc, k_now, k_resolution, k_watch, k_settle, k_report>>
    BY <1>5 DEF KTrade, KVisit
  <2> QED BY <1>0, <2>1, <2>2, <2>3, <2>4, <2>5 DEF Logged
<1>6. ASSUME NEW m \in k_settle, KStillUnresolved(m) PROVE KorlicTypeOK'
  BY <1>0, <1>6 DEF Logged, KStillUnresolved, k_disk
<1>7. ASSUME NEW m \in k_settle, KSettle(m) PROVE KorlicTypeOK'
  <2>1. k_engine' \in KEngines
    BY <1>7, NothingToCancel, SettledType DEF KSettle, KUnresolved, IsSettled
  <2>2. k_rows' \in [KTokens -> {"NONE", "OPEN", "SETTLED"}]
    BY <1>7 DEF KSettle, KSettlePosition, KSavePseudoTrade
  <2> QED BY <1>0, <1>7, <2>1, <2>2 DEF Logged, KSettle
<1>8. CASE KEndCycle
  BY <1>0, <1>8, CountersNat DEF Logged, KEndCycle, k_memory
<1>9. CASE KAppendTradeLog
  BY <1>0, <1>9 DEF Logged, KAppendTradeLog
<1>10. ASSUME NEW m \in KMarkets, NEW w \in KSides \cup {KNoWinner}, KResolve(m, w) PROVE KorlicTypeOK'
  BY <1>0, <1>10 DEF Logged, KResolve, k_memory, k_disk
<1>11. CASE KCrash
  <2>1. KNewEngine \in KEngines
    BY DEF KNewEngine, KEngines
  <2> QED BY <1>0, <1>11, <2>1 DEF Logged, KCrash, FreshMemory, k_disk
<1>12. CASE UNCHANGED k_vars
  BY <1>0, <1>12 DEF Logged, k_vars, k_memory, k_disk
<1> QED BY <1>1, <1>2, <1>3, <1>4, <1>5, <1>6, <1>7, <1>8, <1>9, <1>10, <1>11, <1>12 DEF KorlicNext

-----------------------------------------------------------------------------
(* Korlic: the report *)

\* A token whose position waits for a result.
Waiting(t) == KUnresolved(t[1]) /\ k_engine.positions[t[1]].side = t[2]
OpenRows == {t \in KTokens : k_rows[t] = "OPEN"}
\* Rows that a crash left open: no position in memory will ever settle them.
Orphans == {t \in OpenRows : ~Waiting(t)}

\* The waiting positions are single-token, their rows are open, and each crash
\* leaves at most one open row for each market without its position.
BooksHold ==
    /\ KorlicTypeOK /\ LogCounts
    /\ AtRest(k_engine) /\ PositionIsHeld
    /\ \A t \in KTokens : Waiting(t) => k_rows[t] = "OPEN"
    /\ \A m \in k_settle : KUnresolved(m)
    /\ Cardinality(Orphans) <= k_crashes * Cardinality(KMarkets)
    /\ ReportAddsUp

LEMMA BooksInit == KorlicInit => BooksHold
<1> SUFFICES ASSUME KorlicInit PROVE BooksHold
  OBVIOUS
<1>1. KorlicTypeOK /\ LogCounts
  BY KorlicTypeInit, LogInit
<1>2. k_engine = KNewEngine /\ k_settle = {} /\ k_crashes = 0
  BY DEF KorlicInit, FreshMemory
<1>3. AtRest(k_engine) /\ PositionIsHeld /\ \A t \in KTokens : ~Waiting(t)
  BY <1>2, TokenParts DEF KNewEngine, AtRest, PositionIsHeld, Waiting, KUnresolved, KTokens
<1>4. Orphans = {}
  BY DEF KorlicInit, Orphans, OpenRows
<1>5. Cardinality(Orphans) = 0 /\ Cardinality(KMarkets) \in Nat
  BY <1>4, FS_EmptySet, FS_CardinalityType, KorlicAssumption DEF KorlicAssumption
<1>6. ReportAddsUp
  BY <1>2, <1>5 DEF KorlicInit, ReportAddsUp
<1> QED BY <1>1, <1>2, <1>3, <1>5, <1>6 DEF BooksHold

LEMMA OrphansFinite ==
    ASSUME NEW S \in SUBSET KTokens
    PROVE  IsFiniteSet(S) /\ Cardinality(S) \in Nat
BY CountersFinite, FS_Subset, FS_CardinalityType

\* As many tokens wait as there are positions that do.
LEMMA OneTokenWaits ==
    ASSUME BooksHold
    PROVE  Cardinality({t \in KTokens : Waiting(t)}) = Cardinality({m \in KMarkets : KUnresolved(m)})
<1> DEFINE tokens == {t \in KTokens : Waiting(t)}
           markets == {m \in KMarkets : KUnresolved(m)}
           held == [m \in markets |-> <<m, k_engine.positions[m].side>>]
<1>1. \A m \in markets : k_engine.positions[m].side \in KSides
  BY EngineFields DEF BooksHold, KorlicTypeOK, KUnresolved, KPositions
<1>2. held \in Bijection(markets, tokens)
  <2>1. held \in [markets -> tokens]
    BY <1>1 DEF Waiting, KTokens
  <2>2. \A m, n \in markets : m # n => held[m] # held[n]
    OBVIOUS
  <2>3. \A t \in tokens : \E m \in markets : held[m] = t
    BY TokenParts DEF Waiting
  <2> QED BY <2>1, <2>2, <2>3 DEF Bijection, Injection, Surjection, IsInjective
<1>3. IsFiniteSet(markets)
  BY KorlicAssumption, FS_Subset DEF KorlicAssumption
<1>4. ExistsBijection(markets, tokens)
  BY <1>2 DEF ExistsBijection
<1> HIDE DEF tokens, markets
<1>5. Cardinality(tokens) = Cardinality(markets)
  BY <1>3, <1>4, FS_Bijection
<1> QED BY <1>5 DEF tokens, markets

\* The open rows are the waiting ones and the orphans.
LEMMA OpenRowsCounted ==
    ASSUME BooksHold
    PROVE  /\ KTradeCounters.total - KTradeCounters.settled = Cardinality(OpenRows)
           /\ Cardinality(OpenRows)
                = Cardinality(Orphans) + Cardinality({m \in KMarkets : KUnresolved(m)})
<1> DEFINE All == {t \in KTokens : k_rows[t] # "NONE"}
           Settled == {t \in KTokens : k_rows[t] = "SETTLED"}
           InWait == {t \in KTokens : Waiting(t)}
<1>1. \A S \in SUBSET KTokens : IsFiniteSet(S) /\ Cardinality(S) \in Nat
  BY OrphansFinite
<1>2. Cardinality(All) = Cardinality(OpenRows) + Cardinality(Settled)
  <2>1. All = OpenRows \cup Settled /\ OpenRows \cap Settled = {}
    BY DEF BooksHold, KorlicTypeOK, OpenRows
  <2>2. OpenRows \in SUBSET KTokens /\ Settled \in SUBSET KTokens
    BY DEF OpenRows
  <2> HIDE DEF All, Settled
  <2>3. Cardinality(OpenRows \cup Settled) = Cardinality(OpenRows) + Cardinality(Settled) - Cardinality({})
    BY <1>1, <2>1, <2>2, FS_Union
  <2> QED BY <1>1, <2>1, <2>2, <2>3, FS_EmptySet
<1>3. Cardinality(OpenRows) = Cardinality(Orphans) + Cardinality(InWait)
  <2>1. OpenRows = Orphans \cup InWait /\ Orphans \cap InWait = {}
    BY DEF BooksHold, OpenRows, Orphans
  <2>2. Orphans \in SUBSET KTokens /\ InWait \in SUBSET KTokens
    BY DEF OpenRows, Orphans
  <2> HIDE DEF InWait
  <2>3. Cardinality(Orphans \cup InWait) = Cardinality(Orphans) + Cardinality(InWait) - Cardinality({})
    BY <1>1, <2>1, <2>2, FS_Union
  <2> QED BY <1>1, <2>1, <2>2, <2>3, FS_EmptySet
<1>4. Cardinality(OpenRows) \in Nat /\ Cardinality(Settled) \in Nat /\ Cardinality(All) \in Nat
  BY <1>1 DEF OpenRows
<1>5. KTradeCounters.total = Cardinality(All) /\ KTradeCounters.settled = Cardinality(Settled)
  BY DEF KTradeCounters
<1> HIDE DEF All, Settled, InWait
<1> QED BY <1>2, <1>3, <1>4, <1>5, OneTokenWaits DEF InWait

\* What the last report and the orphans keep when only they matter.
LEMMA BooksKept ==
    ASSUME BooksHold, KorlicTypeOK', LogCounts', AtRest(k_engine)', PositionIsHeld',
           \A t \in KTokens : Waiting(t)' => (k_rows[t])' = "OPEN",
           \A m \in k_settle' : KUnresolved(m)',
           Orphans' \subseteq Orphans, UNCHANGED <<k_report, k_crashes>>
    PROVE  BooksHold'
<1>1. Orphans \in SUBSET KTokens /\ Orphans' \in SUBSET KTokens
  BY DEF Orphans, OpenRows
<1>2. Cardinality(Orphans') <= Cardinality(Orphans)
  BY <1>1, OrphansFinite, FS_Subset
<1>3. Cardinality(Orphans) \in Nat /\ Cardinality(Orphans') \in Nat
  BY <1>1, OrphansFinite
<1>4. k_crashes * Cardinality(KMarkets) \in Nat
  BY KorlicAssumption, FS_CardinalityType DEF KorlicAssumption, BooksHold, LogCounts
<1>5. Cardinality(Orphans') <= k_crashes' * Cardinality(KMarkets)
  <2>1. \A a, b, c \in Nat : a <= b /\ b <= c => a <= c
    OBVIOUS
  <2>2. Cardinality(Orphans) <= k_crashes * Cardinality(KMarkets)
    BY DEF BooksHold
  <2> QED BY <1>2, <1>3, <1>4, <2>1, <2>2
<1>6. ReportAddsUp'
  BY DEF BooksHold, ReportAddsUp
<1> QED BY <1>5, <1>6 DEF BooksHold

\* The engine, the rows and the report stand still.
LEMMA BooksStand ==
    ASSUME BooksHold, KorlicTypeOK', LogCounts',
           UNCHANGED <<k_engine, k_rows, k_report, k_crashes>>,
           \A m \in k_settle' : KUnresolved(m)
    PROVE  BooksHold'
<1>1. \A m : KUnresolved(m)' <=> KUnresolved(m)
  BY DEF KUnresolved
<1>2. \A t : Waiting(t)' <=> Waiting(t)
  BY <1>1 DEF Waiting
<1>3. Orphans' = Orphans
  BY <1>2 DEF Orphans, OpenRows
<1>4. AtRest(k_engine)' /\ PositionIsHeld'
  BY DEF BooksHold, AtRest, PositionIsHeld
<1> QED BY <1>1, <1>2, <1>3, <1>4, BooksKept DEF BooksHold

LEMMA TradeKeepsBooks ==
    ASSUME BooksHold, KorlicTypeOK', LogCounts', KMaxTrades = 1,
           NEW t \in k_scan, NEW d \in KDepths, KTrade(t, d)
    PROVE  BooksHold'
<1> DEFINE size == KOrderSize(d)
           pos == KFilledPosition(KNoPosition, t[2], size)
<1>1. t \in KTokens /\ d \in Nat /\ t = <<t[1], t[2]>> /\ t[1] \in KMarkets /\ t[2] \in KSides
  BY KorlicAssumption, TokenParts DEF KorlicAssumption, BooksHold, KorlicTypeOK
<1>2. k_engine.positions[t[1]] = KNoPosition
  <2>1. k_trades[t[1]] \in Nat
    BY <1>1 DEF BooksHold, KorlicTypeOK
  <2> QED BY <2>1 DEF KTrade, MarketTradeCount
<1>3. UNCHANGED <<k_settle, k_report, k_crashes>>
  BY DEF KTrade, KVisit
<1>4. k_engine \in KEngines /\ AtRest(k_engine) /\ k_rows \in [KTokens -> {"NONE", "OPEN", "SETTLED"}]
  BY DEF BooksHold, KorlicTypeOK
<1>5. /\ size \in Nat /\ AtRest(k_engine')
      /\ size = 0 => k_engine'.holdings = k_engine.holdings /\ k_engine'.positions = k_engine.positions
      /\ size > 0 =>
            /\ k_engine'.holdings = [k_engine.holdings EXCEPT ![t] = @ + size]
            /\ k_engine'.positions = [k_engine.positions EXCEPT ![t[1]] = KFilledPosition(@, t[2], size)]
      /\ IF size > 0 THEN k_rows' = [k_rows EXCEPT ![t] = "OPEN"] ELSE UNCHANGED k_rows
  BY <1>1, <1>4, Traded DEF KTrade, KBookWatch, KSavePseudoTrade
<1> HIDE DEF size
<1>6. CASE size = 0
  <2>1. \A m : KUnresolved(m)' <=> KUnresolved(m)
    BY <1>5, <1>6 DEF KUnresolved
  <2>2. \A u : Waiting(u)' <=> Waiting(u)
    BY <2>1, <1>5, <1>6 DEF Waiting
  <2>3. UNCHANGED k_rows
    BY <1>5, <1>6
  <2>4. Orphans' = Orphans
    BY <2>2, <2>3 DEF Orphans, OpenRows
  <2>5. PositionIsHeld'
    <3>1. PositionIsHeld
      BY DEF BooksHold
    <3>2. k_engine'.holdings = k_engine.holdings /\ k_engine'.positions = k_engine.positions
      BY <1>5, <1>6
    <3> QED BY <3>1, <3>2 DEF PositionIsHeld
  <2> QED BY <1>3, <1>5, <2>1, <2>2, <2>3, <2>4, <2>5, BooksKept DEF BooksHold
<1>7. CASE size > 0
  <2>1. /\ pos.side = t[2] /\ pos.size = size /\ pos.status = "OPEN"
        /\ pos # KNoPosition
    <3>1. pos = [side |-> t[2], size |-> size, status |-> "OPEN"]
      BY DEF KFilledPosition
    <3>2. pos \in KPositions
      BY <3>1, <1>1, <1>5 DEF KPositions
    <3> QED BY <3>1, <3>2, KPositionAssumption DEF KPositionAssumption
  <2>2. k_engine'.positions = [k_engine.positions EXCEPT ![t[1]] = pos]
    BY <1>2, <1>5, <1>7, <1>1, <1>4, EngineFields
  <2> HIDE DEF pos
  <2>3. \A m \in KMarkets : k_engine'.positions[m] = IF m = t[1] THEN pos ELSE k_engine.positions[m]
    BY <2>2, <1>4, EngineFields
  <2>4. \A u \in KTokens : k_engine'.holdings[u] = IF u = t THEN k_engine.holdings[u] + size
                                                   ELSE k_engine.holdings[u]
    BY <1>4, <1>5, <1>7, EngineFields
  <2>5. \A m \in KMarkets : KUnresolved(m)' <=> m = t[1] \/ KUnresolved(m)
    BY <2>1, <2>3 DEF KUnresolved
  <2>6. \A u \in KTokens : Waiting(u)' <=> u = t \/ Waiting(u)
    <3> SUFFICES ASSUME NEW u \in KTokens PROVE Waiting(u)' <=> u = t \/ Waiting(u)
      OBVIOUS
    <3>1. u = <<u[1], u[2]>> /\ u[1] \in KMarkets
      BY TokenParts
    <3>2. CASE u[1] = t[1]
      <4>1. ~KUnresolved(u[1]) /\ KUnresolved(u[1])'
        BY <1>2, <2>5, <3>2, <3>1 DEF KUnresolved
      <4>2. k_engine'.positions[u[1]].side = t[2]
        BY <2>1, <2>3, <3>1, <3>2
      <4> QED BY <1>1, <3>1, <3>2, <4>1, <4>2 DEF Waiting
    <3>3. CASE u[1] # t[1]
      BY <2>3, <2>5, <3>1, <3>3 DEF Waiting
    <3> QED BY <3>2, <3>3
  <2>7. \A u \in KTokens : k_rows'[u] = IF u = t THEN "OPEN" ELSE k_rows[u]
    BY <1>4, <1>5, <1>7
  <2>8. Orphans' \subseteq Orphans
    BY <2>6, <2>7 DEF Orphans, OpenRows
  <2>9. PositionIsHeld'
    <3> SUFFICES ASSUME NEW m \in KMarkets, NEW s \in KSides
                 PROVE  k_engine'.holdings[<<m, s>>] =
                          IF k_engine'.positions[m] # KNoPosition /\ k_engine'.positions[m].side = s
                          THEN k_engine'.positions[m].size ELSE 0
      BY DEF PositionIsHeld
    <3>1. <<m, s>> \in KTokens
      BY DEF KTokens
    <3>2. k_engine.holdings[<<m, s>>] =
            IF k_engine.positions[m] # KNoPosition /\ k_engine.positions[m].side = s
            THEN k_engine.positions[m].size ELSE 0
      BY DEF BooksHold, PositionIsHeld
    <3>3. CASE m = t[1]
      <4>1. k_engine.holdings[<<m, s>>] = 0
        BY <1>2, <3>2, <3>3
      <4>2. <<m, s>> = t <=> s = t[2]
        BY <1>1, <3>3
      <4> QED BY <1>5, <2>1, <2>3, <2>4, <3>1, <3>3, <4>1, <4>2
    <3>4. CASE m # t[1]
      <4>1. <<m, s>> # t
        BY <1>1, <3>4
      <4> QED BY <2>3, <2>4, <3>1, <3>2, <3>4, <4>1
    <3> QED BY <3>3, <3>4
  <2>10. \A u \in KTokens : Waiting(u)' => (k_rows[u])' = "OPEN"
    BY <2>6, <2>7 DEF BooksHold
  <2>11. \A m \in k_settle' : KUnresolved(m)'
    BY <1>3, <2>5 DEF BooksHold, KorlicTypeOK
  <2> QED BY <1>3, <1>5, <2>8, <2>9, <2>10, <2>11, BooksKept
<1> QED BY <1>5, <1>6, <1>7

LEMMA SettleKeepsBooks ==
    ASSUME BooksHold, KorlicTypeOK', LogCounts', NEW m \in k_settle, KSettle(m)
    PROVE  BooksHold'
<1> DEFINE status == IF k_resolution[m] = KNoWinner THEN "PENDING_RESOLUTION" ELSE "CLOSED"
<1>1. m \in KMarkets /\ KUnresolved(m) /\ k_engine.positions[m] # KNoPosition
  BY DEF BooksHold, KorlicTypeOK, KUnresolved
<1>2. k_engine \in KEngines /\ AtRest(k_engine) /\ k_rows \in [KTokens -> {"NONE", "OPEN", "SETTLED"}]
  BY DEF BooksHold, KorlicTypeOK
<1>3. /\ k_engine'.reserved = k_engine.reserved /\ k_engine'.orders = k_engine.orders
      /\ k_engine'.holdings = k_engine.holdings
      /\ k_engine'.positions = [k_engine.positions EXCEPT ![m].status = status]
  <2>1. KCancelOrders(k_engine, m) = k_engine
    BY <1>1, <1>2, NothingToCancel
  <2>2. k_engine' = KSettleMarket(k_engine, m, k_resolution[m])
    BY <2>1 DEF KSettle
  <2> DEFINE settled == KSettleMarket(k_engine, m, k_resolution[m])
  <2>3. /\ settled.reserved = k_engine.reserved /\ settled.orders = k_engine.orders
        /\ settled.holdings = k_engine.holdings
        /\ settled.positions = [k_engine.positions EXCEPT ![m].status = status]
    <3>1. IsSettled(settled, k_engine, m, k_resolution[m])
      BY <1>1, <1>2, SettledType
    <3> QED BY <3>1 DEF IsSettled
  <2> HIDE DEF settled, status
  <2> QED BY <2>2, <2>3 DEF settled
<1> HIDE DEF status
<1>4. AtRest(k_engine')
  BY <1>2, <1>3 DEF AtRest
<1>5. k_engine.positions[m] \in KPositions
  BY <1>1, <1>2, EngineFields
<1>6. /\ \A n \in KMarkets : n # m => k_engine'.positions[n] = k_engine.positions[n]
      /\ k_engine'.positions[m] \in KPositions
      /\ k_engine'.positions[m].side = k_engine.positions[m].side
      /\ k_engine'.positions[m].size = k_engine.positions[m].size
      /\ k_engine'.positions[m].status = status
  <2>1. k_engine'.positions[m] = [k_engine.positions[m] EXCEPT !.status = status]
    BY <1>1, <1>2, <1>3, EngineFields
  <2>2. \A n \in KMarkets : n # m => k_engine'.positions[n] = k_engine.positions[n]
    BY <1>2, <1>3, EngineFields
  <2>3. status \in {"PENDING_RESOLUTION", "CLOSED"}
    BY DEF status
  <2> QED BY <1>5, <2>1, <2>2, <2>3 DEF KPositions
<1>7. k_engine'.positions[m] # KNoPosition
  BY <1>6, KPositionAssumption DEF KPositionAssumption
<1>8. PositionIsHeld'
  <2>1. \A n \in KMarkets, s \in KSides :
            /\ k_engine'.holdings[<<n, s>>] = k_engine.holdings[<<n, s>>]
            /\ k_engine'.positions[n] # KNoPosition <=> k_engine.positions[n] # KNoPosition
            /\ k_engine'.positions[n] # KNoPosition =>
                  /\ k_engine'.positions[n].side = k_engine.positions[n].side
                  /\ k_engine'.positions[n].size = k_engine.positions[n].size
    BY <1>1, <1>3, <1>6, <1>7
  <2>2. PositionIsHeld
    BY DEF BooksHold
  <2> SUFFICES ASSUME NEW n \in KMarkets, NEW s \in KSides
               PROVE  k_engine'.holdings[<<n, s>>] =
                        IF k_engine'.positions[n] # KNoPosition /\ k_engine'.positions[n].side = s
                        THEN k_engine'.positions[n].size ELSE 0
    BY DEF PositionIsHeld
  <2>3. k_engine.holdings[<<n, s>>] =
            IF k_engine.positions[n] # KNoPosition /\ k_engine.positions[n].side = s
            THEN k_engine.positions[n].size ELSE 0
    BY <2>2 DEF PositionIsHeld
  <2> QED BY <2>1, <2>3
<1>9. \A n \in KMarkets : n # m => (KUnresolved(n)' <=> KUnresolved(n))
  BY <1>6 DEF KUnresolved
<1>10. \A u \in KTokens : u[1] # m => (Waiting(u)' <=> Waiting(u))
  BY <1>6, <1>9, TokenParts DEF Waiting
<1>11. k_settle' = k_settle \ {m} /\ UNCHANGED <<k_report, k_crashes>>
  BY DEF KSettle
<1>12. \A n \in k_settle' : KUnresolved(n)'
  BY <1>9, <1>11 DEF BooksHold, KorlicTypeOK
<1>13. CASE k_resolution[m] = KNoWinner
  <2>1. KUnresolved(m)' /\ UNCHANGED k_rows
    BY <1>6, <1>7, <1>13 DEF KUnresolved, status, KSettle, KSettlePosition
  <2>2. \A u \in KTokens : u[1] = m => (Waiting(u)' <=> Waiting(u))
    BY <1>1, <1>6, <2>1 DEF Waiting
  <2>3. Orphans' \subseteq Orphans
    BY <1>10, <2>1, <2>2 DEF Orphans, OpenRows
  <2> QED BY <1>4, <1>8, <1>10, <1>11, <1>12, <2>1, <2>2, <2>3, BooksKept DEF BooksHold
<1>14. CASE k_resolution[m] # KNoWinner
  <2> DEFINE settled == <<m, k_engine.positions[m].side>>
  <2>1. k_rows' = [k_rows EXCEPT ![settled] = "SETTLED"]
    BY <1>14 DEF KSettle, KSettlePosition, KSavePseudoTrade
  <2>2. settled \in KTokens
    BY <1>1, <1>5 DEF KTokens, KPositions
  <2>3. ~KUnresolved(m)'
    BY <1>6, <1>14 DEF KUnresolved, status
  <2>4. \A u \in KTokens : u[1] = m => ~Waiting(u)' /\ (u # settled => ~Waiting(u))
    BY <2>3, TokenParts DEF Waiting
  <2>5. \A u \in KTokens : k_rows'[u] = IF u = settled THEN "SETTLED" ELSE k_rows[u]
    BY <1>2, <2>1, <2>2
  <2> HIDE DEF settled
  <2>6. Orphans' \subseteq Orphans
    BY <1>10, <2>4, <2>5 DEF Orphans, OpenRows
  <2>7. settled[1] = m
    BY DEF settled
  <2>8. \A u \in KTokens : Waiting(u)' => (k_rows[u])' = "OPEN"
    BY <1>10, <2>4, <2>5, <2>7 DEF BooksHold
  <2> QED BY <1>4, <1>8, <1>11, <1>12, <2>6, <2>8, BooksKept
<1> QED BY <1>13, <1>14

LEMMA ReportKeepsBooks ==
    ASSUME BooksHold, KorlicTypeOK', LogCounts', KEndCycle
    PROVE  BooksHold'
<1> DEFINE inwait == Cardinality({m \in KMarkets : KUnresolved(m)})
           most == k_crashes * Cardinality(KMarkets)
<1>1. UNCHANGED <<k_engine, k_rows, k_settle, k_crashes>>
  BY DEF KEndCycle, k_memory
<1>2. k_report'.total - k_report'.settled - k_report'.pending = Cardinality(Orphans)
  <2>1. k_report' = [total |-> KTradeCounters.total, settled |-> KTradeCounters.settled, pending |-> inwait]
    BY DEF KEndCycle
  <2>2. KTradeCounters.total - KTradeCounters.settled - inwait = Cardinality(Orphans)
    <3>1. Orphans \in SUBSET KTokens
      BY DEF Orphans, OpenRows
    <3>2. Cardinality(Orphans) \in Nat /\ inwait \in Nat
      BY <3>1, OrphansFinite, CountersNat
    <3> HIDE DEF inwait
    <3> QED BY <3>2, OpenRowsCounted DEF inwait
  <2> HIDE DEF inwait
  <2> QED BY <2>1, <2>2
<1>3. Cardinality(Orphans) \in Nat
  BY OrphansFinite DEF Orphans, OpenRows
<1>4. most \in Nat
  BY KorlicAssumption, FS_CardinalityType DEF KorlicAssumption, BooksHold, LogCounts
<1>5. Cardinality(Orphans) <= most
  BY DEF BooksHold
<1>6. k_report'.total - k_report'.settled - k_report'.pending \in 0 .. most
  <2> HIDE DEF most
  <2> QED BY <1>2, <1>3, <1>4, <1>5
<1>7. ReportAddsUp'
  BY <1>1, <1>6 DEF ReportAddsUp
<1>8. \A m : KUnresolved(m)' <=> KUnresolved(m)
  BY <1>1 DEF KUnresolved
<1>9. \A t : Waiting(t)' <=> Waiting(t)
  BY <1>1, <1>8 DEF Waiting
<1>10. Orphans' = Orphans
  BY <1>1, <1>9 DEF Orphans, OpenRows
<1>11. AtRest(k_engine)' /\ PositionIsHeld'
  BY <1>1 DEF BooksHold, AtRest, PositionIsHeld
<1> QED BY <1>1, <1>7, <1>8, <1>9, <1>10, <1>11 DEF BooksHold

\* A crash orphans the row of each position that waits.
LEMMA CrashKeepsBooks ==
    ASSUME BooksHold, KorlicTypeOK', LogCounts', KCrash
    PROVE  BooksHold'
<1> DEFINE markets == Cardinality(KMarkets)
           inwait == Cardinality({m \in KMarkets : KUnresolved(m)})
<1>1. /\ k_engine' = KNewEngine /\ k_settle' = {} /\ k_crashes' = k_crashes + 1
      /\ UNCHANGED <<k_rows, k_report>>
  BY DEF KCrash, FreshMemory, k_disk
<1>2. \A m \in KMarkets : ~KUnresolved(m)'
  BY <1>1 DEF KUnresolved, KNewEngine
<1>3. \A t \in KTokens : ~Waiting(t)'
  BY <1>2, TokenParts DEF Waiting
<1>4. AtRest(k_engine') /\ PositionIsHeld'
  BY <1>1, TokenParts DEF KNewEngine, AtRest, PositionIsHeld, KTokens
<1>5. Orphans' = OpenRows
  BY <1>1, <1>3 DEF Orphans, OpenRows
<1>6. inwait \in Nat /\ markets \in Nat /\ inwait <= markets
  BY KorlicAssumption, FS_Subset, FS_CardinalityType DEF KorlicAssumption
<1>7. Cardinality(Orphans) \in Nat /\ Cardinality(OpenRows) \in Nat
  BY OrphansFinite DEF Orphans, OpenRows
<1>8. k_crashes \in Nat /\ Cardinality(Orphans) <= k_crashes * markets
  BY DEF BooksHold, LogCounts
<1>9. Cardinality(OpenRows) = Cardinality(Orphans) + inwait
  BY OpenRowsCounted
<1> HIDE DEF inwait, markets
<1>10. (k_crashes + 1) * markets = k_crashes * markets + markets /\ k_crashes * markets \in Nat
  BY <1>6, <1>8
<1>11. Cardinality(OpenRows) <= (k_crashes + 1) * markets
  BY <1>6, <1>7, <1>8, <1>9, <1>10
<1>12. ReportAddsUp'
  <2>1. k_report.total - k_report.settled - k_report.pending \in 0 .. k_crashes * markets
    BY DEF BooksHold, ReportAddsUp, markets
  <2>2. k_report.total - k_report.settled - k_report.pending \in 0 .. (k_crashes + 1) * markets
    <3>1. \A a, b, c \in Nat : \A x \in 0 .. b : a = b + c => x \in 0 .. a
      OBVIOUS
    <3>2. (k_crashes + 1) * markets \in Nat
      BY <1>6, <1>10
    <3> QED BY <1>6, <1>10, <2>1, <3>1, <3>2
  <2> QED BY <1>1, <2>2 DEF ReportAddsUp, markets
<1> QED BY <1>1, <1>3, <1>4, <1>5, <1>11, <1>12 DEF BooksHold, markets

LEMMA BooksStep ==
    ASSUME KMaxTrades = 1, BooksHold, [KorlicNext]_k_vars
    PROVE  BooksHold'
<1>1. KorlicTypeOK' /\ LogCounts'
  BY KorlicTypeStep, LogStep DEF BooksHold
<1>2. \A m \in k_settle : KUnresolved(m)
  BY DEF BooksHold
<1>3. CASE \E listed \in SUBSET KMarkets : KDiscover(listed)
  <2>1. UNCHANGED <<k_engine, k_rows, k_report, k_crashes, k_settle>>
    BY <1>3 DEF KDiscover, k_disk
  <2> QED BY <1>1, <1>2, <2>1, BooksStand
<1>4. CASE KGammaFails \/ KAppendTradeLog \/ KSleep \/ KSlowCall
  <2>1. UNCHANGED <<k_engine, k_rows, k_report, k_crashes, k_settle>>
    BY <1>4 DEF KGammaFails, KAppendTradeLog, KSleep, KSlowCall, k_memory, k_disk
  <2> QED BY <1>1, <1>2, <2>1, BooksStand
<1>5. ASSUME NEW t \in k_scan, KSkip(t) PROVE BooksHold'
  <2>1. UNCHANGED <<k_engine, k_rows, k_report, k_crashes, k_settle>>
    BY <1>5 DEF KSkip, KVisit
  <2> QED BY <1>1, <1>2, <2>1, BooksStand
<1>6. ASSUME NEW t \in k_scan, NEW d \in KDepths, KNoSignal(t, d) PROVE BooksHold'
  <2>1. KTryFill(k_engine, t, d) = k_engine
    <3>1. k_engine \in KEngines /\ AtRest(k_engine) /\ t \in KTokens /\ d \in Nat
      BY KorlicAssumption DEF BooksHold, KorlicTypeOK, KorlicAssumption
    <3> QED BY <3>1, NothingToFill
  <2>2. UNCHANGED <<k_engine, k_rows, k_report, k_crashes, k_settle>>
    BY <1>6, <2>1 DEF KNoSignal, KVisit, KBookWatch
  <2> QED BY <1>1, <1>2, <2>2, BooksStand
<1>7. ASSUME NEW t \in k_scan, NEW d \in KDepths, KTrade(t, d) PROVE BooksHold'
  BY <1>1, <1>7, TradeKeepsBooks
<1>8. CASE KBeginSettlement
  <2>1. /\ UNCHANGED <<k_engine, k_rows, k_report, k_crashes>>
        /\ \A m \in k_settle' : KUnresolved(m)
    BY <1>8 DEF KBeginSettlement, k_disk
  <2> QED BY <1>1, <2>1, BooksStand
<1>9. ASSUME NEW m \in k_settle, KStillUnresolved(m) PROVE BooksHold'
  <2>1. UNCHANGED <<k_engine, k_rows, k_report, k_crashes>> /\ k_settle' \subseteq k_settle
    BY <1>9 DEF KStillUnresolved, k_disk
  <2> QED BY <1>1, <1>2, <2>1, BooksStand
<1>10. ASSUME NEW m \in k_settle, KSettle(m) PROVE BooksHold'
  BY <1>1, <1>10, SettleKeepsBooks
<1>11. CASE KEndCycle
  BY <1>1, <1>11, ReportKeepsBooks
<1>12. ASSUME NEW m \in KMarkets, NEW w \in KSides \cup {KNoWinner}, KResolve(m, w) PROVE BooksHold'
  <2>1. UNCHANGED <<k_engine, k_rows, k_report, k_crashes, k_settle>>
    BY <1>12 DEF KResolve, k_memory, k_disk
  <2> QED BY <1>1, <1>2, <2>1, BooksStand
<1>13. CASE KCrash
  BY <1>1, <1>13, CrashKeepsBooks
<1>14. CASE UNCHANGED k_vars
  <2>1. UNCHANGED <<k_engine, k_rows, k_report, k_crashes, k_settle>>
    BY <1>14 DEF k_vars, k_memory, k_disk
  <2> QED BY <1>1, <1>2, <2>1, BooksStand
<1> QED BY <1>3, <1>4, <1>5, <1>6, <1>7, <1>8, <1>9, <1>10, <1>11, <1>12, <1>13, <1>14 DEF KorlicNext

\* With one trade per market, which is what the configuration and the factory
\* set (bot.py max_trades_per_market = 1), Korlic's books tell one story for any
\* markets, depths, prices and restarts: no cash stays reserved, a position is one
\* token's, and each report lacks at most one row per market and crash.
THEOREM KorlicBooksAgree == KMaxTrades = 1 /\ ProgramsSpec => []KorlicBooks
<1> SUFFICES ASSUME KMaxTrades = 1 PROVE ProgramsSpec => []KorlicBooks
  OBVIOUS
<1>1. ProgramsInit => BooksHold
  BY BooksInit DEF ProgramsInit
<1>2. BooksHold /\ [ProgramsNext]_program_vars => BooksHold'
  BY StepOfEach, BooksStep
<1>3. BooksHold => KorlicBooks
  <2> SUFFICES ASSUME BooksHold PROVE KorlicBooks
    OBVIOUS
  <2>1. LogRepeatsByCrashes
    BY DEF BooksHold, LogCounts, LogRepeatsByCrashes
  <2> QED BY <2>1 DEF BooksHold, KorlicBooks, AtRest, NothingRests
<1> QED BY <1>1, <1>2, <1>3, PTL DEF ProgramsSpec

-----------------------------------------------------------------------------
(* Autopilot: the types *)

LEMMA SnapshotsNotMissing == Missing \notin Snapshots
BY AutopilotAssumption DEF AutopilotAssumption

LEMMA SnapshotFields ==
    ASSUME NEW s \in Snapshots
    PROVE  s.yes \in Int /\ s.no \in Int /\ s.volume \in Nat /\ s.news \in Nat
BY DEF Snapshots

LEMMA PricesExtracted ==
    ASSUME NEW item \in Payloads
    PROVE  ExtractPrices(item) = Missing \/ ExtractPrices(item) \in Int \X Int
<1>1. item \in PayloadFields
  BY AutopilotAssumption DEF AutopilotAssumption
<1>2. /\ item.outcomePrices \in PriceFields /\ item.prices \in PriceFields
      /\ item.yesPrice \in Int \cup {Missing} /\ item.noPrice \in Int \cup {Missing}
  BY <1>1 DEF PayloadFields
<1>3. CASE item.outcomePrices # Missing
  BY <1>2, <1>3 DEF ExtractPrices, PriceFields
<1>4. CASE item.outcomePrices = Missing /\ item.prices # Missing
  BY <1>2, <1>4 DEF ExtractPrices, PriceFields
<1>5. CASE item.outcomePrices = Missing /\ item.prices = Missing
  <2>1. ExtractPrices(item) = IF item.yesPrice = Missing THEN Missing
                  ELSE <<item.yesPrice, IF item.noPrice = Missing THEN 100 - item.yesPrice ELSE item.noPrice>>
    BY <1>5 DEF ExtractPrices
  <2> QED BY <1>2, <2>1
<1> QED BY <1>3, <1>4, <1>5

LEMMA MarketParsed ==
    ASSUME NEW item \in Payloads
    PROVE  ParseMarket(item) \in Snapshots \cup {Missing}
<1>1. item.volume \in Nat /\ item.comments \in Nat
  BY AutopilotAssumption DEF AutopilotAssumption, PayloadFields
<1>2. CASE ExtractPrices(item) = Missing
  BY <1>2 DEF ParseMarket
<1>3. CASE ExtractPrices(item) \in Int \X Int /\ ExtractPrices(item) # Missing
  <2> DEFINE news == IF item.comments < 20 THEN item.comments ELSE 20
  <2>1. ParseMarket(item) = [yes |-> ExtractPrices(item)[1], no |-> ExtractPrices(item)[2],
                             volume |-> item.volume, news |-> news]
    BY <1>3 DEF ParseMarket
  <2>2. ExtractPrices(item)[1] \in Int /\ ExtractPrices(item)[2] \in Int /\ news \in Nat
    BY <1>1, <1>3
  <2> HIDE DEF news
  <2> QED BY <1>1, <2>1, <2>2 DEF Snapshots
<1> QED BY <1>2, <1>3, PricesExtracted

\* Two signals are of different markets or of different strategies.
Differ ==
    {p \in TradeSignals \X TradeSignals :
        p[1].item # p[2].item \/ p[1].strategy # p[2].strategy}

\* The signals of one market: at most one of each strategy.
LEMMA MarketSignals ==
    ASSUME NEW snapshots \in [Items -> Snapshots \cup {Missing}],
           market_history \in [Items -> Snapshots \cup {Missing}],
           NEW i \in Items, snapshots[i] # Missing
    PROVE  /\ SignalsOf(snapshots, i) \in Seq(TradeSignals)
           /\ Apart(SignalsOf(snapshots, i), Differ)
           /\ \A x \in ToSet(SignalsOf(snapshots, i)) : x.item = i
<1> DEFINE now == snapshots[i]
           before == market_history[i]
           tail == TailSignal(i, now, before)
           bonding == BondingSignal(i, now, before)
           spread == SpreadSignal(i, now)
           parts == <<tail, bonding, spread>>
           Is(v, strategy) == v = <<>> \/ \E x \in TradeSignals : v = <<x>> /\ x.item = i /\ x.strategy = strategy
<1>1. now \in Snapshots
  OBVIOUS
<1>2. Is(tail, "TAIL")
  <2> DEFINE confidence == IF now.yes < 100 THEN now.yes ELSE 100
             x == [item |-> i, strategy |-> "TAIL", side |-> "YES", confidence |-> confidence]
  <2>1. tail = <<>> \/ (now.yes >= 60 /\ tail = <<x>>)
    BY DEF TailSignal
  <2>2. now.yes >= 60 => x \in TradeSignals
    <3>1. now.yes >= 60 => confidence \in Nat
      BY <1>1, SnapshotFields
    <3> HIDE DEF confidence
    <3> QED BY <3>1 DEF TradeSignals, AutopilotStrategies, Sides
  <2>3. x.item = i /\ x.strategy = "TAIL"
    OBVIOUS
  <2> HIDE DEF x, tail
  <2> QED BY <2>1, <2>2, <2>3
<1>3. Is(bonding, "BONDING")
  <2> DEFINE x == [item |-> i, strategy |-> "BONDING", side |-> "YES", confidence |-> 80]
  <2>1. bonding = <<>> \/ bonding = <<x>>
    BY DEF BondingSignal
  <2>2. x \in TradeSignals /\ x.item = i /\ x.strategy = "BONDING"
    BY DEF TradeSignals, AutopilotStrategies, Sides
  <2> HIDE DEF x, bonding
  <2> QED BY <2>1, <2>2
<1>4. Is(spread, "SPREAD")
  <2> DEFINE side == IF now.yes <= now.no THEN "YES" ELSE "NO"
             x == [item |-> i, strategy |-> "SPREAD", side |-> side, confidence |-> 50]
  <2>1. spread = <<>> \/ spread = <<x>>
    BY DEF SpreadSignal
  <2>2. x \in TradeSignals /\ x.item = i /\ x.strategy = "SPREAD"
    <3>1. side \in {"YES", "NO"}
      OBVIOUS
    <3> HIDE DEF side
    <3> QED BY <3>1 DEF TradeSignals, AutopilotStrategies, Sides
  <2> HIDE DEF x, spread
  <2> QED BY <2>1, <2>2
<1>5. SignalsOf(snapshots, i) = FlattenSeq(parts)
  BY DEF SignalsOf
<1> HIDE DEF tail, bonding, spread
<1>6. /\ parts \in Seq(Seq(TradeSignals)) /\ Len(parts) = 3
      /\ parts[1] = tail /\ parts[2] = bonding /\ parts[3] = spread
  <2>1. tail \in Seq(TradeSignals) /\ bonding \in Seq(TradeSignals) /\ spread \in Seq(TradeSignals)
    <3>1. \A v, strategy : Is(v, strategy) => v \in Seq(TradeSignals)
      <4>1. <<>> \in Seq(TradeSignals) /\ \A x \in TradeSignals : <<x>> \in Seq(TradeSignals)
        OBVIOUS
      <4> QED BY <4>1
    <3> HIDE DEF Is
    <3> QED BY <1>2, <1>3, <1>4, <3>1
  <2> QED BY <2>1
<1> HIDE DEF parts
<1>7. \A v, strategy : Is(v, strategy) =>
         /\ Apart(v, Differ)
         /\ \A x \in ToSet(v) : x \in TradeSignals /\ x.item = i /\ x.strategy = strategy
  BY DEF Apart, ToSet
<1> HIDE DEF Is
<1>8. \A n \in 1 .. 3 : n = 1 \/ n = 2 \/ n = 3
  OBVIOUS
<1>9. \A n \in 1 .. Len(parts) : Apart(parts[n], Differ)
  BY <1>2, <1>3, <1>4, <1>6, <1>7, <1>8
<1>10. ASSUME NEW m \in 1 .. Len(parts), NEW n \in 1 .. Len(parts), m # n,
              NEW x \in ToSet(parts[m]), NEW y \in ToSet(parts[n])
       PROVE  <<x, y>> \in Differ
  <2>1. x.strategy = IF m = 1 THEN "TAIL" ELSE IF m = 2 THEN "BONDING" ELSE "SPREAD"
    BY <1>2, <1>3, <1>4, <1>6, <1>7, <1>8
  <2>2. y.strategy = IF n = 1 THEN "TAIL" ELSE IF n = 2 THEN "BONDING" ELSE "SPREAD"
    BY <1>2, <1>3, <1>4, <1>6, <1>7, <1>8
  <2>3. x \in TradeSignals /\ y \in TradeSignals
    BY <1>2, <1>3, <1>4, <1>6, <1>7, <1>8
  <2>4. x.strategy # y.strategy
    BY <1>6, <1>8, <1>10, <2>1, <2>2
  <2> QED BY <2>3, <2>4 DEF Differ
<1>11. Apart(FlattenSeq(parts), Differ)
  BY <1>6, <1>9, <1>10, FlattenedApart
<1>12. /\ FlattenSeq(parts) \in Seq(TradeSignals)
       /\ \A x \in ToSet(FlattenSeq(parts)) : \E n \in 1 .. Len(parts) : x \in ToSet(parts[n])
  BY <1>6, FlattenedElements
<1>13. \A n \in 1 .. Len(parts) : \A x \in ToSet(parts[n]) : x.item = i
  BY <1>2, <1>3, <1>4, <1>6, <1>7, <1>8
<1> QED BY <1>5, <1>11, <1>12, <1>13

LEMMA ItemsEnumerated ==
    SetToSeq(Items) \in [1 .. Cardinality(Items) -> Items] /\ IsInjective(SetToSeq(Items))
<1>1. ExistsBijection(1 .. Cardinality(Items), Items)
  BY FS_CardinalityType, AutopilotAssumption DEF AutopilotAssumption
<1>2. \E f \in [1 .. Cardinality(Items) -> Items] : IsInjective(f)
  BY <1>1 DEF ExistsBijection, Bijection, Injection
<1> QED BY <1>2 DEF SetToSeq

\* A cycle's signals: of markets that are known, each of a market and strategy
\* of its own.
LEMMA CycleSignals ==
    ASSUME NEW snapshots \in [Items -> Snapshots \cup {Missing}],
           market_history \in [Items -> Snapshots \cup {Missing}]
    PROVE  /\ GenerateSignals(snapshots) \in Seq(TradeSignals)
           /\ Apart(GenerateSignals(snapshots), Differ)
           /\ \A x \in ToSet(GenerateSignals(snapshots)) : snapshots[x.item] # Missing
<1> DEFINE N == Cardinality(Items)
           order == SetToSeq(Items)
           part(i) == IF snapshots[i] = Missing THEN <<>> ELSE SignalsOf(snapshots, i)
           seqs == [n \in 1 .. N |-> part(order[n])]
           Of(v, i) == /\ v \in Seq(TradeSignals) /\ Apart(v, Differ)
                       /\ \A x \in ToSet(v) : x \in TradeSignals /\ x.item = i /\ snapshots[i] # Missing
<1>1. N \in Nat
  BY FS_CardinalityType, AutopilotAssumption DEF AutopilotAssumption
<1>2. /\ \A n \in 1 .. N : order[n] \in Items
      /\ \A m, n \in 1 .. N : m # n => order[m] # order[n]
  BY ItemsEnumerated DEF IsInjective
<1>3. ASSUME NEW i \in Items PROVE Of(part(i), i)
  <2>1. CASE snapshots[i] = Missing
    <3>1. part(i) = <<>>
      BY <2>1
    <3>2. Of(<<>>, i)
      <4>1. <<>> \in Seq(TradeSignals) /\ ToSet(<<>>) = {} /\ Apart(<<>>, Differ)
        BY DEF Apart, ToSet
      <4> QED BY <4>1
    <3> HIDE DEF part, Of
    <3> QED BY <3>1, <3>2
  <2>2. CASE snapshots[i] # Missing
    <3>1. /\ SignalsOf(snapshots, i) \in Seq(TradeSignals)
          /\ Apart(SignalsOf(snapshots, i), Differ)
          /\ \A x \in ToSet(SignalsOf(snapshots, i)) : x.item = i
      BY <2>2, MarketSignals
    <3>2. part(i) = SignalsOf(snapshots, i)
      BY <2>2
    <3>3. ToSet(SignalsOf(snapshots, i)) \subseteq TradeSignals
      BY <3>1, RangeFinite
    <3> HIDE DEF part
    <3> QED BY <2>2, <3>1, <3>2, <3>3
  <2> QED BY <2>1, <2>2
<1>4. GenerateSignals(snapshots) = FlattenSeq(seqs)
  BY DEF GenerateSignals
<1> HIDE DEF order, part, N
<1>5. /\ seqs \in Seq(Seq(TradeSignals)) /\ Len(seqs) = N
      /\ \A n \in 1 .. N : seqs[n] = part(order[n])
  <2>1. \A n \in 1 .. N : part(order[n]) \in Seq(TradeSignals)
    BY <1>2, <1>3
  <2> HIDE DEF Of
  <2> QED BY <1>1, <2>1
<1> HIDE DEF seqs
<1>6. \A n \in 1 .. N : Of(seqs[n], order[n])
  BY <1>2, <1>3, <1>5
<1>7. \A n \in 1 .. Len(seqs) : Apart(seqs[n], Differ)
  BY <1>5, <1>6
<1>8. ASSUME NEW m \in 1 .. Len(seqs), NEW n \in 1 .. Len(seqs), m # n,
             NEW x \in ToSet(seqs[m]), NEW y \in ToSet(seqs[n])
      PROVE  <<x, y>> \in Differ
  <2>1. x \in TradeSignals /\ y \in TradeSignals /\ x.item = order[m] /\ y.item = order[n]
    BY <1>5, <1>6
  <2>2. order[m] # order[n]
    BY <1>2, <1>5, <1>8
  <2> QED BY <2>1, <2>2 DEF Differ
<1>9. Apart(FlattenSeq(seqs), Differ)
  BY <1>5, <1>7, <1>8, FlattenedApart
<1>10. /\ FlattenSeq(seqs) \in Seq(TradeSignals)
       /\ \A x \in ToSet(FlattenSeq(seqs)) : \E n \in 1 .. Len(seqs) : x \in ToSet(seqs[n])
  BY <1>5, FlattenedElements
<1>11. \A n \in 1 .. Len(seqs) : \A x \in ToSet(seqs[n]) : snapshots[x.item] # Missing
  BY <1>5, <1>6
<1> QED BY <1>4, <1>9, <1>10, <1>11

-----------------------------------------------------------------------------
(* Autopilot: the accounts *)

Positions == Items \X Sides
Holdings == [Positions -> [quantity : Nat, cost : Nat]]
CostOf(positions) == SumFunctionOnSet(Costs(positions), Positions)

LEMMA PositionsFinite == IsFiniteSet(Positions)
<1>1. IsFiniteSet(Sides)
  <2>1. Sides = {"YES"} \cup {"NO"}
    BY DEF Sides
  <2> QED BY <2>1, FS_Singleton, FS_Union
<1> QED BY <1>1, FS_Product, AutopilotAssumption DEF AutopilotAssumption, Positions

LEMMA CostsSummable ==
    ASSUME NEW positions \in Holdings
    PROVE  /\ Summable(Costs(positions), Positions) /\ CostOf(positions) \in Int
           /\ \A k \in Positions : Costs(positions)[k] = positions[k].cost /\ positions[k].cost \in Nat
<1>1. \A k \in Positions : Costs(positions)[k] = positions[k].cost /\ positions[k].cost \in Nat
  BY DEF Costs, Positions, Holdings
<1>2. Summable(Costs(positions), Positions)
  BY <1>1, PositionsFinite DEF Summable
<1> QED BY <1>1, <1>2, SetSumDef DEF CostOf

\* A buy moves what it costs from the cash into one position.
LEMMA BuyBalances ==
    ASSUME NEW positions \in Holdings, NEW k \in Positions, NEW lots \in Nat, NEW price \in Nat
    PROVE  LET more == [positions EXCEPT ![k] = BoughtMore(@, lots, price)] IN
           more \in Holdings /\ CostOf(more) = CostOf(positions) + lots * price
<1> DEFINE more == [positions EXCEPT ![k] = BoughtMore(@, lots, price)]
           paid == lots * price
<1>1. paid \in Nat
  OBVIOUS
<1>2. positions[k] \in [quantity : Nat, cost : Nat]
  BY DEF Holdings
<1>3. BoughtMore(positions[k], lots, price)
        = [quantity |-> positions[k].quantity + lots, cost |-> positions[k].cost + paid]
  BY DEF BoughtMore
<1> HIDE DEF paid
<1>4. more \in Holdings
  BY <1>1, <1>2, <1>3 DEF Holdings
<1>5. more[k].cost = positions[k].cost + paid /\ \A l \in Positions : l # k => more[l] = positions[l]
  BY <1>2, <1>3 DEF Holdings
<1> HIDE DEF more
<1>6. \A l \in Positions : l # k => Costs(more)[l] = Costs(positions)[l]
  BY <1>4, <1>5, CostsSummable
<1>7. CostOf(more) = CostOf(positions) + Costs(more)[k] - Costs(positions)[k]
  BY <1>4, <1>6, CostsSummable, SetSumUpdate DEF CostOf
<1>8. /\ Costs(more)[k] = positions[k].cost + paid /\ Costs(positions)[k] = positions[k].cost
      /\ positions[k].cost \in Nat /\ CostOf(positions) \in Int
  BY <1>4, <1>5, CostsSummable
<1>9. CostOf(more) = CostOf(positions) + paid
  BY <1>1, <1>7, <1>8
<1> QED BY <1>4, <1>9 DEF more, paid

\* Closing positions takes what they have cost out of the sum.
LEMMA CloseBalances ==
    ASSUME NEW positions \in Holdings, NEW closed \in SUBSET Positions
    PROVE  LET rest == [k \in Positions |-> IF k \in closed THEN NoHolding ELSE positions[k]] IN
           /\ rest \in Holdings
           /\ CostOf(rest) = CostOf(positions) - SumFunctionOnSet(Costs(positions), closed)
<1> DEFINE rest == [k \in Positions |-> IF k \in closed THEN NoHolding ELSE positions[k]]
           open == Positions \ closed
           Sum(p, S) == SumFunctionOnSet(Costs(p), S)
<1>1. NoHolding \in [quantity : Nat, cost : Nat] /\ NoHolding.cost = 0
  BY DEF NoHolding
<1>2. rest \in Holdings
  BY <1>1 DEF Holdings
<1>3. /\ \A k \in open : rest[k] = positions[k]
      /\ \A k \in closed : rest[k].cost = 0
  BY <1>1
<1> HIDE DEF rest
<1>4. \A p \in Holdings, S \in SUBSET Positions : Summable(Costs(p), S) /\ Sum(p, S) \in Int
  BY CostsSummable, SummableSubset, SetSumDef
<1>5. \A p \in Holdings : CostOf(p) = Sum(p, closed) + Sum(p, open)
  <2>1. closed \cup open = Positions /\ closed \cap open = {}
    OBVIOUS
  <2> QED BY <1>4, <2>1, SetSumUnion DEF CostOf
<1>6. Sum(rest, open) = Sum(positions, open)
  <2>1. \A k \in open : Costs(rest)[k] = Costs(positions)[k]
    BY <1>2, <1>3, CostsSummable
  <2> QED BY <1>2, <1>4, <2>1, SetSumSame
<1>7. Sum(rest, closed) = 0
  <2>1. \A k \in closed : Costs(rest)[k] = 0
    BY <1>2, <1>3, CostsSummable
  <2> QED BY <1>2, <1>4, <2>1, SetSumZero
<1>8. CostOf(rest) = CostOf(positions) - Sum(positions, closed)
  <2>1. Sum(positions, closed) \in Int /\ Sum(positions, open) \in Int
    BY <1>4
  <2>2. CostOf(rest) = 0 + Sum(positions, open) /\ CostOf(positions) = Sum(positions, closed) + Sum(positions, open)
    BY <1>2, <1>5, <1>6, <1>7
  <2> HIDE DEF Sum
  <2> QED BY <2>1, <2>2
<1> QED BY <1>2, <1>8 DEF rest

\* A buy is of a market the cycle knows, and the signal that made it is gone;
\* the snapshot that explains it is recorded before the next signals are derived.
BuysExplained ==
    /\ ap_pc \in {"fetch", "trade", "rebalance", "record"} => ap_days >= 1
    /\ ap_pc = "trade" =>
          /\ Apart(ap_signals, Differ)
          /\ \A x \in ToSet(ap_signals) :
                /\ ap_snapshots[x.item] # Missing
                /\ ap_bought[<<x.item, x.strategy>>] <= ap_crashes
    /\ \A i \in Items, strategy \in AutopilotStrategies :
          ap_bought[<<i, strategy>>] <=
             IF ap_pc \in {"trade", "rebalance", "record"} /\ ap_snapshots[i] # Missing
             THEN ap_crashes + 1 ELSE ap_crashes

AutopilotHolds == AutopilotTypeOK /\ BooksBalance /\ BuysExplained

LEMMA AutopilotHoldsInit == AutopilotInit => AutopilotHolds
<1> SUFFICES ASSUME AutopilotInit PROVE AutopilotHolds
  OBVIOUS
<1>1. AutopilotTypeOK
  <2>1. NoHolding \in [quantity : Nat, cost : Nat]
    BY DEF NoHolding
  <2>2. holdings \in [Items \X Sides -> [quantity : Nat, cost : Nat]]
    BY <2>1 DEF AutopilotInit
  <2>3. /\ portfolio \in Nat /\ realized \in Nat /\ ap_days \in 0 .. SimulationDays
        /\ ap_cycles \in 0 .. MaxAutopilotCycles /\ ap_crashes \in 0 .. MaxAutopilotCrashes
    BY AutopilotAssumption DEF AutopilotAssumption, AutopilotInit
  <2>4. ap_signals \in Seq(TradeSignals)
    BY DEF AutopilotInit
  <2> QED BY <2>2, <2>3, <2>4 DEF AutopilotTypeOK, AutopilotInit
<1>2. BooksBalance
  <2>1. holdings \in Holdings
    BY <1>1 DEF AutopilotTypeOK, Holdings, Positions
  <2>2. \A k \in Positions : Costs(holdings)[k] = 0
    <3>1. \A k \in Positions : holdings[k] = NoHolding
      BY DEF AutopilotInit, Positions
    <3> QED BY <2>1, <3>1, CostsSummable DEF NoHolding
  <2>3. CostOf(holdings) = 0
    BY <2>1, <2>2, CostsSummable, SetSumZero DEF CostOf
  <2>4. CostOf(holdings) = SumFunctionOnSet(Costs(holdings), Items \X Sides)
    BY DEF CostOf, Positions
  <2> QED BY <2>3, <2>4, AutopilotAssumption DEF AutopilotAssumption, BooksBalance, AutopilotInit
<1>3. BuysExplained
  BY DEF BuysExplained, AutopilotInit
<1> QED BY <1>1, <1>2, <1>3 DEF AutopilotHolds

LEMMA LotsNat ==
    ASSUME AutopilotTypeOK, NEW signal \in TradeSignals, NEW price \in Int
    PROVE  Lots(signal, price) \in Nat
<1> DEFINE a == portfolio * signal.confidence
           b == 1000 * (IF price > 1 THEN price ELSE 1)
<1>1. a \in Nat
  BY DEF TradeSignals, AutopilotTypeOK
<1>2. b \in Nat /\ b > 0
  OBVIOUS
<1>3. Lots(signal, price) = 0 \/ Lots(signal, price) = (2 * a + b) \div (2 * b)
  BY DEF Lots, Rounded
<1> HIDE DEF a, b
<1>4. (2 * a + b) \div (2 * b) \in Nat
  <2>1. 2 * a + b \in Nat /\ 2 * b \in Nat /\ 2 * b > 0
    BY <1>1, <1>2
  <2>2. \A m, n \in Nat : n > 0 => m \div n \in Nat
    OBVIOUS
  <2> QED BY <2>1, <2>2
<1> QED BY <1>3, <1>4

LEMMA TradeKeepsAccounts == AutopilotHolds /\ ExecutePaperTrade => AutopilotHolds'
<1> SUFFICES ASSUME AutopilotHolds, ExecutePaperTrade PROVE AutopilotHolds'
  OBVIOUS
<1> DEFINE signal == Head(ap_signals)
           key == <<signal.item, signal.side>>
           price == PriceOf(ap_snapshots[signal.item], signal.side)
           lots == Lots(signal, price)
<1>1. /\ AutopilotTypeOK /\ BooksBalance /\ BuysExplained
      /\ ap_pc = "trade" /\ ap_signals # <<>> /\ ap_signals' = Tail(ap_signals)
      /\ UNCHANGED <<ap_pc, ap_days, ap_snapshots, realized, market_history, ap_cycles, ap_crashes>>
  BY DEF AutopilotHolds, ExecutePaperTrade
<1>2. /\ ap_signals \in Seq(TradeSignals) /\ holdings \in Holdings
      /\ portfolio \in Nat /\ realized \in Nat /\ ap_crashes \in Nat
      /\ ap_bought \in [Items \X AutopilotStrategies -> Nat]
      /\ ap_snapshots \in [Items -> Snapshots \cup {Missing}]
  BY <1>1 DEF AutopilotTypeOK, Holdings, Positions
<1>3. /\ signal \in TradeSignals /\ signal = ap_signals[1] /\ 1 \in DOMAIN ap_signals
      /\ Tail(ap_signals) \in Seq(TradeSignals)
      /\ \A n \in DOMAIN Tail(ap_signals) :
            Tail(ap_signals)[n] = ap_signals[n + 1] /\ n + 1 \in DOMAIN ap_signals /\ n + 1 # 1
  BY <1>1, <1>2
<1>4. /\ signal.item \in Items /\ signal.strategy \in AutopilotStrategies /\ signal.side \in Sides
      /\ key \in Positions
  BY <1>3 DEF TradeSignals, Positions
<1>5. signal \in ToSet(ap_signals)
  BY <1>3 DEF ToSet
<1>6. ap_snapshots[signal.item] \in Snapshots
  BY <1>1, <1>2, <1>4, <1>5 DEF BuysExplained
<1>7. price \in Int /\ lots \in Nat
  <2>1. price \in Int
    BY <1>6, SnapshotFields DEF PriceOf
  <2> HIDE DEF price
  <2> QED BY <1>1, <1>3, <2>1, LotsNat
<1>8. /\ Apart(Tail(ap_signals), Differ)
      /\ \A x \in ToSet(Tail(ap_signals)) : x \in ToSet(ap_signals) /\ <<signal, x>> \in Differ
  <2>1. Apart(ap_signals, Differ)
    BY <1>1 DEF BuysExplained
  <2>2. \A x \in ToSet(Tail(ap_signals)) : \E n \in DOMAIN Tail(ap_signals) : x = Tail(ap_signals)[n]
    BY DEF ToSet
  <2>3. \A n \in DOMAIN ap_signals : ap_signals[n] \in ToSet(ap_signals)
    BY DEF ToSet
  <2>4. \A m, n \in DOMAIN Tail(ap_signals) : m # n => m + 1 # n + 1
    BY <1>3
  <2> HIDE DEF signal
  <2> QED BY <1>3, <2>1, <2>2, <2>3, <2>4 DEF Apart
<1>9. CASE lots > 0 /\ price > 0 /\ lots * price <= portfolio
  <2> DEFINE more == [holdings EXCEPT ![key] = BoughtMore(@, lots, price)]
             place == <<signal.item, signal.strategy>>
  <2>1. /\ holdings' = more /\ portfolio' = portfolio - lots * price
        /\ ap_bought' = [ap_bought EXCEPT ![place] = @ + 1]
    BY <1>9 DEF ExecutePaperTrade
  <2>2. more \in Holdings /\ CostOf(more) = CostOf(holdings) + lots * price
    <3> HIDE DEF lots, price, key
    <3> QED BY <1>2, <1>4, <1>7, <1>9, BuyBalances
  <2> HIDE DEF lots, price, key, more
  <2>3. place \in Items \X AutopilotStrategies
    BY <1>4
  <2>4. /\ ap_bought'[place] = ap_bought[place] + 1
        /\ \A k \in Items \X AutopilotStrategies : k # place => ap_bought'[k] = ap_bought[k]
        /\ ap_bought' \in [Items \X AutopilotStrategies -> Nat]
    BY <1>2, <2>1, <2>3
  <2>5. AutopilotTypeOK'
    <3>1. portfolio' \in Nat
      <4>1. lots * price \in Int
        BY <1>7
      <4> QED BY <1>2, <1>9, <2>1, <4>1
    <3>2. holdings' \in [Items \X Sides -> [quantity : Nat, cost : Nat]]
      BY <2>1, <2>2 DEF Holdings, Positions
    <3> QED BY <1>1, <1>3, <2>4, <3>1, <3>2 DEF AutopilotTypeOK
  <2>6. BooksBalance'
    <3>1. portfolio + CostOf(holdings) = StartingCapital + realized
      BY <1>1 DEF BooksBalance, CostOf, Positions
    <3>2. CostOf(holdings) \in Int /\ lots * price \in Int /\ StartingCapital \in Int
      BY <1>2, <1>7, CostsSummable, AutopilotAssumption DEF AutopilotAssumption
    <3>3. portfolio' + CostOf(holdings') = StartingCapital + realized'
      BY <1>1, <1>2, <2>1, <2>2, <3>1, <3>2
    <3> QED BY <3>3 DEF BooksBalance, CostOf, Positions
  <2>7. BuysExplained'
    <3>1. ASSUME NEW x \in ToSet(Tail(ap_signals))
          PROVE  /\ ap_snapshots[x.item] # Missing
                 /\ ap_bought'[<<x.item, x.strategy>>] <= ap_crashes
      <4>1. ap_snapshots[x.item] # Missing /\ ap_bought[<<x.item, x.strategy>>] <= ap_crashes
        BY <1>1, <1>8 DEF BuysExplained
      <4>2. /\ <<x.item, x.strategy>> # place
            /\ <<x.item, x.strategy>> \in Items \X AutopilotStrategies
        BY <1>8 DEF Differ, TradeSignals
      <4> QED BY <2>4, <4>1, <4>2
    <3>2. ASSUME NEW i \in Items, NEW strategy \in AutopilotStrategies
          PROVE  ap_bought'[<<i, strategy>>] <=
                    IF ap_snapshots[i] # Missing THEN ap_crashes + 1 ELSE ap_crashes
      <4>1. CASE <<i, strategy>> = place
        <5>1. /\ ap_bought[place] <= ap_crashes /\ ap_bought[place] \in Nat
              /\ ap_snapshots[i] # Missing
          BY <1>1, <1>2, <1>5, <1>6, <2>3, <4>1, SnapshotsNotMissing DEF BuysExplained
        <5> HIDE DEF place
        <5> QED BY <1>2, <2>4, <4>1, <5>1
      <4>2. CASE <<i, strategy>> # place
        BY <1>1, <2>4, <4>2 DEF BuysExplained
      <4> QED BY <4>1, <4>2
    <3> QED BY <1>1, <1>8, <3>1, <3>2 DEF BuysExplained
  <2> QED BY <2>5, <2>6, <2>7 DEF AutopilotHolds
<1>10. CASE ~(lots > 0 /\ price > 0 /\ lots * price <= portfolio)
  <2>1. UNCHANGED <<holdings, portfolio, ap_bought>>
    BY <1>10 DEF ExecutePaperTrade
  <2> HIDE DEF lots, price, key, signal
  <2>2. AutopilotTypeOK'
    BY <1>1, <1>3, <2>1 DEF AutopilotTypeOK
  <2>3. BooksBalance'
    BY <1>1, <2>1 DEF BooksBalance
  <2>4. BuysExplained'
    BY <1>1, <1>8, <2>1 DEF BuysExplained
  <2> QED BY <2>2, <2>3, <2>4 DEF AutopilotHolds
<1> QED BY <1>9, <1>10

\* A position closes for at least what it has cost.
LEMMA ProfitCovers ==
    ASSUME AutopilotTypeOK, NEW k \in Positions, InProfit(k)
    PROVE  Proceeds(k) \in Nat /\ holdings[k].cost \in Nat /\ holdings[k].cost <= Proceeds(k)
<1>1. holdings \in Holdings /\ ap_snapshots \in [Items -> Snapshots \cup {Missing}]
  BY DEF AutopilotTypeOK, Holdings, Positions
<1>2. holdings[k].quantity \in Nat /\ holdings[k].cost \in Nat
  BY <1>1 DEF Holdings
<1>3. PriceOf(ap_snapshots[k[1]], k[2]) \in Int
  <2>1. k[1] \in Items
    BY DEF Positions
  <2>2. ap_snapshots[k[1]] \in Snapshots
    BY <1>1, <2>1 DEF InProfit
  <2> QED BY <2>2, SnapshotFields DEF PriceOf
<1> DEFINE gets == Proceeds(k)
           cost == holdings[k].cost
<1>4. gets \in Int /\ cost \in Nat
  BY <1>2, <1>3 DEF Proceeds
<1>5. 100 * gets >= (100 + ProfitTarget) * cost
  BY DEF InProfit
<1>6. (100 + ProfitTarget) * cost >= 100 * cost
  <2>1. ProfitTarget \in Nat
    BY AutopilotAssumption DEF AutopilotAssumption
  <2>2. ProfitTarget * cost \in Nat
    BY <1>4, <2>1
  <2>3. (100 + ProfitTarget) * cost = 100 * cost + ProfitTarget * cost
    BY <1>4, <2>1
  <2> QED BY <1>4, <2>2, <2>3
<1>7. (100 + ProfitTarget) * cost \in Int
  BY <1>4, AutopilotAssumption DEF AutopilotAssumption
<1> HIDE DEF gets, cost
<1>8. gets >= cost
  BY <1>4, <1>5, <1>6, <1>7
<1> QED BY <1>4, <1>8 DEF gets, cost

LEMMA RebalanceKeepsAccounts == AutopilotHolds /\ RebalanceTakeProfit => AutopilotHolds'
<1> SUFFICES ASSUME AutopilotHolds, RebalanceTakeProfit PROVE AutopilotHolds'
  OBVIOUS
<1> DEFINE closed == {k \in Items \X Sides : InProfit(k)}
           gets == [k \in closed |-> Proceeds(k)]
           proceeds == SumFunctionOnSet(gets, closed)
           spent == SumFunctionOnSet(Costs(holdings), closed)
           rest == [k \in Positions |-> IF k \in closed THEN NoHolding ELSE holdings[k]]
<1>1. /\ AutopilotTypeOK /\ BooksBalance /\ BuysExplained
      /\ ap_pc = "rebalance" /\ ap_pc' = "record"
      /\ portfolio' = portfolio + proceeds /\ realized' = realized + proceeds - spent
      /\ UNCHANGED <<ap_days, ap_snapshots, ap_signals, market_history, ap_bought, ap_cycles, ap_crashes>>
  BY DEF AutopilotHolds, RebalanceTakeProfit
<1>2. holdings' = rest
  BY DEF RebalanceTakeProfit, Positions
<1>3. /\ holdings \in Holdings /\ portfolio \in Nat /\ realized \in Nat
      /\ closed \in SUBSET Positions
  BY <1>1 DEF AutopilotTypeOK, Holdings, Positions
<1>4. \A k \in closed :
         /\ gets[k] = Proceeds(k) /\ Proceeds(k) \in Nat /\ Costs(holdings)[k] = holdings[k].cost
         /\ holdings[k].cost \in Nat /\ holdings[k].cost <= Proceeds(k)
  BY <1>1, <1>3, ProfitCovers, CostsSummable
<1> HIDE DEF gets, closed
<1>5. IsFiniteSet(closed)
  BY <1>3, PositionsFinite, FS_Subset
<1>6. Summable(gets, closed) /\ Summable(Costs(holdings), closed)
  BY <1>4, <1>5 DEF Summable
<1>7. proceeds \in Int /\ spent \in Int /\ spent <= proceeds
  <2>1. \A k \in closed : Costs(holdings)[k] <= gets[k]
    BY <1>4
  <2> QED BY <1>6, <2>1, SetSumDef, SetSumMonotonic
<1>8. spent >= 0
  <2> DEFINE zero == [k \in closed |-> 0]
  <2>1. Summable(zero, closed)
    BY <1>5 DEF Summable
  <2>2. \A k \in closed : zero[k] = 0 /\ zero[k] <= Costs(holdings)[k]
    BY <1>4
  <2> HIDE DEF zero
  <2>3. SumFunctionOnSet(zero, closed) = 0
    BY <2>1, <2>2, SetSumZero
  <2> QED BY <1>6, <2>1, <2>2, <2>3, SetSumMonotonic
<1>9. rest \in Holdings /\ CostOf(rest) = CostOf(holdings) - spent
  BY <1>3, CloseBalances
<1> HIDE DEF rest, proceeds, spent
<1>10. AutopilotTypeOK'
  <2>1. portfolio' \in Nat /\ realized' \in Nat
    BY <1>1, <1>3, <1>7, <1>8
  <2>2. holdings' \in [Items \X Sides -> [quantity : Nat, cost : Nat]]
    BY <1>2, <1>9 DEF Holdings, Positions
  <2> QED BY <1>1, <2>1, <2>2 DEF AutopilotTypeOK
<1>11. BooksBalance'
  <2>1. portfolio + CostOf(holdings) = StartingCapital + realized
    BY <1>1 DEF BooksBalance, CostOf, Positions
  <2>2. CostOf(holdings) \in Int /\ StartingCapital \in Int
    BY <1>3, CostsSummable, AutopilotAssumption DEF AutopilotAssumption
  <2>3. portfolio' + CostOf(holdings') = StartingCapital + realized'
    BY <1>1, <1>2, <1>3, <1>7, <1>9, <2>1, <2>2
  <2> QED BY <2>3 DEF BooksBalance, CostOf, Positions
<1>12. BuysExplained'
  BY <1>1 DEF BuysExplained
<1> QED BY <1>10, <1>11, <1>12 DEF AutopilotHolds

LEMMA FetchKeepsAccounts == AutopilotHolds /\ FetchMarkets => AutopilotHolds'
<1> SUFFICES ASSUME AutopilotHolds, FetchMarkets PROVE AutopilotHolds'
  OBVIOUS
<1>1. /\ AutopilotTypeOK /\ BooksBalance /\ BuysExplained
      /\ ap_pc = "fetch" /\ ap_pc' = "trade" /\ ap_cycles < MaxAutopilotCycles
      /\ ap_cycles' = ap_cycles + 1
      /\ UNCHANGED <<ap_days, ap_store, market_history, ap_bought, ap_crashes>>
  BY DEF AutopilotHolds, FetchMarkets
<1>2. PICK answer \in [Items -> Payloads \cup {Missing}] :
         LET snapshots == [i \in Items |-> IF answer[i] = Missing THEN Missing ELSE ParseMarket(answer[i])]
         IN  ap_snapshots' = snapshots /\ ap_signals' = GenerateSignals(snapshots)
  BY DEF FetchMarkets
<1>3. ap_snapshots' \in [Items -> Snapshots \cup {Missing}] /\ ap_signals' = GenerateSignals(ap_snapshots')
  <2>1. \A i \in Items : answer[i] # Missing => ParseMarket(answer[i]) \in Snapshots \cup {Missing}
    BY <1>2, MarketParsed
  <2> QED BY <1>2, <2>1
<1>4. market_history \in [Items -> Snapshots \cup {Missing}]
  BY <1>1 DEF AutopilotTypeOK
<1>5. /\ ap_signals' \in Seq(TradeSignals) /\ Apart(ap_signals', Differ)
      /\ \A x \in ToSet(ap_signals') : x \in TradeSignals /\ ap_snapshots'[x.item] # Missing
  <2>1. /\ GenerateSignals(ap_snapshots') \in Seq(TradeSignals)
        /\ Apart(GenerateSignals(ap_snapshots'), Differ)
        /\ \A x \in ToSet(GenerateSignals(ap_snapshots')) : ap_snapshots'[x.item] # Missing
    BY <1>3, <1>4, CycleSignals
  <2>2. ToSet(GenerateSignals(ap_snapshots')) \subseteq TradeSignals
    BY <2>1, RangeFinite
  <2> QED BY <1>3, <2>1, <2>2
<1>6. AutopilotTypeOK'
  <2>1. ap_cycles' \in 0 .. MaxAutopilotCycles
    BY <1>1, AutopilotAssumption DEF AutopilotTypeOK, AutopilotAssumption
  <2> QED BY <1>1, <1>3, <1>5, <2>1 DEF AutopilotTypeOK, ap_store
<1>7. BooksBalance'
  BY <1>1 DEF BooksBalance, ap_store
<1>8. BuysExplained'
  <2>1. ASSUME NEW i \in Items, NEW strategy \in AutopilotStrategies
        PROVE  ap_bought[<<i, strategy>>] <= ap_crashes /\ ap_bought[<<i, strategy>>] \in Nat
    BY <1>1 DEF BuysExplained, AutopilotTypeOK
  <2>2. \A x \in TradeSignals : x.item \in Items /\ x.strategy \in AutopilotStrategies
    BY DEF TradeSignals
  <2>3. ap_days >= 1 /\ ap_crashes \in Nat
    BY <1>1 DEF BuysExplained, AutopilotTypeOK
  <2>4. ASSUME NEW i \in Items, NEW strategy \in AutopilotStrategies
        PROVE  ap_bought[<<i, strategy>>] <= IF ap_snapshots'[i] # Missing THEN ap_crashes + 1 ELSE ap_crashes
    <3> DEFINE n == ap_bought[<<i, strategy>>]
    <3>1. n \in Nat /\ n <= ap_crashes
      BY <2>1
    <3> HIDE DEF n
    <3>2. n <= IF ap_snapshots'[i] # Missing THEN ap_crashes + 1 ELSE ap_crashes
      BY <2>3, <3>1
    <3> QED BY <3>2 DEF n
  <2> QED BY <1>1, <1>5, <2>1, <2>2, <2>3, <2>4 DEF BuysExplained
<1> QED BY <1>6, <1>7, <1>8 DEF AutopilotHolds

LEMMA RecordKeepsAccounts == AutopilotHolds /\ RecordMarketSnapshots => AutopilotHolds'
<1> SUFFICES ASSUME AutopilotHolds, RecordMarketSnapshots PROVE AutopilotHolds'
  OBVIOUS
<1>1. /\ AutopilotTypeOK /\ BooksBalance /\ BuysExplained
      /\ ap_pc = "record" /\ ap_days' = ap_days - 1
      /\ ap_pc' = IF ap_days' = 0 THEN "publish" ELSE "fetch"
      /\ market_history' = [i \in Items |-> IF ap_snapshots[i] = Missing
                                            THEN market_history[i] ELSE ap_snapshots[i]]
      /\ ap_bought' = [k \in Items \X AutopilotStrategies |->
                          IF ap_snapshots[k[1]] = Missing THEN ap_bought[k] ELSE 0]
      /\ UNCHANGED <<ap_snapshots, ap_signals, ap_store, ap_cycles, ap_crashes>>
  BY DEF AutopilotHolds, RecordMarketSnapshots
<1>2. /\ ap_days \in 0 .. SimulationDays /\ ap_days >= 1 /\ ap_crashes \in Nat
      /\ ap_bought \in [Items \X AutopilotStrategies -> Nat]
      /\ ap_snapshots \in [Items -> Snapshots \cup {Missing}]
      /\ market_history \in [Items -> Snapshots \cup {Missing}]
  BY <1>1 DEF BuysExplained, AutopilotTypeOK
<1>3. AutopilotTypeOK'
  <2>1. ap_days' \in 0 .. SimulationDays
    BY <1>1, <1>2, AutopilotAssumption DEF AutopilotAssumption
  <2>2. /\ market_history' \in [Items -> Snapshots \cup {Missing}]
        /\ ap_bought' \in [Items \X AutopilotStrategies -> Nat]
    BY <1>1, <1>2
  <2>3. ap_pc' \in {"publish", "fetch"}
    BY <1>1
  <2> QED BY <1>1, <2>1, <2>2, <2>3 DEF AutopilotTypeOK, ap_store
<1>4. BooksBalance'
  BY <1>1 DEF BooksBalance, ap_store
<1>5. BuysExplained'
  <2>1. ASSUME NEW i \in Items, NEW strategy \in AutopilotStrategies
        PROVE  ap_bought'[<<i, strategy>>] <= ap_crashes
    <3>1. ap_bought'[<<i, strategy>>] = IF ap_snapshots[i] = Missing THEN ap_bought[<<i, strategy>>] ELSE 0
      BY <1>1
    <3>2. CASE ap_snapshots[i] = Missing
      BY <1>1, <1>2, <3>1, <3>2 DEF BuysExplained
    <3>3. CASE ap_snapshots[i] # Missing
      BY <1>2, <3>1, <3>3
    <3> QED BY <3>2, <3>3
  <2>2. ap_pc' # "trade" /\ ap_pc' \notin {"trade", "rebalance", "record"}
    BY <1>1
  <2>3. ap_pc' = "fetch" => ap_days' >= 1
    BY <1>1, <1>2, AutopilotAssumption DEF AutopilotAssumption
  <2>4. ap_crashes' = ap_crashes
    BY <1>1
  <2> QED BY <2>1, <2>2, <2>3, <2>4 DEF BuysExplained
<1> QED BY <1>3, <1>4, <1>5 DEF AutopilotHolds

LEMMA EndKeepsAccounts ==
    AutopilotHolds /\ (FetchMarketsFails \/ PublishDailySummary \/ AutopilotCrash) => AutopilotHolds'
<1> SUFFICES ASSUME AutopilotHolds, FetchMarketsFails \/ PublishDailySummary \/ AutopilotCrash
             PROVE AutopilotHolds'
  OBVIOUS
<1>1. /\ AutopilotTypeOK /\ BooksBalance /\ BuysExplained
      /\ ap_pc' = "idle" /\ ap_days' = 0
      /\ ap_snapshots' = [i \in Items |-> Missing] /\ ap_signals' = <<>>
      /\ UNCHANGED <<ap_store, market_history, ap_bought, ap_cycles>>
  BY DEF AutopilotHolds, EndAutopilot, FetchMarketsFails, PublishDailySummary, AutopilotCrash
<1>2. /\ ap_crashes' \in 0 .. MaxAutopilotCrashes /\ ap_crashes \in Nat /\ ap_crashes' \in Nat
      /\ \/ ap_crashes' = ap_crashes /\ ap_pc \in {"fetch", "publish"}
         \/ ap_crashes' = ap_crashes + 1
  BY <1>1, AutopilotAssumption
  DEF AutopilotTypeOK, AutopilotAssumption, AutopilotCrash, FetchMarketsFails, PublishDailySummary
<1>3. AutopilotTypeOK'
  BY <1>1, <1>2, AutopilotAssumption DEF AutopilotTypeOK, AutopilotAssumption, ap_store
<1>4. BooksBalance'
  BY <1>1 DEF BooksBalance, ap_store
<1>5. BuysExplained'
  <2>1. \A i \in Items, strategy \in AutopilotStrategies : ap_bought[<<i, strategy>>] \in Nat
    BY <1>1 DEF AutopilotTypeOK
  <2>2. ASSUME NEW i \in Items, NEW strategy \in AutopilotStrategies
        PROVE  ap_bought[<<i, strategy>>] <= ap_crashes'
    <3> DEFINE n == ap_bought[<<i, strategy>>]
    <3>1. n \in Nat
      BY <2>1
    <3>2. /\ n <= ap_crashes \/ n <= ap_crashes + 1
          /\ ap_pc \in {"fetch", "publish"} => n <= ap_crashes
      BY <1>1 DEF BuysExplained
    <3> HIDE DEF n
    <3>3. n <= ap_crashes'
      BY <1>2, <3>1, <3>2
    <3> QED BY <3>3 DEF n
  <2> QED BY <1>1, <2>2 DEF BuysExplained
<1> QED BY <1>3, <1>4, <1>5 DEF AutopilotHolds

LEMMA AutopilotStep == AutopilotHolds /\ [AutopilotNext]_ap_vars => AutopilotHolds'
<1> SUFFICES ASSUME AutopilotHolds, [AutopilotNext]_ap_vars PROVE AutopilotHolds'
  OBVIOUS
<1>1. AutopilotTypeOK /\ BooksBalance /\ BuysExplained
  BY DEF AutopilotHolds
<1>2. CASE StartAutopilot
  <2>1. AutopilotTypeOK'
    BY <1>1, <1>2, AutopilotAssumption DEF StartAutopilot, AutopilotTypeOK, AutopilotAssumption, ap_store
  <2>2. BooksBalance'
    BY <1>1, <1>2 DEF StartAutopilot, BooksBalance, ap_store
  <2>3. BuysExplained'
    BY <1>1, <1>2, AutopilotAssumption DEF StartAutopilot, BuysExplained, AutopilotAssumption
  <2> QED BY <2>1, <2>2, <2>3 DEF AutopilotHolds
<1>3. CASE FetchMarkets
  BY <1>3, FetchKeepsAccounts
<1>4. CASE FetchMarketsFails \/ PublishDailySummary \/ AutopilotCrash
  BY <1>4, EndKeepsAccounts
<1>5. CASE ExecutePaperTrade
  BY <1>5, TradeKeepsAccounts
<1>6. CASE TradesExecuted
  <2>1. AutopilotTypeOK'
    BY <1>1, <1>6 DEF TradesExecuted, AutopilotTypeOK, ap_store
  <2>2. BooksBalance'
    BY <1>1, <1>6 DEF TradesExecuted, BooksBalance, ap_store
  <2>3. BuysExplained'
    BY <1>1, <1>6 DEF TradesExecuted, BuysExplained
  <2> QED BY <2>1, <2>2, <2>3 DEF AutopilotHolds
<1>7. CASE RebalanceTakeProfit
  BY <1>7, RebalanceKeepsAccounts
<1>8. CASE RecordMarketSnapshots
  BY <1>8, RecordKeepsAccounts
<1>9. CASE UNCHANGED ap_vars
  BY <1>1, <1>9 DEF AutopilotHolds, AutopilotTypeOK, BooksBalance, BuysExplained, Costs, ap_vars, ap_store
<1> QED BY <1>2, <1>3, <1>4, <1>5, <1>6, <1>7, <1>8, <1>9 DEF AutopilotNext

\* However the autopilot's cycles and crashes fall between its transactions, the
\* cash and what the open positions cost are the starting capital and the profit
\* of its sales; and a strategy buys a market once for each snapshot recorded of
\* it, and once more for each crash (storage.py, strategy.py and __main__.py of
\* strategies/polymarket_autopilot).
THEOREM AutopilotBooks == ProgramsSpec => []AutopilotAccounts
<1>1. ProgramsInit => AutopilotHolds
  BY AutopilotHoldsInit DEF ProgramsInit
<1>2. AutopilotHolds /\ [ProgramsNext]_program_vars => AutopilotHolds'
  BY StepOfEach, AutopilotStep
<1>3. AutopilotHolds => AutopilotAccounts
  <2> SUFFICES ASSUME AutopilotHolds PROVE AutopilotAccounts
    OBVIOUS
  <2>1. AutopilotTypeOK /\ BooksBalance /\ BuysExplained
    BY DEF AutopilotHolds
  <2>2. ASSUME NEW k \in Items \X AutopilotStrategies
        PROVE  ap_bought[k] <= 1 + ap_crashes
    <3>1. k = <<k[1], k[2]>> /\ k[1] \in Items /\ k[2] \in AutopilotStrategies
      OBVIOUS
    <3>2. ap_bought[k] \in Nat /\ ap_crashes \in Nat
      BY <2>1 DEF AutopilotTypeOK
    <3>3. ap_bought[<<k[1], k[2]>>] <= ap_crashes + 1 \/ ap_bought[<<k[1], k[2]>>] <= ap_crashes
      BY <2>1, <3>1 DEF BuysExplained
    <3> QED BY <3>1, <3>2, <3>3
  <2> QED BY <2>1, <2>2 DEF AutopilotAccounts, OneBuyPerSnapshot
<1> QED BY <1>1, <1>2, <1>3, PTL DEF ProgramsSpec

-----------------------------------------------------------------------------
(* Rate limits: sums over a window of ticks *)

LEMMA RlNumbers ==
    /\ RlWindow \in Nat /\ RlWindow > 0 /\ RlLimit \in Nat /\ RlLimit > 0
    /\ Cardinality(RlThreads) \in Nat /\ \A k \in RlTicks : k \in Nat
BY RateLimitsAssumption, FS_CardinalityType DEF RateLimitsAssumption, RlTicks

WindowAt(k) == {j \in RlTicks : k <= j /\ j < k + RlWindow}

LEMMA WindowSummable ==
    ASSUME NEW history \in [RlTicks -> Nat], NEW k \in RlTicks
    PROVE  /\ Summable(history, WindowAt(k))
           /\ RlDuring(history, k) = SumFunctionOnSet(history, WindowAt(k))
           /\ RlDuring(history, k) \in Nat
<1>1. IsFiniteSet(RlTicks)
  BY FS_Interval, RateLimitsAssumption DEF RateLimitsAssumption, RlTicks
<1>2. WindowAt(k) \subseteq RlTicks /\ IsFiniteSet(WindowAt(k))
  BY <1>1, FS_Subset DEF WindowAt
<1>3. Summable(history, WindowAt(k))
  BY <1>2 DEF Summable
<1>4. RlDuring(history, k) = SumFunctionOnSet(history, WindowAt(k))
  BY DEF RlDuring, WindowAt
<1>5. SumFunctionOnSet(history, WindowAt(k)) >= 0
  <2> DEFINE zero == [j \in WindowAt(k) |-> 0]
  <2>1. Summable(zero, WindowAt(k)) /\ \A j \in WindowAt(k) : zero[j] = 0 /\ zero[j] <= history[j]
    BY <1>2 DEF Summable
  <2> HIDE DEF zero
  <2> QED BY <1>3, <2>1, SetSumZero, SetSumMonotonic
<1>6. SumFunctionOnSet(history, WindowAt(k)) \in Int
  BY <1>3, SetSumDef
<1> QED BY <1>3, <1>4, <1>5, <1>6

LEMMA WindowQuiet ==
    ASSUME NEW history \in [RlTicks -> Nat], NEW k \in RlTicks,
           \A j \in RlTicks : j >= k => history[j] = 0
    PROVE  RlDuring(history, k) = 0
<1>1. \A j \in WindowAt(k) : history[j] = 0
  BY DEF WindowAt
<1> QED BY <1>1, WindowSummable, SetSumZero

\* One more event at a tick is one more in the windows around it.
LEMMA WindowBumped ==
    ASSUME NEW history \in [RlTicks -> Nat], NEW now \in RlTicks, NEW k \in RlTicks
    PROVE  RlDuring([history EXCEPT ![now] = @ + 1], k)
              = RlDuring(history, k) + (IF k <= now /\ now < k + RlWindow THEN 1 ELSE 0)
<1> DEFINE more == [history EXCEPT ![now] = @ + 1]
<1>1. /\ more \in [RlTicks -> Nat] /\ more[now] = history[now] + 1 /\ history[now] \in Nat
      /\ \A j \in RlTicks : j # now => more[j] = history[j]
  OBVIOUS
<1> HIDE DEF more
<1>2. /\ Summable(more, WindowAt(k)) /\ Summable(history, WindowAt(k))
      /\ RlDuring(more, k) = SumFunctionOnSet(more, WindowAt(k))
      /\ RlDuring(history, k) = SumFunctionOnSet(history, WindowAt(k))
      /\ RlDuring(history, k) \in Nat
  BY <1>1, WindowSummable
<1>3. WindowAt(k) \subseteq RlTicks /\ (now \in WindowAt(k) <=> (k <= now /\ now < k + RlWindow))
  BY DEF WindowAt
<1>4. CASE now \in WindowAt(k)
  <2>1. \A j \in WindowAt(k) : j # now => more[j] = history[j]
    BY <1>1, <1>3
  <2>2. SumFunctionOnSet(more, WindowAt(k)) = SumFunctionOnSet(history, WindowAt(k)) + more[now] - history[now]
    BY <1>2, <1>4, <2>1, SetSumUpdate
  <2>3. RlDuring(more, k) = RlDuring(history, k) + 1
    BY <1>1, <1>2, <2>2
  <2> QED BY <1>3, <1>4, <2>3 DEF more
<1>5. CASE now \notin WindowAt(k)
  <2>1. \A j \in WindowAt(k) : more[j] = history[j]
    BY <1>1, <1>3, <1>5
  <2>2. RlDuring(more, k) = RlDuring(history, k)
    BY <1>2, <2>1, SetSumSame
  <2> QED BY <1>2, <1>3, <1>5, <2>2 DEF more
<1> QED BY <1>4, <1>5

-----------------------------------------------------------------------------
(* Rate limits: the grants *)

\* What was granted after the limiter's window began is in its count, what was
\* granted within one window's length before, in its count and one limit more.
GrantsCounted(granted, started, count) ==
    \A k \in RlTicks :
        /\ k > started => RlDuring(granted, k) <= count
        /\ k + RlWindow > started => RlDuring(granted, k) <= RlLimit + count
        /\ RlDuring(granted, k) <= 2 * RlLimit

\* A new window, begun after every grant and no earlier than the last one ended.
LEMMA WindowRenewed ==
    ASSUME NEW granted \in [RlTicks -> Nat], NEW started \in RlTicks, NEW count \in 0 .. RlLimit,
           NEW next \in RlTicks, next >= started + RlWindow,
           GrantsCounted(granted, started, count), \A j \in RlTicks : j > next => granted[j] = 0
    PROVE  GrantsCounted(granted, next, 0)
<1> SUFFICES ASSUME NEW k \in RlTicks
             PROVE  /\ k > next => RlDuring(granted, k) <= 0
                    /\ k + RlWindow > next => RlDuring(granted, k) <= RlLimit + 0
                    /\ RlDuring(granted, k) <= 2 * RlLimit
  BY DEF GrantsCounted
<1> DEFINE n == RlDuring(granted, k)
<1>1. /\ n \in Nat /\ n <= 2 * RlLimit
      /\ k > started => n <= count
  BY WindowSummable DEF GrantsCounted
<1>2. k > next => n = 0
  <2>1. k > next => \A j \in RlTicks : j >= k => granted[j] = 0
    BY RlNumbers
  <2> QED BY <2>1, WindowQuiet
<1>3. k \in Int /\ next \in Int /\ started \in Int /\ RlWindow \in Nat /\ RlLimit \in Nat /\ count <= RlLimit /\ count \in Nat
  BY RateLimitsAssumption DEF RateLimitsAssumption, RlTicks
<1> HIDE DEF n
<1>4. k + RlWindow > next => n <= RlLimit
  BY <1>1, <1>3
<1>5. /\ k > next => n <= 0
      /\ k + RlWindow > next => n <= RlLimit + 0
      /\ n <= 2 * RlLimit
  BY <1>1, <1>2, <1>3, <1>4
<1> QED BY <1>5 DEF n

LEMMA GrantCounted ==
    ASSUME NEW granted \in [RlTicks -> Nat], NEW started \in RlTicks, NEW count \in 0 .. RlLimit,
           NEW now \in RlTicks, now >= started, count < RlLimit,
           GrantsCounted(granted, started, count)
    PROVE  GrantsCounted([granted EXCEPT ![now] = @ + 1], started, count + 1)
<1> DEFINE more == [granted EXCEPT ![now] = @ + 1]
<1> SUFFICES ASSUME NEW k \in RlTicks
             PROVE  /\ k > started => RlDuring(more, k) <= count + 1
                    /\ k + RlWindow > started => RlDuring(more, k) <= RlLimit + (count + 1)
                    /\ RlDuring(more, k) <= 2 * RlLimit
  BY DEF GrantsCounted
<1> DEFINE n == RlDuring(granted, k)
           m == RlDuring(more, k)
<1>1. /\ n \in Nat /\ n <= 2 * RlLimit
      /\ k > started => n <= count
      /\ k + RlWindow > started => n <= RlLimit + count
  BY WindowSummable DEF GrantsCounted
<1>2. m = n + (IF k <= now /\ now < k + RlWindow THEN 1 ELSE 0)
  BY WindowBumped
<1>3. /\ k \in Int /\ now \in Int /\ started \in Int /\ RlWindow \in Nat /\ RlLimit \in Nat
      /\ count <= RlLimit /\ count \in Nat
  BY RateLimitsAssumption DEF RateLimitsAssumption, RlTicks
<1> HIDE DEF n, m, more
<1>4. /\ k > started => m <= count + 1
      /\ k + RlWindow > started => m <= RlLimit + (count + 1)
      /\ m <= 2 * RlLimit
  BY <1>1, <1>2, <1>3
<1> QED BY <1>4 DEF m

-----------------------------------------------------------------------------
(* Rate limits: the requests sent *)

\* What was sent in a window was granted in it, but for one request of each
\* thread; while the window lasts, each request still to be sent counts as sent.
SentBehind(sent, granted, now, waiting) ==
    \A k \in RlTicks :
        /\ RlDuring(sent, k) <= RlDuring(granted, k) + Cardinality(RlThreads)
        /\ now < k + RlWindow =>
              RlDuring(sent, k) + waiting <= RlDuring(granted, k) + Cardinality(RlThreads)

LEMMA GrantWaits ==
    ASSUME NEW sent \in [RlTicks -> Nat], NEW granted \in [RlTicks -> Nat], NEW now \in RlTicks,
           NEW waiting \in Nat, waiting + 1 <= Cardinality(RlThreads),
           \A j \in RlTicks : j > now => sent[j] = 0,
           SentBehind(sent, granted, now, waiting)
    PROVE  SentBehind(sent, [granted EXCEPT ![now] = @ + 1], now, waiting + 1)
<1> DEFINE more == [granted EXCEPT ![now] = @ + 1]
           N == Cardinality(RlThreads)
<1> SUFFICES ASSUME NEW k \in RlTicks
             PROVE  /\ RlDuring(sent, k) <= RlDuring(more, k) + N
                    /\ now < k + RlWindow => RlDuring(sent, k) + (waiting + 1) <= RlDuring(more, k) + N
  BY DEF SentBehind
<1> DEFINE s == RlDuring(sent, k)
           g == RlDuring(granted, k)
           m == RlDuring(more, k)
<1>1. s \in Nat /\ g \in Nat /\ s <= g + N /\ (now < k + RlWindow => s + waiting <= g + N)
  BY WindowSummable DEF SentBehind
<1>2. m = g + (IF k <= now /\ now < k + RlWindow THEN 1 ELSE 0)
  BY WindowBumped
<1>3. k > now => s = 0
  BY WindowQuiet, RlNumbers
<1>4. k \in Nat /\ now \in Nat /\ RlWindow \in Nat /\ N \in Nat
  BY RlNumbers
<1> HIDE DEF s, g, m, N, more
<1>5. s <= m + N /\ (now < k + RlWindow => s + (waiting + 1) <= m + N)
  BY <1>1, <1>2, <1>3, <1>4 DEF N
<1> QED BY <1>5 DEF s, m

LEMMA SendCounted ==
    ASSUME NEW sent \in [RlTicks -> Nat], NEW granted \in [RlTicks -> Nat], NEW now \in RlTicks,
           NEW waiting \in Nat, waiting > 0,
           SentBehind(sent, granted, now, waiting)
    PROVE  SentBehind([sent EXCEPT ![now] = @ + 1], granted, now, waiting - 1)
<1> DEFINE more == [sent EXCEPT ![now] = @ + 1]
           N == Cardinality(RlThreads)
<1> SUFFICES ASSUME NEW k \in RlTicks
             PROVE  /\ RlDuring(more, k) <= RlDuring(granted, k) + N
                    /\ now < k + RlWindow => RlDuring(more, k) + (waiting - 1) <= RlDuring(granted, k) + N
  BY DEF SentBehind
<1> DEFINE s == RlDuring(sent, k)
           g == RlDuring(granted, k)
           m == RlDuring(more, k)
<1>1. s \in Nat /\ g \in Nat /\ s <= g + N /\ (now < k + RlWindow => s + waiting <= g + N)
  BY WindowSummable DEF SentBehind
<1>2. m = s + (IF k <= now /\ now < k + RlWindow THEN 1 ELSE 0)
  BY WindowBumped
<1>3. k \in Nat /\ now \in Nat /\ RlWindow \in Nat /\ N \in Nat
  BY RlNumbers
<1> HIDE DEF s, g, m, N, more
<1>4. m <= g + N /\ (now < k + RlWindow => m + (waiting - 1) <= g + N)
  BY <1>1, <1>2, <1>3
<1> QED BY <1>4 DEF g, m

-----------------------------------------------------------------------------
(* Rate limits: the limiter and its callers *)

\* A thread that decides read the clock when it took the lock, and nothing has
\* been granted since; one that sleeps wakes when the window is over.
CallerHolds(t) ==
    /\ rl_pc[t] \in {"decide", "asleep", "count"} <=> rl_owner = t
    /\ rl_pc[t] = "decide" =>
          rl_time[t] <= rl_clock /\ \A j \in RlTicks : j > rl_time[t] => rl_granted[j] = 0
    /\ rl_pc[t] = "asleep" => rl_time[t] >= rl_started + RlWindow
    /\ rl_pc[t] = "count" => rl_count < RlLimit
    /\ rl_pc[t] = "backoff" => rl_attempt[t] < RlAttempts

ToSend == {t \in RlThreads : rl_pc[t] = "send"}

LimiterHolds ==
    /\ RateLimitsTypeOK
    /\ rl_started <= rl_clock
    /\ \A j \in RlTicks : j > rl_clock => rl_granted[j] = 0 /\ rl_sent[j] = 0
    /\ \A t \in RlThreads : CallerHolds(t)
    /\ GrantsCounted(rl_granted, rl_started, rl_count)
    /\ SentBehind(rl_sent, rl_granted, rl_clock, Cardinality(ToSend))

LEMMA ToSendFinite ==
    /\ IsFiniteSet(ToSend) /\ Cardinality(ToSend) \in Nat /\ Cardinality(ToSend) <= Cardinality(RlThreads)
    /\ \A t \in RlThreads \ ToSend : /\ Cardinality(ToSend \cup {t}) = Cardinality(ToSend) + 1
                                     /\ Cardinality(ToSend) + 1 <= Cardinality(RlThreads)
    /\ \A t \in ToSend : Cardinality(ToSend) > 0 /\ Cardinality(ToSend \ {t}) = Cardinality(ToSend) - 1
<1>1. IsFiniteSet(RlThreads) /\ ToSend \subseteq RlThreads
  BY RateLimitsAssumption DEF RateLimitsAssumption, ToSend
<1>2. IsFiniteSet(ToSend) /\ Cardinality(ToSend) \in Nat /\ Cardinality(ToSend) <= Cardinality(RlThreads)
  BY <1>1, FS_Subset, FS_CardinalityType
<1>3. ASSUME NEW t \in RlThreads \ ToSend
      PROVE  /\ Cardinality(ToSend \cup {t}) = Cardinality(ToSend) + 1
             /\ Cardinality(ToSend) + 1 <= Cardinality(RlThreads)
  <2>1. Cardinality(ToSend \cup {t}) = Cardinality(ToSend) + 1
    BY <1>2, FS_AddElement
  <2>2. ToSend \cup {t} \subseteq RlThreads
    BY <1>1
  <2>3. Cardinality(ToSend \cup {t}) <= Cardinality(RlThreads)
    BY <1>1, <2>2, FS_Subset
  <2> QED BY <2>1, <2>3
<1>4. ASSUME NEW t \in ToSend
      PROVE  Cardinality(ToSend) > 0 /\ Cardinality(ToSend \ {t}) = Cardinality(ToSend) - 1
  <2>1. Cardinality(ToSend) # 0
    BY <1>2, FS_EmptySet
  <2>2. Cardinality(ToSend \ {t}) = Cardinality(ToSend) - 1
    BY <1>2, FS_RemoveElement
  <2> QED BY <1>2, <2>1, <2>2
<1> QED BY <1>2, <1>3, <1>4

LEMMA LimiterInit == RateLimitsInit => LimiterHolds
<1> SUFFICES ASSUME RateLimitsInit PROVE LimiterHolds
  OBVIOUS
<1>1. RateLimitsTypeOK
  BY RateLimitsAssumption DEF RateLimitsAssumption, RateLimitsInit, RateLimitsTypeOK, RlTicks
<1>2. \A k \in RlTicks : RlDuring(rl_granted, k) = 0 /\ RlDuring(rl_sent, k) = 0
  BY <1>1, WindowQuiet DEF RateLimitsInit, RateLimitsTypeOK
<1>3. ToSend = {}
  BY DEF RateLimitsInit, ToSend
<1>4. Cardinality(ToSend) = 0
  BY <1>3, FS_EmptySet
<1>5. GrantsCounted(rl_granted, rl_started, rl_count)
  BY <1>2, RlNumbers DEF GrantsCounted, RateLimitsInit
<1>6. SentBehind(rl_sent, rl_granted, rl_clock, Cardinality(ToSend))
  BY <1>2, <1>4, RlNumbers DEF SentBehind
<1>7. \A t \in RlThreads : CallerHolds(t)
  BY RateLimitsAssumption DEF RateLimitsAssumption, RateLimitsInit, CallerHolds
<1> QED BY <1>1, <1>5, <1>6, <1>7 DEF LimiterHolds, RateLimitsInit

LEMMA LockKeepsQuota == ASSUME LimiterHolds, NEW t \in RlThreads, LockLimiter(t) PROVE LimiterHolds'
<1>1. /\ RateLimitsTypeOK /\ rl_pc[t] = "acquire" /\ rl_owner = RlNobody
      /\ rl_owner' = t /\ rl_time' = [rl_time EXCEPT ![t] = rl_clock]
      /\ rl_pc' = [rl_pc EXCEPT ![t] = "decide"]
      /\ UNCHANGED <<rl_clock, rl_started, rl_count, rl_attempt, rl_granted, rl_sent>>
  BY DEF LimiterHolds, LockLimiter, RlGo
<1>2. RateLimitsTypeOK'
  BY <1>1, RlNumbers DEF RateLimitsTypeOK
<1>3. ToSend' = ToSend
  BY <1>1, <1>2 DEF ToSend, RateLimitsTypeOK
<1>4. /\ rl_pc'[t] = "decide" /\ rl_time'[t] = rl_clock
      /\ \A u \in RlThreads : u # t => rl_pc'[u] = rl_pc[u] /\ rl_time'[u] = rl_time[u]
  BY <1>1 DEF RateLimitsTypeOK
<1>5. ASSUME NEW u \in RlThreads PROVE CallerHolds(u)'
  <2>1. CASE u = t
    BY <1>1, <1>4, <2>1, RlNumbers DEF LimiterHolds, CallerHolds, RateLimitsTypeOK
  <2>2. CASE u # t
    <3>1. CallerHolds(u)
      BY DEF LimiterHolds
    <3> QED BY <1>1, <1>4, <2>2, <3>1, RateLimitsAssumption DEF CallerHolds, RateLimitsAssumption
  <2> QED BY <2>1, <2>2
<1> QED BY <1>1, <1>2, <1>3, <1>5 DEF LimiterHolds

LEMMA DecideKeepsQuota == ASSUME LimiterHolds, NEW t \in RlThreads, DecideGrant(t) PROVE LimiterHolds'
<1> DEFINE now == rl_time[t]
           over == WindowOver(t)
           count == IF over THEN 0 ELSE rl_count
           elapsed == IF over THEN 0 ELSE now - rl_started
           start == IF over THEN now ELSE rl_started
           wake == rl_clock + RlWindow - elapsed
<1>1. /\ RateLimitsTypeOK /\ rl_pc[t] = "decide" /\ rl_started' = start /\ rl_count' = count
      /\ \/ /\ count >= RlLimit
            /\ rl_time' = [rl_time EXCEPT ![t] = wake] /\ rl_pc' = [rl_pc EXCEPT ![t] = "asleep"]
         \/ /\ count < RlLimit
            /\ rl_time' = rl_time /\ rl_pc' = [rl_pc EXCEPT ![t] = "count"]
      /\ UNCHANGED <<rl_clock, rl_owner, rl_attempt, rl_granted, rl_sent>>
  <2>1. rl_count \in Nat
    BY DEF LimiterHolds, RateLimitsTypeOK
  <2> QED BY <2>1, RlNumbers DEF LimiterHolds, DecideGrant, RlGo
<1>2. /\ CallerHolds(t) /\ rl_owner = t /\ now <= rl_clock
      /\ \A j \in RlTicks : j > now => rl_granted[j] = 0
  BY <1>1 DEF LimiterHolds, CallerHolds
<1>3. /\ rl_clock \in RlTicks /\ rl_started \in RlTicks /\ rl_count \in 0 .. RlLimit /\ now \in Nat
      /\ rl_granted \in [RlTicks -> Nat] /\ rl_started <= rl_clock
      /\ now \in RlTicks
  <2>1. rl_clock \in RlTicks /\ rl_started \in RlTicks /\ rl_count \in 0 .. RlLimit /\ now \in Nat
    BY <1>1 DEF RateLimitsTypeOK
  <2>2. now \in RlTicks
    BY <1>2, <2>1, RateLimitsAssumption DEF RlTicks, RateLimitsAssumption
  <2> QED BY <1>1, <2>1, <2>2 DEF RateLimitsTypeOK, LimiterHolds
<1>4. over <=> now >= rl_started + RlWindow
  BY <1>3, RlNumbers DEF WindowOver
<1> HIDE DEF over, now
<1>5. /\ start \in RlTicks /\ start <= rl_clock /\ count \in 0 .. RlLimit
      /\ wake \in Nat /\ wake >= start + RlWindow
  BY <1>2, <1>3, <1>4, RlNumbers
<1>6. GrantsCounted(rl_granted, start, count)
  <2>0. GrantsCounted(rl_granted, rl_started, rl_count)
    BY DEF LimiterHolds
  <2>1. CASE over
    <3>1. GrantsCounted(rl_granted, now, 0)
      BY <1>2, <1>3, <1>4, <2>0, <2>1, WindowRenewed
    <3> QED BY <2>1, <3>1
  <2>2. CASE ~over
    BY <2>0, <2>2
  <2> QED BY <2>1, <2>2
<1> HIDE DEF start, wake, count
<1>7. RateLimitsTypeOK'
  <2>1. rl_time' \in [RlThreads -> Nat] /\ rl_pc' \in [RlThreads ->
           {"acquire", "decide", "asleep", "count", "send", "backoff", "returned", "raised"}]
    BY <1>1, <1>5 DEF RateLimitsTypeOK
  <2> QED BY <1>1, <1>5, <2>1 DEF RateLimitsTypeOK
<1>8. ToSend' = ToSend
  BY <1>1 DEF ToSend, RateLimitsTypeOK
<1>9. \/ rl_pc'[t] = "count" /\ count < RlLimit
      \/ rl_pc'[t] = "asleep" /\ rl_time'[t] = wake
  BY <1>1, <1>5 DEF RateLimitsTypeOK
<1>11. \A u \in RlThreads : u # t => rl_pc'[u] = rl_pc[u] /\ rl_time'[u] = rl_time[u]
  BY <1>1 DEF RateLimitsTypeOK
<1>10. ASSUME NEW u \in RlThreads PROVE CallerHolds(u)'
  <2>1. CASE u = t
    BY <1>1, <1>2, <1>5, <1>9, <2>1 DEF CallerHolds
  <2>2. CASE u # t
    <3>1. CallerHolds(u)
      BY DEF LimiterHolds
    <3> QED BY <1>1, <1>2, <1>11, <2>2, <3>1 DEF CallerHolds
  <2> QED BY <2>1, <2>2
<1> QED BY <1>1, <1>5, <1>6, <1>7, <1>8, <1>10 DEF LimiterHolds

LEMMA WindowKeepsQuota == ASSUME LimiterHolds, NEW t \in RlThreads, NewWindow(t) PROVE LimiterHolds'
<1>1. /\ RateLimitsTypeOK /\ rl_pc[t] = "asleep" /\ rl_clock >= rl_time[t]
      /\ rl_started' = rl_clock /\ rl_count' = 0 /\ rl_pc' = [rl_pc EXCEPT ![t] = "count"]
      /\ UNCHANGED <<rl_clock, rl_owner, rl_time, rl_attempt, rl_granted, rl_sent>>
  BY DEF LimiterHolds, NewWindow, RlGo
<1>2. rl_owner = t /\ rl_time[t] >= rl_started + RlWindow
  BY <1>1 DEF LimiterHolds, CallerHolds
<1>3. /\ rl_clock \in RlTicks /\ rl_started \in RlTicks /\ rl_count \in 0 .. RlLimit /\ rl_time[t] \in Nat
      /\ rl_granted \in [RlTicks -> Nat]
  BY <1>1 DEF RateLimitsTypeOK
<1>4. GrantsCounted(rl_granted, rl_clock, 0)
  <2>1. rl_clock >= rl_started + RlWindow
    BY <1>1, <1>2, <1>3, RlNumbers
  <2> QED BY <1>3, <2>1, WindowRenewed DEF LimiterHolds
<1>5. RateLimitsTypeOK'
  BY <1>1, RlNumbers DEF RateLimitsTypeOK
<1>6. ToSend' = ToSend
  BY <1>1 DEF ToSend, RateLimitsTypeOK
<1>7. rl_pc'[t] = "count" /\ \A u \in RlThreads : u # t => rl_pc'[u] = rl_pc[u]
  BY <1>1 DEF RateLimitsTypeOK
<1>8. ASSUME NEW u \in RlThreads PROVE CallerHolds(u)'
  <2>1. CASE u = t
    BY <1>1, <1>2, <1>7, <2>1, RlNumbers DEF CallerHolds
  <2>2. CASE u # t
    <3>1. CallerHolds(u)
      BY DEF LimiterHolds
    <3> QED BY <1>1, <1>2, <1>7, <2>2, <3>1 DEF CallerHolds
  <2> QED BY <2>1, <2>2
<1>9. rl_started' <= rl_clock'
  BY <1>1, <1>3, RlNumbers
<1> QED BY <1>1, <1>4, <1>5, <1>6, <1>8, <1>9 DEF LimiterHolds

LEMMA CountKeepsQuota == ASSUME LimiterHolds, NEW t \in RlThreads, CountRequest(t) PROVE LimiterHolds'
<1> DEFINE more == [rl_granted EXCEPT ![rl_clock] = @ + 1]
<1>1. /\ RateLimitsTypeOK /\ rl_pc[t] = "count"
      /\ rl_count' = rl_count + 1 /\ rl_owner' = RlNobody /\ rl_pc' = [rl_pc EXCEPT ![t] = "send"]
      /\ rl_granted' = more
      /\ UNCHANGED <<rl_clock, rl_started, rl_time, rl_attempt, rl_sent>>
  BY DEF LimiterHolds, CountRequest, RlGo
<1>2. rl_owner = t /\ rl_count < RlLimit
  BY <1>1 DEF LimiterHolds, CallerHolds
<1>3. /\ rl_clock \in RlTicks /\ rl_started \in RlTicks /\ rl_count \in 0 .. RlLimit
      /\ rl_granted \in [RlTicks -> Nat] /\ rl_sent \in [RlTicks -> Nat]
      /\ rl_started <= rl_clock
  BY <1>1 DEF RateLimitsTypeOK, LimiterHolds
<1>4. /\ more \in [RlTicks -> Nat] /\ \A j \in RlTicks : j # rl_clock => more[j] = rl_granted[j]
  BY <1>3
<1>5. GrantsCounted(more, rl_started, rl_count + 1)
  BY <1>2, <1>3, GrantCounted DEF LimiterHolds
<1>6. rl_pc'[t] = "send" /\ \A u \in RlThreads : u # t => rl_pc'[u] = rl_pc[u]
  BY <1>1 DEF RateLimitsTypeOK
<1>7. t \notin ToSend /\ ToSend' = ToSend \cup {t}
  BY <1>1, <1>6 DEF ToSend
<1>8. SentBehind(rl_sent, more, rl_clock, Cardinality(ToSend'))
  <2> DEFINE waiting == Cardinality(ToSend)
  <2>1. /\ waiting \in Nat /\ waiting + 1 <= Cardinality(RlThreads)
        /\ Cardinality(ToSend \cup {t}) = waiting + 1
    BY <1>7, ToSendFinite
  <2>2. SentBehind(rl_sent, rl_granted, rl_clock, waiting)
    BY DEF LimiterHolds
  <2>3. \A j \in RlTicks : j > rl_clock => rl_sent[j] = 0
    BY DEF LimiterHolds
  <2> HIDE DEF waiting
  <2>4. SentBehind(rl_sent, more, rl_clock, waiting + 1)
    BY <1>3, <2>1, <2>2, <2>3, GrantWaits
  <2> HIDE DEF more
  <2> QED BY <1>7, <2>1, <2>4
<1> HIDE DEF more
<1>9. RateLimitsTypeOK'
  <2>1. rl_count' \in 0 .. RlLimit
    BY <1>1, <1>2, <1>3, RlNumbers
  <2> QED BY <1>1, <1>4, <2>1 DEF RateLimitsTypeOK
<1>10. ASSUME NEW u \in RlThreads PROVE CallerHolds(u)'
  <2>0. RlNobody # u
    BY RateLimitsAssumption DEF RateLimitsAssumption
  <2>1. CASE u = t
    BY <1>1, <1>6, <2>0, <2>1 DEF CallerHolds
  <2>2. CASE u # t
    <3>1. CallerHolds(u)
      BY DEF LimiterHolds
    <3>2. rl_pc'[u] \notin {"decide", "asleep", "count"}
      BY <1>2, <1>6, <2>2, <3>1 DEF CallerHolds
    <3> QED BY <1>1, <1>6, <2>0, <2>2, <3>1, <3>2 DEF CallerHolds
  <2> QED BY <2>1, <2>2
<1>11. \A j \in RlTicks : j > rl_clock' => rl_granted'[j] = 0 /\ rl_sent'[j] = 0
  BY <1>1, <1>3, <1>4, RlNumbers DEF LimiterHolds
<1> QED BY <1>1, <1>3, <1>5, <1>8, <1>9, <1>10, <1>11 DEF LimiterHolds

\* A request that was sent: its thread waits, or its call is over.
LEMMA SendKeepsQuota ==
    ASSUME LimiterHolds, NEW t \in RlThreads, SendOnce(t) \/ SendTransient(t)
    PROVE  LimiterHolds'
<1> DEFINE more == [rl_sent EXCEPT ![rl_clock] = @ + 1]
<1>1. /\ RateLimitsTypeOK /\ rl_pc[t] = "send" /\ rl_sent' = more
      /\ UNCHANGED <<rl_clock, rl_started, rl_count, rl_owner, rl_granted, rl_attempt>>
  BY DEF LimiterHolds, SendOnce, SendTransient, RlSend
<1>2. /\ rl_clock \in RlTicks /\ rl_granted \in [RlTicks -> Nat] /\ rl_sent \in [RlTicks -> Nat]
      /\ rl_time \in [RlThreads -> Nat]
      /\ rl_pc \in [RlThreads -> {"acquire", "decide", "asleep", "count", "send", "backoff", "returned", "raised"}]
  BY <1>1 DEF RateLimitsTypeOK
<1>3. \E step \in {"returned", "raised", "backoff"}, until \in Nat :
         /\ rl_pc' = [rl_pc EXCEPT ![t] = step] /\ rl_time' = [rl_time EXCEPT ![t] = until]
         /\ step = "backoff" => rl_attempt[t] < RlAttempts
  <2>1. rl_time[t] \in Nat /\ rl_time = [rl_time EXCEPT ![t] = rl_time[t]]
    BY <1>2
  <2>2. CASE SendOnce(t)
    BY <2>1, <2>2 DEF SendOnce, RlGo
  <2>3. CASE SendTransient(t) /\ rl_attempt[t] < RlAttempts
    <3>1. PICK after \in RlRetryAfters :
             rl_time' = [rl_time EXCEPT ![t] = rl_clock + after] /\ rl_pc' = [rl_pc EXCEPT ![t] = "backoff"]
      BY <2>3 DEF SendTransient, RlGo
    <3>2. rl_clock + after \in Nat
      BY <1>2, RlNumbers, RateLimitsAssumption DEF RateLimitsAssumption
    <3> QED BY <2>3, <3>1, <3>2
  <2>4. CASE SendTransient(t) /\ ~(rl_attempt[t] < RlAttempts)
    BY <2>1, <2>4 DEF SendTransient, RlGo
  <2> QED BY <2>2, <2>3, <2>4
<1>4. PICK step \in {"returned", "raised", "backoff"}, until \in Nat :
         /\ rl_pc' = [rl_pc EXCEPT ![t] = step] /\ rl_time' = [rl_time EXCEPT ![t] = until]
         /\ step = "backoff" => rl_attempt[t] < RlAttempts
  BY <1>3
<1>5. /\ rl_pc'[t] = step /\ rl_time' \in [RlThreads -> Nat]
      /\ \A u \in RlThreads : u # t => rl_pc'[u] = rl_pc[u] /\ rl_time'[u] = rl_time[u]
      /\ rl_pc' \in [RlThreads -> {"acquire", "decide", "asleep", "count", "send", "backoff", "returned", "raised"}]
  BY <1>2, <1>4
<1>6. more \in [RlTicks -> Nat] /\ \A j \in RlTicks : j # rl_clock => more[j] = rl_sent[j]
  BY <1>2
<1>7. t \in ToSend /\ ToSend' = ToSend \ {t}
  BY <1>1, <1>4, <1>5 DEF ToSend
<1>8. SentBehind(more, rl_granted, rl_clock, Cardinality(ToSend'))
  <2> DEFINE waiting == Cardinality(ToSend)
  <2>1. waiting \in Nat /\ waiting > 0 /\ Cardinality(ToSend \ {t}) = waiting - 1
    BY <1>7, ToSendFinite
  <2>2. SentBehind(rl_sent, rl_granted, rl_clock, waiting)
    BY DEF LimiterHolds
  <2> HIDE DEF waiting
  <2>3. SentBehind(more, rl_granted, rl_clock, waiting - 1)
    BY <1>2, <2>1, <2>2, SendCounted
  <2> HIDE DEF more
  <2> QED BY <1>7, <2>1, <2>3
<1> HIDE DEF more
<1>9. RateLimitsTypeOK'
  BY <1>1, <1>5, <1>6 DEF RateLimitsTypeOK
<1>10. ASSUME NEW u \in RlThreads PROVE CallerHolds(u)'
  <2>1. CallerHolds(u) /\ CallerHolds(t)
    BY DEF LimiterHolds
  <2>2. CASE u = t
    BY <1>1, <1>4, <1>5, <2>1, <2>2 DEF CallerHolds
  <2>3. CASE u # t
    BY <1>1, <1>5, <2>1, <2>3 DEF CallerHolds
  <2> QED BY <2>2, <2>3
<1>11. \A j \in RlTicks : j > rl_clock' => rl_granted'[j] = 0 /\ rl_sent'[j] = 0
  BY <1>1, <1>2, <1>6, RlNumbers DEF LimiterHolds
<1> QED BY <1>1, <1>8, <1>9, <1>10, <1>11 DEF LimiterHolds

LEMMA CallKeepsQuota ==
    ASSUME LimiterHolds, NEW t \in RlThreads, SendAgain(t) \/ NextCall(t)
    PROVE  LimiterHolds'
<1>1. /\ RateLimitsTypeOK /\ rl_pc[t] \in {"backoff", "returned", "raised"}
      /\ rl_pc' = [rl_pc EXCEPT ![t] = "acquire"]
      /\ UNCHANGED <<rl_clock, rl_started, rl_count, rl_owner, rl_time, rl_granted, rl_sent>>
  BY DEF LimiterHolds, SendAgain, NextCall, RlGo
<1>2. PICK n \in 1 .. RlAttempts : rl_attempt' = [rl_attempt EXCEPT ![t] = n]
  <2>1. CASE SendAgain(t)
    <3>1. rl_attempt[t] \in 1 .. RlAttempts /\ rl_attempt[t] < RlAttempts
      BY <2>1 DEF LimiterHolds, CallerHolds, RateLimitsTypeOK, SendAgain
    <3>2. rl_attempt[t] + 1 \in 1 .. RlAttempts
      BY <3>1, RateLimitsAssumption DEF RateLimitsAssumption
    <3> QED BY <2>1, <3>2 DEF SendAgain
  <2>2. CASE NextCall(t)
    <3>1. 1 \in 1 .. RlAttempts
      BY RateLimitsAssumption DEF RateLimitsAssumption
    <3> QED BY <2>2, <3>1 DEF NextCall
  <2> QED BY <2>1, <2>2
<1>3. RateLimitsTypeOK'
  BY <1>1, <1>2 DEF RateLimitsTypeOK
<1>4. ToSend' = ToSend
  BY <1>1 DEF ToSend, RateLimitsTypeOK
<1>5. /\ rl_pc'[t] = "acquire"
      /\ \A u \in RlThreads : u # t => rl_pc'[u] = rl_pc[u] /\ rl_attempt'[u] = rl_attempt[u]
  BY <1>1, <1>2 DEF RateLimitsTypeOK
<1>6. ASSUME NEW u \in RlThreads PROVE CallerHolds(u)'
  <2>1. CallerHolds(u) /\ CallerHolds(t)
    BY DEF LimiterHolds
  <2>2. CASE u = t
    BY <1>1, <1>5, <2>1, <2>2 DEF CallerHolds
  <2>3. CASE u # t
    BY <1>1, <1>5, <2>1, <2>3 DEF CallerHolds
  <2> QED BY <2>2, <2>3
<1> QED BY <1>1, <1>3, <1>4, <1>6 DEF LimiterHolds

LEMMA TickKeepsQuota == LimiterHolds /\ ClockTicks => LimiterHolds'
<1> SUFFICES ASSUME LimiterHolds, ClockTicks PROVE LimiterHolds'
  OBVIOUS
<1>1. /\ RateLimitsTypeOK /\ rl_clock < RlMaxClock /\ rl_clock' = rl_clock + 1
      /\ UNCHANGED <<rl_started, rl_count, rl_owner, rl_pc, rl_time, rl_attempt, rl_granted, rl_sent>>
  BY DEF LimiterHolds, ClockTicks
<1>2. rl_clock \in Nat /\ rl_started \in Nat /\ rl_clock' \in RlTicks
  BY <1>1, RateLimitsAssumption DEF RateLimitsTypeOK, RateLimitsAssumption, RlTicks
<1>3. RateLimitsTypeOK'
  BY <1>1, <1>2 DEF RateLimitsTypeOK
<1>4. ToSend' = ToSend
  BY <1>1 DEF ToSend
<1>5. SentBehind(rl_sent, rl_granted, rl_clock', Cardinality(ToSend))
  <2>1. \A k \in RlTicks : rl_clock' < k + RlWindow => rl_clock < k + RlWindow
    BY <1>1, <1>2, RlNumbers
  <2> QED BY <2>1 DEF LimiterHolds, SentBehind
<1>6. ASSUME NEW u \in RlThreads PROVE CallerHolds(u)'
  <2>1. CallerHolds(u) /\ rl_time[u] \in Nat
    BY <1>1 DEF LimiterHolds, RateLimitsTypeOK
  <2>2. rl_time[u] <= rl_clock => rl_time[u] <= rl_clock'
    BY <1>1, <1>2, <2>1
  <2> QED BY <1>1, <2>1, <2>2 DEF CallerHolds
<1>7. \A j \in RlTicks : j > rl_clock' => j > rl_clock
  BY <1>1, <1>2, RlNumbers
<1>8. rl_started' <= rl_clock'
  BY <1>1, <1>2 DEF LimiterHolds
<1> QED BY <1>1, <1>3, <1>4, <1>5, <1>6, <1>7, <1>8 DEF LimiterHolds

LEMMA LimiterStep == LimiterHolds /\ [RateLimitsNext]_rl_vars => LimiterHolds'
<1> SUFFICES ASSUME LimiterHolds, [RateLimitsNext]_rl_vars PROVE LimiterHolds'
  OBVIOUS
<1>1. ASSUME NEW t \in RlThreads,
             \/ LockLimiter(t) \/ DecideGrant(t) \/ NewWindow(t) \/ CountRequest(t)
             \/ SendOnce(t) \/ SendTransient(t) \/ SendAgain(t) \/ NextCall(t)
      PROVE  LimiterHolds'
  BY <1>1, LockKeepsQuota, DecideKeepsQuota, WindowKeepsQuota, CountKeepsQuota, SendKeepsQuota,
     CallKeepsQuota
<1>2. CASE UNCHANGED rl_vars
  <2>1. ToSend' = ToSend
    BY <1>2 DEF rl_vars, ToSend
  <2>2. \A u \in RlThreads : CallerHolds(u)'
    BY <1>2 DEF rl_vars, CallerHolds, LimiterHolds
  <2> QED BY <1>2, <2>1, <2>2 DEF rl_vars, LimiterHolds, RateLimitsTypeOK
<1> QED BY <1>1, <1>2, TickKeepsQuota DEF RateLimitsNext

\* However the threads' calls interleave and however long one waits between
\* reading the clock and using it, no stretch of time as long as the window sees
\* more than twice the limit granted, nor more sent than that and one request of
\* each thread (EndpointRateLimiter and PolymarketHttpClient of ToTheMoon/api.py).
THEOREM QuotasHold == ProgramsSpec => []QuotaKept
<1>1. ProgramsInit => LimiterHolds
  BY LimiterInit DEF ProgramsInit
<1>2. LimiterHolds /\ [ProgramsNext]_program_vars => LimiterHolds'
  BY StepOfEach, LimiterStep
<1>3. LimiterHolds => QuotaKept
  <2> SUFFICES ASSUME LimiterHolds, NEW k \in RlTicks
               PROVE  /\ RlDuring(rl_granted, k) <= 2 * RlLimit
                      /\ RlDuring(rl_sent, k) <= 2 * RlLimit + Cardinality(RlThreads)
    BY DEF QuotaKept
  <2>1. RlDuring(rl_granted, k) \in Nat /\ RlDuring(rl_sent, k) \in Nat
    BY WindowSummable DEF LimiterHolds, RateLimitsTypeOK
  <2>2. /\ RlDuring(rl_granted, k) <= 2 * RlLimit
        /\ RlDuring(rl_sent, k) <= RlDuring(rl_granted, k) + Cardinality(RlThreads)
    BY DEF LimiterHolds, GrantsCounted, SentBehind
  <2> QED BY <2>1, <2>2, RlNumbers
<1> QED BY <1>1, <1>2, <1>3, PTL DEF ProgramsSpec

-----------------------------------------------------------------------------
(* The crawl of active markets *)

LEMMA ListingNumbers ==
    /\ EventsPerPage \in Nat /\ EventsPerPage > 0 /\ RetryMax \in Nat /\ RetryMax > 0 /\ MaxPages \in Nat
    /\ IsFiniteSet(Events) /\ SeedEvent \in Events
    /\ \A e \in Events : MarketsOf[e] \in Seq(GammaMarket)
BY ListingAssumption DEF ListingAssumption

\* A page of events is the window of the list at its offset; a short one reaches
\* the list's end.
LEMMA PageOfEvents ==
    ASSUME gl_listing \in Seq(Events), NEW offset \in Nat
    PROVE  /\ EventsAt(offset) \in Seq(Events)
           /\ \A j \in 1 .. Len(gl_listing) : offset < j /\ j <= offset + EventsPerPage =>
                 \E i \in 1 .. Len(EventsAt(offset)) : EventsAt(offset)[i] = gl_listing[j]
           /\ Len(EventsAt(offset)) < EventsPerPage => Len(gl_listing) < offset + EventsPerPage
<1> DEFINE N == Len(gl_listing)
           last == IF offset + EventsPerPage <= N THEN offset + EventsPerPage ELSE N
           page == EventsAt(offset)
<1>1. /\ N \in Nat /\ EventsPerPage \in Nat /\ EventsPerPage > 0
      /\ \A i \in 1 .. N : gl_listing[i] \in Events
  BY ListingNumbers
<1>2. last \in Nat /\ last <= N /\ (last = offset + EventsPerPage \/ (last = N /\ N < offset + EventsPerPage))
  BY <1>1
<1>3. page = SubSeq(gl_listing, offset + 1, last)
  BY DEF EventsAt
<1> HIDE DEF last, page, N
<1>4. \A i \in offset + 1 .. last : gl_listing[i] \in Events
  BY <1>1, <1>2
<1>5. /\ page \in Seq(Events)
      /\ Len(page) = IF offset + 1 <= last THEN last - (offset + 1) + 1 ELSE 0
      /\ \A i \in 1 .. last - (offset + 1) + 1 : page[i] = gl_listing[(offset + 1) + i - 1]
  <2>1. last \in 0 .. Len(gl_listing)
    BY <1>2 DEF N
  <2> QED BY <1>3, <2>1
<1>6. ASSUME NEW j \in 1 .. N, offset < j, j <= offset + EventsPerPage
      PROVE  \E i \in 1 .. Len(page) : page[i] = gl_listing[j]
  <2>1. j <= last
    BY <1>1, <1>2, <1>6
  <2>2. /\ j - offset \in 1 .. last - (offset + 1) + 1 /\ (offset + 1) + (j - offset) - 1 = j
        /\ j - offset \in 1 .. Len(page)
    BY <1>1, <1>2, <1>5, <1>6, <2>1
  <2>3. page[j - offset] = gl_listing[j]
    BY <1>5, <2>2
  <2> QED BY <2>2, <2>3
<1>7. Len(page) < EventsPerPage => N < offset + EventsPerPage
  BY <1>1, <1>2, <1>5
<1> QED BY <1>5, <1>6, <1>7 DEF page, N

LEMMA CollectedIds ==
    ASSUME NEW markets \in Seq(GammaMarket), \A x \in ToSet(markets) : x.id \in MarketIds
    PROVE  Collected(markets) \subseteq MarketIds
BY DEF Collected

LEMMA EventMarkets ==
    ASSUME NEW e \in Events
    PROVE  Collected(MarketsOf[e]) \subseteq MarketIds
<1>1. \A x \in ToSet(MarketsOf[e]) : x.id \in MarketIds
  BY DEF MarketIds
<1> QED BY <1>1 DEF Collected

\* A page's records hold those of each event on it, and if every event has a
\* market the page has no fewer markets than events.
LEMMA PageCollected ==
    ASSUME NEW page \in Seq(Events)
    PROVE  /\ Collected(Flatten(page)) \subseteq MarketIds
           /\ \A i \in 1 .. Len(page) : Collected(MarketsOf[page[i]]) \subseteq Collected(Flatten(page))
           /\ EveryEventHasMarkets => Len(Flatten(page)) >= Len(page)
           /\ Len(Flatten(page)) \in Nat
<1> DEFINE seqs == [i \in DOMAIN page |-> MarketsOf[page[i]]]
<1>1. /\ seqs \in Seq(Seq(GammaMarket)) /\ Len(seqs) = Len(page)
      /\ \A i \in 1 .. Len(page) : seqs[i] = MarketsOf[page[i]] /\ page[i] \in Events
  <2>1. \A i \in DOMAIN page : MarketsOf[page[i]] \in Seq(GammaMarket) /\ page[i] \in Events
    BY ListingNumbers
  <2> QED BY <2>1
<1>2. Flatten(page) = FlattenSeq(seqs)
  BY DEF Flatten
<1> HIDE DEF seqs
<1>3. /\ FlattenSeq(seqs) \in Seq(GammaMarket)
      /\ \A i \in 1 .. Len(seqs) : ToSet(seqs[i]) \subseteq ToSet(FlattenSeq(seqs))
      /\ \A x \in ToSet(FlattenSeq(seqs)) : \E i \in 1 .. Len(seqs) : x \in ToSet(seqs[i])
      /\ (\A i \in 1 .. Len(seqs) : seqs[i] # <<>>) => Len(FlattenSeq(seqs)) >= Len(seqs)
  BY <1>1, FlattenedElements
<1>4. ASSUME NEW x \in ToSet(Flatten(page)) PROVE x.id \in MarketIds
  <2>1. PICK i \in 1 .. Len(page) : x \in ToSet(seqs[i])
    BY <1>1, <1>2, <1>3
  <2>2. x \in ToSet(MarketsOf[page[i]]) /\ page[i] \in Events
    BY <1>1, <2>1
  <2>3. x \in UNION {ToSet(MarketsOf[e]) : e \in Events}
    BY <2>2
  <2> QED BY <2>3 DEF MarketIds
<1>5. Collected(Flatten(page)) \subseteq MarketIds
  BY <1>4 DEF Collected
<1>6. \A i \in 1 .. Len(page) : Collected(MarketsOf[page[i]]) \subseteq Collected(Flatten(page))
  <2>1. ASSUME NEW i \in 1 .. Len(page)
        PROVE  ToSet(MarketsOf[page[i]]) \subseteq ToSet(Flatten(page))
    <3>1. i \in 1 .. Len(seqs) /\ seqs[i] = MarketsOf[page[i]]
      BY <1>1
    <3>2. ToSet(seqs[i]) \subseteq ToSet(FlattenSeq(seqs))
      BY <1>3, <3>1
    <3> QED BY <1>2, <3>1, <3>2
  <2> QED BY <2>1 DEF Collected
<1>7. EveryEventHasMarkets => Len(Flatten(page)) >= Len(page)
  <2> SUFFICES ASSUME EveryEventHasMarkets PROVE Len(Flatten(page)) >= Len(page)
    OBVIOUS
  <2>1. \A i \in 1 .. Len(seqs) : seqs[i] # <<>>
    BY <1>1 DEF EveryEventHasMarkets
  <2>2. Len(FlattenSeq(seqs)) >= Len(seqs)
    BY <1>3, <2>1
  <2> QED BY <1>1, <1>2, <2>2
<1> QED BY <1>2, <1>3, <1>5, <1>6, <1>7

-----------------------------------------------------------------------------
\* The standing events that the crawl has gone past without their markets: each
\* was moved in front of the offset by an event that left.
Skipped ==
    {e \in gl_standing : /\ MissingFrom(gl_records, e)
                         /\ \E i \in DOMAIN gl_listing : i <= gl_offset /\ gl_listing[i] = e}

CrawlHolds ==
    /\ ListingTypeOK
    /\ gl_left \in Nat
    /\ gl_standing \subseteq ToSet(gl_listing)
    /\ gl_pc = "seed" => gl_offset = 0
    /\ gl_pc \in {"seed", "page"} => Cardinality(Skipped) <= gl_left
    /\ CrawlComplete

LEMMA SkippedFinite == gl_standing \subseteq Events => IsFiniteSet(Skipped) /\ Cardinality(Skipped) \in Nat
<1>1. gl_standing \subseteq Events => Skipped \subseteq Events
  BY DEF Skipped
<1> QED BY <1>1, ListingNumbers, FS_Subset, FS_CardinalityType

LEMMA NothingSkipped == gl_listing \in Seq(Events) /\ gl_offset = 0 => Cardinality(Skipped) = 0
<1>1. gl_listing \in Seq(Events) /\ gl_offset = 0 => Skipped = {}
  BY DEF Skipped
<1> QED BY <1>1, FS_EmptySet

LEMMA CrawlInit == ListingInit => CrawlHolds
<1> SUFFICES ASSUME ListingInit PROVE CrawlHolds
  OBVIOUS
<1>1. gl_listing \in Seq(Events) /\ IsInjective(gl_listing)
  BY ListingAssumption DEF ListingAssumption, ListingInit
<1>2. ToSet(gl_listing) \subseteq Events
  BY <1>1, RangeFinite
<1>3. ListingTypeOK
  BY <1>1, <1>2, ListingNumbers DEF ListingInit, ListingTypeOK
<1>4. Cardinality(Skipped) = 0
  BY <1>1, NothingSkipped DEF ListingInit
<1> QED BY <1>3, <1>4 DEF ListingInit, CrawlHolds, CrawlComplete

LEMMA PageKeepsCrawl == CrawlHolds /\ FetchPage => CrawlHolds'
<1> SUFFICES ASSUME CrawlHolds, FetchPage PROVE CrawlHolds'
  OBVIOUS
<1> DEFINE page == EventsAt(gl_offset)
           markets == Flatten(page)
           next == gl_offset + EventsPerPage
<1>1. /\ ListingTypeOK /\ gl_pc = "page" /\ ~Capped /\ gl_left \in Nat
      /\ gl_standing \subseteq ToSet(gl_listing) /\ Cardinality(Skipped) <= gl_left
      /\ gl_records' = gl_records \cup Collected(markets)
      /\ UNCHANGED <<gl_listing, gl_standing, gl_left, gl_attempt, gl_changes>>
  BY DEF CrawlHolds, FetchPage
<1>2. /\ gl_listing \in Seq(Events) /\ gl_offset \in Nat /\ gl_page \in Nat /\ gl_page > 0
      /\ gl_standing \subseteq Events /\ gl_offset = (gl_page - 1) * EventsPerPage /\ next \in Nat
  <2>1. gl_page \in Nat /\ gl_page > 0 /\ gl_offset = (gl_page - 1) * EventsPerPage
    BY <1>1 DEF ListingTypeOK
  <2>2. gl_page - 1 \in Nat
    BY <2>1
  <2>3. gl_offset \in Nat
    BY <2>1, <2>2, ListingNumbers
  <2> QED BY <1>1, <2>1, <2>3, ListingNumbers DEF ListingTypeOK
<1>3. /\ page \in Seq(Events)
      /\ \A j \in 1 .. Len(gl_listing) : gl_offset < j /\ j <= next =>
            \E i \in 1 .. Len(page) : page[i] = gl_listing[j]
      /\ Len(page) < EventsPerPage => Len(gl_listing) < next
  BY <1>2, PageOfEvents
<1> HIDE DEF page
<1>4. /\ Collected(markets) \subseteq MarketIds
      /\ \A i \in 1 .. Len(page) : Collected(MarketsOf[page[i]]) \subseteq Collected(markets)
      /\ EveryEventHasMarkets => Len(markets) >= Len(page)
      /\ Len(markets) \in Nat
  BY <1>3, PageCollected
<1> HIDE DEF markets
\* What is still missing lies before the page or after it.
<1>5. ASSUME NEW e \in gl_standing, MissingFrom(gl_records', e),
             NEW i \in DOMAIN gl_listing, i <= next, gl_listing[i] = e
      PROVE  e \in Skipped
  <2>1. MissingFrom(gl_records, e)
    BY <1>1, <1>5 DEF MissingFrom
  <2>2. ~(gl_offset < i)
    <3> SUFFICES ASSUME gl_offset < i PROVE FALSE
      OBVIOUS
    <3>1. i \in 1 .. Len(gl_listing)
      BY <1>2
    <3>2. PICK n \in 1 .. Len(page) : page[n] = e
      BY <1>3, <1>5, <3>1
    <3>3. Collected(MarketsOf[e]) \subseteq gl_records'
      BY <1>1, <1>4, <3>2
    <3> QED BY <1>5, <3>3 DEF MissingFrom
  <2>3. i <= gl_offset
    BY <1>2, <2>2
  <2> QED BY <1>5, <2>1, <2>3 DEF Skipped
<1>6. IsFiniteSet(Skipped) /\ Cardinality(Skipped) \in Nat
  BY <1>2, SkippedFinite
<1>7. CASE LastPage(markets)
  <2>1. gl_pc' = "done" /\ gl_result' = gl_records' /\ UNCHANGED <<gl_offset, gl_page>>
    BY <1>7 DEF FetchPage, Finish, markets, page
  <2>2. ListingTypeOK'
    BY <1>1, <1>4, <2>1 DEF ListingTypeOK
  <2>3. CrawlComplete'
    <3> SUFFICES ASSUME EveryEventHasMarkets
                 PROVE  Cardinality({e \in gl_standing : MissingFrom(gl_records', e)}) <= gl_left
      BY <1>1, <2>1 DEF CrawlComplete
    <3> DEFINE missing == {e \in gl_standing : MissingFrom(gl_records', e)}
    <3>1. Len(page) < EventsPerPage
      BY <1>3, <1>4, <1>7, ListingNumbers DEF LastPage
    <3>2. \A i \in DOMAIN gl_listing : i <= next
      BY <1>2, <1>3, <3>1
    <3>3. missing \subseteq Skipped
      BY <1>1, <1>5, <3>2 DEF ToSet
    <3> HIDE DEF missing
    <3>4. Cardinality(missing) <= Cardinality(Skipped) /\ Cardinality(missing) \in Nat
      BY <1>6, <3>3, CardinalityShrinks
    <3>5. Cardinality(missing) <= gl_left
      BY <1>1, <1>6, <3>4
    <3> QED BY <3>5 DEF missing
  <2> QED BY <1>1, <2>1, <2>2, <2>3 DEF CrawlHolds
<1>8. CASE ~LastPage(markets)
  <2>1. gl_offset' = next /\ gl_page' = gl_page + 1 /\ UNCHANGED <<gl_pc, gl_result>>
    BY <1>8 DEF FetchPage, markets, page
  <2>2. ListingTypeOK'
    <3>1. next = ((gl_page + 1) - 1) * EventsPerPage
      <4>1. (gl_page - 1) * EventsPerPage + EventsPerPage = gl_page * EventsPerPage
        BY <1>2, ListingNumbers
      <4> QED BY <1>2, <4>1
    <3> HIDE DEF next
    <3> QED BY <1>1, <1>2, <1>4, <2>1, <3>1 DEF ListingTypeOK
  <2>3. Skipped' \subseteq Skipped
    BY <1>1, <1>5, <2>1 DEF Skipped
  <2>4. Cardinality(Skipped') <= gl_left
    <3>1. Cardinality(Skipped') <= Cardinality(Skipped) /\ Cardinality(Skipped') \in Nat
      BY <1>6, <2>3, CardinalityShrinks
    <3> QED BY <1>1, <1>6, <3>1
  <2>5. CrawlComplete'
    BY <1>1, <2>1 DEF CrawlComplete
  <2> QED BY <1>1, <2>1, <2>2, <2>4, <2>5 DEF CrawlHolds
<1> QED BY <1>7, <1>8

\* A crawl that begins, for the first time or again, has skipped nothing.
LEMMA BeginKeepsCrawl == CrawlHolds /\ (RequestRaises \/ CrawlAgain) => CrawlHolds'
<1> SUFFICES ASSUME CrawlHolds, RequestRaises \/ CrawlAgain PROVE CrawlHolds'
  OBVIOUS
<1>1. /\ ListingTypeOK /\ gl_offset' = 0 /\ gl_page' = 1 /\ gl_records' = {}
      /\ gl_standing' = ToSet(gl_listing) /\ gl_left' = 0
      /\ gl_listing' = gl_listing
      /\ gl_pc' \in {"seed", "failed"}
      /\ gl_attempt' \in 1 .. RetryMax
      /\ gl_result' \in {gl_result, NoRecords}
  <2>1. gl_attempt \in 1 .. RetryMax /\ ListingTypeOK
    BY DEF CrawlHolds, ListingTypeOK
  <2>2. CASE RequestRaises
    <3>1. gl_attempt' \in 1 .. RetryMax
      BY <2>1, <2>2, ListingNumbers DEF RequestRaises
    <3> QED BY <2>1, <2>2, <3>1 DEF RequestRaises
  <2>3. CASE CrawlAgain
    BY <2>1, <2>3, ListingNumbers DEF CrawlAgain
  <2> QED BY <2>2, <2>3
<1>2. ToSet(gl_listing) \subseteq Events /\ gl_listing \in Seq(Events)
  BY <1>1, RangeFinite DEF ListingTypeOK
<1>3. ListingTypeOK'
  BY <1>1, <1>2, ListingNumbers DEF ListingTypeOK
<1>4. Cardinality(Skipped') = 0
  <2>1. Skipped' = {}
    BY <1>1, <1>2 DEF Skipped
  <2> QED BY <2>1, FS_EmptySet
<1>5. CrawlComplete'
  BY <1>1 DEF CrawlComplete
<1> QED BY <1>1, <1>3, <1>4, <1>5 DEF CrawlHolds

LEMMA LeavingKeepsCrawl ==
    ASSUME CrawlHolds, NEW p \in DOMAIN gl_listing, EventLeaves(p)
    PROVE  CrawlHolds'
<1> DEFINE rest == RemoveAt(gl_listing, p)
           gone == gl_listing[p]
           moved == gl_listing[gl_offset + 1]
<1>1. /\ ListingTypeOK /\ gl_left \in Nat /\ gl_standing \subseteq ToSet(gl_listing) /\ gl_pc # "done"
      /\ gl_listing' = rest /\ gl_standing' = gl_standing \ {gone} /\ gl_left' = gl_left + 1
      /\ UNCHANGED <<gl_pc, gl_attempt, gl_offset, gl_page, gl_records, gl_result>>
  BY DEF CrawlHolds, EventLeaves
<1>2. /\ gl_listing \in Seq(Events) /\ IsInjective(gl_listing) /\ p \in 1 .. Len(gl_listing)
      /\ gl_offset \in Int /\ gl_standing \subseteq Events /\ Len(gl_listing) \in Nat
  <2>1. gl_offset \in Int
    <3>1. gl_page \in Int /\ gl_offset = (gl_page - 1) * EventsPerPage
      BY <1>1 DEF ListingTypeOK
    <3> QED BY <3>1, ListingNumbers
  <2> QED BY <1>1, <2>1 DEF ListingTypeOK
<1>3. /\ rest \in Seq(Events) /\ Len(rest) = Len(gl_listing) - 1 /\ IsInjective(rest)
      /\ \A j \in 1 .. Len(gl_listing) - 1 : rest[j] = IF j < p THEN gl_listing[j] ELSE gl_listing[j + 1]
  BY <1>2, Removed
<1> HIDE DEF rest
<1>4. ListingTypeOK'
  BY <1>1, <1>3 DEF ListingTypeOK
\* Nobody who stands has left the list.
<1>5. ASSUME NEW e \in gl_standing, e # gone PROVE e \in ToSet(rest)
  <2>1. PICK i \in DOMAIN gl_listing : gl_listing[i] = e
    BY <1>1 DEF ToSet
  <2>2. i # p /\ i \in 1 .. Len(gl_listing)
    BY <1>2, <1>5, <2>1
  <2>3. CASE i < p
    <3>1. i \in 1 .. Len(gl_listing) - 1
      BY <1>2, <2>2, <2>3
    <3>2. rest[i] = e /\ i \in DOMAIN rest
      BY <1>3, <2>1, <2>3, <3>1
    <3> QED BY <3>2 DEF ToSet
  <2>4. CASE i > p
    <3>1. i - 1 \in 1 .. Len(gl_listing) - 1 /\ ~(i - 1 < p) /\ (i - 1) + 1 = i
      BY <1>2, <2>2, <2>4
    <3>2. rest[i - 1] = e /\ i - 1 \in DOMAIN rest
      BY <1>3, <2>1, <3>1
    <3> QED BY <3>2 DEF ToSet
  <2> QED BY <1>2, <2>2, <2>3, <2>4
<1>6. gl_standing' \subseteq ToSet(gl_listing')
  BY <1>1, <1>5
\* Who is skipped now was skipped already, or came first after the offset.
<1>7. Skipped' \subseteq Skipped \cup {moved}
  <2> SUFFICES ASSUME NEW e \in gl_standing \ {gone}, MissingFrom(gl_records, e),
                      NEW j \in DOMAIN rest, j <= gl_offset, rest[j] = e
               PROVE  e \in Skipped \cup {moved}
    BY <1>1 DEF Skipped
  <2>1. /\ j \in 1 .. Len(gl_listing) - 1
        /\ e = IF j < p THEN gl_listing[j] ELSE gl_listing[j + 1]
    BY <1>3
  <2>2. CASE j < p \/ j < gl_offset
    <3>1. \E i \in DOMAIN gl_listing : i <= gl_offset /\ gl_listing[i] = e
      BY <1>2, <2>1, <2>2
    <3> QED BY <3>1 DEF Skipped
  <2>3. CASE ~(j < p) /\ ~(j < gl_offset)
    <3>1. j = gl_offset
      BY <1>2, <2>1, <2>3
    <3> QED BY <2>1, <2>3, <3>1
  <2> QED BY <2>2, <2>3
<1>8. IsFiniteSet(Skipped) /\ Cardinality(Skipped) \in Nat
  BY <1>2, SkippedFinite
<1>9. Cardinality(Skipped') <= Cardinality(Skipped) + 1 /\ Cardinality(Skipped') \in Nat
  <2> HIDE DEF moved
  <2> QED BY <1>7, <1>8, CardinalityGrows
<1>10. gl_pc' \in {"seed", "page"} => Cardinality(Skipped') <= gl_left'
  <2>1. gl_pc \in {"seed", "page"} => Cardinality(Skipped) <= gl_left
    BY DEF CrawlHolds
  <2> QED BY <1>1, <1>8, <1>9, <2>1
<1>11. CrawlComplete'
  BY <1>1 DEF CrawlComplete
<1>12. gl_pc' = "seed" => gl_offset' = 0
  BY <1>1 DEF CrawlHolds
<1> QED BY <1>1, <1>4, <1>6, <1>10, <1>11, <1>12 DEF CrawlHolds

LEMMA EnteringKeepsCrawl ==
    ASSUME CrawlHolds, NEW new \in Events, EventEnters(new)
    PROVE  CrawlHolds'
<1> DEFINE longer == <<new>> \o gl_listing
<1>1. /\ ListingTypeOK /\ gl_left \in Nat /\ gl_standing \subseteq ToSet(gl_listing) /\ gl_pc # "done"
      /\ new \notin ToSet(gl_listing) /\ gl_listing' = longer
      /\ UNCHANGED <<gl_standing, gl_left, gl_pc, gl_attempt, gl_offset, gl_page, gl_records, gl_result>>
  BY DEF CrawlHolds, EventEnters
<1>2. /\ gl_listing \in Seq(Events) /\ IsInjective(gl_listing) /\ gl_standing \subseteq Events
      /\ Len(gl_listing) \in Nat /\ gl_offset \in Int
  <2>1. gl_offset \in Int
    <3>1. gl_page \in Int /\ gl_offset = (gl_page - 1) * EventsPerPage
      BY <1>1 DEF ListingTypeOK
    <3> QED BY <3>1, ListingNumbers
  <2> QED BY <1>1, <2>1 DEF ListingTypeOK
<1>3. /\ longer \in Seq(Events) /\ Len(longer) = Len(gl_listing) + 1
      /\ longer[1] = new /\ \A i \in 1 .. Len(gl_listing) : longer[i + 1] = gl_listing[i]
  BY <1>2
<1> HIDE DEF longer
<1>4. \A j \in DOMAIN longer : j = 1 \/ (j - 1 \in DOMAIN gl_listing /\ longer[j] = gl_listing[j - 1])
  <2>1. \A j \in 1 .. Len(gl_listing) + 1 : j = 1 \/ (j - 1 \in 1 .. Len(gl_listing) /\ (j - 1) + 1 = j)
    BY <1>2
  <2> QED BY <1>2, <1>3, <2>1
<1>5. IsInjective(longer)
  <2> SUFFICES ASSUME NEW i \in DOMAIN longer, NEW j \in DOMAIN longer, longer[i] = longer[j] PROVE i = j
    BY DEF IsInjective
  <2>1. \A k \in DOMAIN gl_listing : gl_listing[k] # new
    BY <1>1 DEF ToSet
  <2>2. i = 1 <=> j = 1
    BY <1>3, <1>4, <2>1
  <2>3. CASE i # 1
    <3>1. i - 1 = j - 1
      BY <1>2, <1>4, <2>2, <2>3 DEF IsInjective
    <3> QED BY <1>3, <3>1
  <2> QED BY <2>2, <2>3
<1>6. ListingTypeOK'
  BY <1>1, <1>3, <1>5 DEF ListingTypeOK
<1>7. gl_standing' \subseteq ToSet(gl_listing')
  <2> SUFFICES ASSUME NEW e \in gl_standing PROVE e \in ToSet(longer)
    BY <1>1
  <2>1. PICK i \in DOMAIN gl_listing : gl_listing[i] = e
    BY <1>1 DEF ToSet
  <2>2. i + 1 \in DOMAIN longer /\ longer[i + 1] = e
    BY <1>2, <1>3, <2>1
  <2> QED BY <2>2 DEF ToSet
<1>8. Skipped' \subseteq Skipped
  <2> SUFFICES ASSUME NEW e \in gl_standing, MissingFrom(gl_records, e),
                      NEW j \in DOMAIN longer, j <= gl_offset, longer[j] = e
               PROVE  e \in Skipped
    BY <1>1 DEF Skipped
  <2>1. j # 1
    BY <1>1, <1>3
  <2>2. j - 1 \in DOMAIN gl_listing /\ gl_listing[j - 1] = e
    BY <1>4, <2>1
  <2>3. j - 1 <= gl_offset
    BY <1>2, <1>3
  <2> QED BY <2>2, <2>3 DEF Skipped
<1>9. gl_pc' \in {"seed", "page"} => Cardinality(Skipped') <= gl_left'
  <2>1. IsFiniteSet(Skipped) /\ Cardinality(Skipped) \in Nat
    BY <1>2, SkippedFinite
  <2>2. Cardinality(Skipped') <= Cardinality(Skipped) /\ Cardinality(Skipped') \in Nat
    BY <1>8, <2>1, CardinalityShrinks
  <2>3. gl_pc \in {"seed", "page"} => Cardinality(Skipped) <= gl_left
    BY DEF CrawlHolds
  <2> QED BY <1>1, <2>1, <2>2, <2>3
<1>10. CrawlComplete'
  BY <1>1 DEF CrawlComplete
<1>11. gl_pc' = "seed" => gl_offset' = 0
  BY <1>1 DEF CrawlHolds
<1> QED BY <1>1, <1>6, <1>7, <1>9, <1>10, <1>11 DEF CrawlHolds

LEMMA CrawlStep == CrawlHolds /\ [ListingNext]_gl_vars => CrawlHolds'
<1> SUFFICES ASSUME CrawlHolds, [ListingNext]_gl_vars PROVE CrawlHolds'
  OBVIOUS
<1>1. ListingTypeOK /\ gl_listing \in Seq(Events)
  BY DEF CrawlHolds, ListingTypeOK
<1>2. CASE FetchSeed
  <2>1. /\ gl_pc = "seed" /\ gl_pc' = "page" /\ gl_offset = 0
        /\ gl_records' = Collected(MarketsOf[SeedEvent])
        /\ UNCHANGED <<gl_listing, gl_standing, gl_left, gl_attempt, gl_offset, gl_page, gl_result>>
    BY <1>2 DEF FetchSeed, CrawlHolds
  <2>2. ListingTypeOK'
    BY <1>1, <2>1, EventMarkets, ListingNumbers DEF ListingTypeOK
  <2>3. Cardinality(Skipped') = 0
    <3>1. Skipped' = {}
      BY <1>1, <2>1 DEF Skipped
    <3> QED BY <3>1, FS_EmptySet
  <2> QED BY <2>1, <2>2, <2>3 DEF CrawlHolds, CrawlComplete
<1>3. CASE StopAtCap
  <2>1. /\ Capped /\ gl_pc' = "done" /\ gl_records' = gl_records /\ gl_result' = gl_records
        /\ UNCHANGED <<gl_listing, gl_standing, gl_left, gl_attempt, gl_offset, gl_page>>
    BY <1>3 DEF StopAtCap, Finish
  <2>2. ListingTypeOK'
    BY <1>1, <2>1 DEF ListingTypeOK
  <2>3. ~Uncapped'
    BY <1>1, <2>1, ListingNumbers DEF Capped, Uncapped, ListingTypeOK
  <2> QED BY <2>1, <2>2, <2>3 DEF CrawlHolds, CrawlComplete
<1>4. CASE FetchPage
  BY <1>4, PageKeepsCrawl
<1>5. CASE RequestRaises \/ CrawlAgain
  BY <1>5, BeginKeepsCrawl
<1>6. CASE \E i \in DOMAIN gl_listing : EventLeaves(i)
  BY <1>6, LeavingKeepsCrawl
<1>7. CASE \E e \in Events : EventEnters(e)
  BY <1>7, EnteringKeepsCrawl
<1>8. CASE UNCHANGED gl_vars
  BY <1>8 DEF gl_vars, CrawlHolds, ListingTypeOK, Skipped, CrawlComplete, Uncapped
<1> QED BY <1>2, <1>3, <1>4, <1>5, <1>6, <1>7, <1>8 DEF ListingNext

\* However the exchange's list changes under the pages, a crawl that ends by
\* itself returns the markets of every event listed all along, but for one event
\* for each that left (_fetch_active_markets of the Madawc and Korlic factories).
THEOREM CrawlsAreComplete == ProgramsSpec => []CrawlComplete
<1>1. ProgramsInit => CrawlHolds
  BY CrawlInit DEF ProgramsInit
<1>2. CrawlHolds /\ [ProgramsNext]_program_vars => CrawlHolds'
  BY StepOfEach, CrawlStep
<1>3. CrawlHolds => CrawlComplete
  BY DEF CrawlHolds
<1> QED BY <1>1, <1>2, <1>3, PTL DEF ProgramsSpec

-----------------------------------------------------------------------------
(* The MVP library: prices *)

LEMMA MvpNone == PvNone \notin PvBooks /\ PvNone \notin Int
BY MvpAssumption DEF MvpAssumption

LEMMA ClampedPrice == ASSUME NEW value \in Nat PROVE Clamp01(value) \in 0 .. 100
BY DEF Clamp01

\* A reference probability is a probability, and only a fresh and deep book has one.
LEMMA ReferencePrice ==
    ASSUME NEW book \in PvBooks \cup {PvNone}
    PROVE  /\ ReferenceProbability(book) \in (0 .. 100) \cup {PvNone}
           /\ ReferenceProbability(book) # PvNone => book \in PvBooks /\ book.depth >= PvMinDepth
<1>1. PvBooks \subseteq MarketState
  BY MvpAssumption DEF MvpAssumption
<1>2. CASE book = PvNone
  BY <1>2 DEF ReferenceProbability
<1>3. CASE book \in PvBooks
  <2>1. book.mid \in Nat \cup {PvNone} /\ book.last \in Nat \cup {PvNone}
    BY <1>1, <1>3 DEF MarketState, Optional
  <2>2. book.mid # PvNone => Clamp01(book.mid) \in 0 .. 100
    BY <2>1, ClampedPrice
  <2>3. book.last # PvNone => Clamp01(book.last) \in 0 .. 100
    BY <2>1, ClampedPrice
  <2> QED BY <1>3, <2>2, <2>3 DEF ReferenceProbability
<1> QED BY <1>2, <1>3

\* A book with a reference probability is liquid enough.
LEMMA DeepEnough ==
    ASSUME NEW book \in PvBooks \cup {PvNone}, ReferenceProbability(book) # PvNone
    PROVE  LiquidityScore(book) >= PvMinLiquidity
<1>1. /\ book \in MarketState /\ book.depth >= PvMinDepth
      /\ PvMinDepth \in Nat \ {0} /\ PvMaxSpread \in Nat \ {0} /\ PvMinLiquidity \in 0 .. 50
  BY ReferencePrice, MvpAssumption DEF MvpAssumption
<1>2. book.depth \in Nat /\ book.spread \in Nat
  BY <1>1 DEF MarketState
<1> DEFINE spread == 100 - (100 * book.spread) \div PvMaxSpread
           depth == (100 * book.depth) \div PvMinDepth
           sum == (IF spread < 0 THEN 0 ELSE spread) + (IF depth > 100 THEN 100 ELSE depth)
<1>3. spread \in Int
  BY <1>1, <1>2
<1>4. depth \in Int /\ depth >= 100
  <2>1. PvMinDepth * 100 <= PvMinDepth * 100 + 100 * (book.depth - PvMinDepth)
    BY <1>1, <1>2
  <2>2. depth \in Int /\ 100 * book.depth < PvMinDepth * depth + PvMinDepth
    <3> DEFINE n == 100 * book.depth
    <3>1. n \in Int
      BY <1>2
    <3> HIDE DEF n
    <3>2. n \div PvMinDepth \in Int /\ n < PvMinDepth * (n \div PvMinDepth) + PvMinDepth
      BY <1>1, <3>1, Quotient
    <3> QED BY <3>2 DEF n
  <2> HIDE DEF depth
  <2>3. ~ (depth + 1 <= 100)
    <3> SUFFICES ASSUME depth + 1 <= 100 PROVE FALSE
      OBVIOUS
    <3>1. PvMinDepth * (depth + 1) <= PvMinDepth * 100
      BY <1>1, <2>2, ProductMonotonic
    <3>2. PvMinDepth * (depth + 1) = PvMinDepth * depth + PvMinDepth
      BY <1>1, <2>2
    <3> QED BY <1>1, <1>2, <2>2, <3>1, <3>2
  <2> QED BY <2>2, <2>3
<1>5. LiquidityScore(book) = sum \div 2
  BY DEF LiquidityScore
<1> HIDE DEF spread, depth
<1>6. sum \in Int /\ sum >= 100
  BY <1>3, <1>4
<1> HIDE DEF sum
<1>7. sum \div 2 >= 50 /\ sum \div 2 \in Int
  BY <1>6
<1> QED BY <1>1, <1>5, <1>6, <1>7

\* What it costs to sell a book that is too dear.
LEMMA CostsNat ==
    ASSUME NEW book \in PvBooks
    PROVE  book.spread \in Nat /\ FeeCost(book) \in Nat
<1>1. book \in MarketState /\ PvFeeBps \in Nat
  BY MvpAssumption DEF MvpAssumption
<1>2. book.ask \in Nat /\ book.spread \in Nat
  BY <1>1 DEF MarketState
<1>3. PvFeeBps * book.ask \in Nat
  BY <1>1, <1>2
<1> DEFINE fee == PvFeeBps * book.ask
<1>4. fee \in Nat /\ FeeCost(book) = fee \div 10000
  BY <1>3 DEF FeeCost
<1> HIDE DEF fee
<1> QED BY <1>2, <1>4

-----------------------------------------------------------------------------
(* The MVP library: pairs of neighbours *)

\* Markets of one group.
Related(x, y) ==
    x.underlying = y.underlying /\ x.operator = y.operator
    /\ x.expiry \div PvExpiryWindow = y.expiry \div PvExpiryWindow

\* The dearer and the cheaper of two neighbours, if their prices contradict.
Dear(lower, higher) == IF lower.operator \in Ascending THEN higher ELSE lower
Cheap(lower, higher) == IF lower.operator \in Ascending THEN lower ELSE higher
Price(m) == ReferenceProbability(pv_live[m])
Hides(m) == PvMinEdge + pv_live[m].spread + FeeCost(pv_live[m])
PairEdge(lower, higher) ==
    EdgeAfterCost(MonotonicViolation(lower.operator, Price(lower), Price(higher)),
                  pv_live[Dear(lower, higher)])

LivePrices == DOMAIN pv_live = pv_markets /\ \A m \in pv_markets : pv_live[m] \in PvBooks \cup {PvNone}

\* What the pair's signal is, and when it is given.
LEMMA PairSignal ==
    ASSUME LivePrices, NEW lower \in pv_markets, NEW higher \in pv_markets
    PROVE  PairSignals(lower, higher) =
             IF /\ Price(lower) # PvNone /\ Price(higher) # PvNone
                /\ PairEdge(lower, higher) >= PvMinEdge
             THEN {[alpha |-> "incoherence", market |-> Dear(lower, higher), edge |-> PairEdge(lower, higher)]}
             ELSE {}
<1> DEFINE dear == Dear(lower, higher)
           edge == PairEdge(lower, higher)
           priced == PvNone \notin {Price(lower), Price(higher)}
<1>1. PairSignals(lower, higher) =
          IF priced /\ edge >= PvMinEdge /\ LiquidityScore(pv_live[dear]) >= PvMinLiquidity
          THEN {[alpha |-> "incoherence", market |-> dear, edge |-> edge]} ELSE {}
  BY DEF PairSignals, Dear, PairEdge, Price
<1>2. dear \in {lower, higher}
  BY DEF Dear
<1>3. priced => LiquidityScore(pv_live[dear]) >= PvMinLiquidity
  <2> SUFFICES ASSUME priced PROVE LiquidityScore(pv_live[dear]) >= PvMinLiquidity
    OBVIOUS
  <2>1. Price(dear) # PvNone /\ dear \in pv_markets
    BY <1>2
  <2>2. pv_live[dear] \in PvBooks \cup {PvNone} /\ ReferenceProbability(pv_live[dear]) # PvNone
    BY <2>1 DEF Price, LivePrices
  <2> QED BY <2>2, DeepEnough
<1> HIDE DEF dear, edge
<1>4. priced <=> Price(lower) # PvNone /\ Price(higher) # PvNone
  OBVIOUS
<1> HIDE DEF priced
<1>5. CASE priced
  BY <1>1, <1>3, <1>4, <1>5 DEF dear, edge
<1>6. CASE ~priced
  BY <1>1, <1>4, <1>6
<1> QED BY <1>5, <1>6

\* The numbers of a priced pair.
LEMMA PairNumbers ==
    ASSUME LivePrices, pv_markets \subseteq MarketDefinition,
           NEW lower \in pv_markets, NEW higher \in pv_markets,
           Price(lower) # PvNone, Price(higher) # PvNone
    PROVE  /\ Price(lower) \in 0 .. 100 /\ Price(higher) \in 0 .. 100
           /\ Hides(lower) \in Nat \ {0} /\ Hides(higher) \in Nat \ {0}
           /\ PairEdge(lower, higher) \in Int
           /\ lower.operator \in Ascending \cup Descending =>
                 (PairEdge(lower, higher) >= PvMinEdge <=>
                    Price(Dear(lower, higher)) - Price(Cheap(lower, higher)) >= Hides(Dear(lower, higher)))
           /\ lower.operator = "range_between" => PairEdge(lower, higher) < PvMinEdge
<1>1. PvMinEdge \in Nat \ {0}
  BY MvpAssumption DEF MvpAssumption
<1>2. ASSUME NEW m \in pv_markets, Price(m) # PvNone
      PROVE  /\ Price(m) \in 0 .. 100 /\ pv_live[m].spread \in Nat /\ FeeCost(pv_live[m]) \in Nat
             /\ Hides(m) \in Nat \ {0}
  <2>1. pv_live[m] \in PvBooks \cup {PvNone}
    BY DEF LivePrices
  <2>2. Price(m) \in 0 .. 100 /\ pv_live[m] \in PvBooks
    BY <1>2, <2>1, ReferencePrice DEF Price
  <2> QED BY <1>1, <2>2, CostsNat DEF Hides
<1>3. /\ Price(lower) \in 0 .. 100 /\ Price(higher) \in 0 .. 100
      /\ Hides(lower) \in Nat \ {0} /\ Hides(higher) \in Nat \ {0}
  BY <1>2
<1> DEFINE p == Price(lower)
           q == Price(higher)
           v == MonotonicViolation(lower.operator, p, q)
<1> USE DEF Ascending, Descending
<1>4. CASE lower.operator \in Ascending
  <2> DEFINE s == pv_live[higher].spread
             f == FeeCost(pv_live[higher])
  <2>1. s \in Nat /\ f \in Nat /\ p \in 0 .. 100 /\ q \in 0 .. 100
    BY <1>2
  <2>2. v = IF q - p < 0 THEN 0 ELSE q - p
    BY <1>4 DEF MonotonicViolation
  <2>3. PairEdge(lower, higher) = v - s - f
    BY <1>4 DEF PairEdge, EdgeAfterCost, Dear
  <2>4. Price(Dear(lower, higher)) = q /\ Price(Cheap(lower, higher)) = p /\ Hides(Dear(lower, higher)) = PvMinEdge + s + f
    BY <1>4 DEF Dear, Cheap, Hides
  <2>5. lower.operator # "range_between"
    BY <1>4
  <2> HIDE DEF p, q, v, s, f
  <2> QED BY <1>1, <1>3, <2>1, <2>2, <2>3, <2>4, <2>5
<1>5. CASE lower.operator \in Descending
  <2> DEFINE s == pv_live[lower].spread
             f == FeeCost(pv_live[lower])
  <2>1. s \in Nat /\ f \in Nat /\ p \in 0 .. 100 /\ q \in 0 .. 100
    BY <1>2
  <2>2. v = IF p - q < 0 THEN 0 ELSE p - q
    BY <1>5 DEF MonotonicViolation
  <2>3. PairEdge(lower, higher) = v - s - f
    BY <1>5 DEF PairEdge, EdgeAfterCost, Dear
  <2>4. Price(Dear(lower, higher)) = p /\ Price(Cheap(lower, higher)) = q /\ Hides(Dear(lower, higher)) = PvMinEdge + s + f
    BY <1>5 DEF Dear, Cheap, Hides
  <2>5. lower.operator # "range_between"
    BY <1>5
  <2> HIDE DEF p, q, v, s, f
  <2> QED BY <1>1, <1>3, <2>1, <2>2, <2>3, <2>4, <2>5
<1>6. CASE lower.operator = "range_between"
  <2> DEFINE s == pv_live[lower].spread
             f == FeeCost(pv_live[lower])
  <2>1. s \in Nat /\ f \in Nat
    BY <1>2
  <2>2. v = 0
    BY <1>6 DEF MonotonicViolation
  <2>3. PairEdge(lower, higher) = v - s - f
    BY <1>6 DEF PairEdge, EdgeAfterCost, Dear
  <2>4. lower.operator \notin Ascending \cup Descending
    BY <1>6
  <2> HIDE DEF p, q, v, s, f
  <2> QED BY <1>1, <1>3, <1>6, <2>1, <2>2, <2>3, <2>4
<1> QED BY <1>4, <1>5, <1>6 DEF MarketDefinition, SupportedOperators

\* A pair's signal is justified by the other market of the pair.
LEMMA PairJustified ==
    ASSUME LivePrices, pv_markets \subseteq MarketDefinition,
           NEW lower \in pv_markets, NEW higher \in pv_markets,
           Related(lower, higher), Below(lower, higher),
           NEW s \in PairSignals(lower, higher)
    PROVE  /\ s = [alpha |-> "incoherence", market |-> Dear(lower, higher), edge |-> PairEdge(lower, higher)]
           /\ s \in SignalCandidate /\ s.market \in pv_markets
           /\ LET other == Cheap(lower, higher)
              IN  /\ other \in pv_markets
                  /\ MustBeLikelier(other, s.market)
                  /\ other.expiry - s.market.expiry < PvExpiryWindow
                  /\ s.market.expiry - other.expiry < PvExpiryWindow
                  /\ Price(other) # PvNone
                  /\ Price(s.market) - Price(other) >= Hides(s.market)
<1>1. /\ Price(lower) # PvNone /\ Price(higher) # PvNone /\ PairEdge(lower, higher) >= PvMinEdge
      /\ s = [alpha |-> "incoherence", market |-> Dear(lower, higher), edge |-> PairEdge(lower, higher)]
  BY PairSignal
<1>2. /\ PairEdge(lower, higher) \in Int /\ PvMinEdge \in Int
      /\ lower.operator \in Ascending \cup Descending =>
            Price(Dear(lower, higher)) - Price(Cheap(lower, higher)) >= Hides(Dear(lower, higher))
      /\ lower.operator # "range_between"
  BY <1>1, PairNumbers, MvpAssumption DEF MvpAssumption
<1>3. /\ lower \in MarketDefinition /\ higher \in MarketDefinition
      /\ lower.operator = higher.operator /\ lower.underlying = higher.underlying
      /\ lower.strike \in Nat /\ higher.strike \in Nat /\ lower.expiry \in Int /\ higher.expiry \in Int
      /\ lower.operator \in Ascending \cup Descending
  BY <1>2 DEF MarketDefinition, Related, SupportedOperators
<1>4. lower.strike <= higher.strike
  BY <1>3 DEF Below
<1>5. lower.expiry - higher.expiry < PvExpiryWindow /\ higher.expiry - lower.expiry < PvExpiryWindow
  <2>1. PvExpiryWindow \in Nat \ {0} /\ lower.expiry \div PvExpiryWindow = higher.expiry \div PvExpiryWindow
    BY MvpAssumption DEF MvpAssumption, Related
  <2> QED BY <1>3, <2>1, OneWindow
<1> DEFINE dear == Dear(lower, higher)
           cheap == Cheap(lower, higher)
<1>6. MustBeLikelier(cheap, dear) /\ dear \in {lower, higher} /\ cheap \in {lower, higher}
      /\ dear.expiry - cheap.expiry < PvExpiryWindow /\ cheap.expiry - dear.expiry < PvExpiryWindow
  BY <1>3, <1>4, <1>5 DEF MustBeLikelier, LikelierAt, Dear, Cheap, Ascending, Descending
<1>7. s.market = dear /\ dear \in pv_markets /\ cheap \in pv_markets /\ dear \in MarketDefinition
      /\ Price(cheap) # PvNone /\ Price(dear) - Price(cheap) >= Hides(dear)
  BY <1>1, <1>2, <1>3, <1>6
<1>8. s \in SignalCandidate
  BY <1>1, <1>2, <1>7 DEF SignalCandidate
<1> HIDE DEF dear, cheap
<1> QED BY <1>1, <1>6, <1>7, <1>8 DEF dear, cheap

-----------------------------------------------------------------------------
(* The MVP library: the invariant *)

StrikesRead == \A m \in pv_markets : m.strike = StrikeOf(m.question)
UniqueIds == \A x, y \in pv_markets : x.id = y.id => x = y
SignalsMade ==
    \A s \in pv_signals : s.alpha = "incoherence" =>
        \E group \in pv_scored : \E p \in Neighbours(group) : s \in PairSignals(p[1], p[2])
SignalsGiven ==
    \A group \in pv_scored : \A p \in Neighbours(group) : PairSignals(p[1], p[2]) \subseteq pv_signals
OneTail == \A s, t \in pv_signals : s.alpha = "tail" /\ t.alpha = "tail" => s = t
MostLost == PvMaxNotional + (PvMaxNotional * PvFeeBps) \div 10000

\* The strikes are those read from the questions; the signals are those of the pairs
\* of the groups scored, from prices that no longer change; a trade costs at most the notional and the fee on it.
MvpHolds ==
    /\ MvpTypeOK
    /\ IsFiniteSet(pv_markets) /\ UniqueIds /\ StrikesRead
    /\ pv_pc \in {"parse", "observe"} => pv_signals = {} /\ pv_scored = {}
    /\ pv_scored \subseteq BuildRelatedGroups(pv_markets)
    /\ SignalsMade /\ SignalsGiven /\ OneTail
    /\ pv_pc \in {"traded", "settled"} => pv_trade \in PaperTrade /\ pv_trade.cost <= MostLost
    /\ pv_result # PvNone => pv_result.pnl >= -MostLost

LEMMA MvpBegins == MvpInit => MvpHolds
<1> SUFFICES ASSUME MvpInit PROVE MvpHolds
  OBVIOUS
<1>1. IsFiniteSet({})
  BY FS_EmptySet
<1> QED BY <1>1 DEF MvpInit, MvpHolds, MvpTypeOK, UniqueIds, StrikesRead, SignalsMade, SignalsGiven, OneTail

\* A question that is kept has one of the operators.
LEMMA OperatorInferred ==
    ASSUME NEW words, InferOperatorType(words) # PvNone
    PROVE  InferOperatorType(words) \in SupportedOperators
<1> DEFINE spoken == {i \in DOMAIN OperatorWords : OperatorWords[i][1] \in words}
           first == CHOOSE i \in spoken : \A j \in spoken : i <= j
<1>1. DOMAIN OperatorWords = 1 .. 5 /\ \A i \in 1 .. 5 : OperatorWords[i][2] \in SupportedOperators
  BY DEF OperatorWords, SupportedOperators, Ascending, Descending
<1>2. spoken # {}
  BY DEF InferOperatorType
<1>3. first \in spoken
  <2>1. spoken \subseteq Nat
    BY <1>1
  <2> HIDE DEF spoken
  <2>2. \E i \in spoken : \A j \in spoken : i <= j
    BY <1>2, <2>1, LeastNatural
  <2> QED BY <2>2
<1>4. InferOperatorType(words) = OperatorWords[first][2]
  BY <1>2 DEF InferOperatorType
<1> HIDE DEF first
<1> QED BY <1>1, <1>3, <1>4

\* A number of a scale's size has three digits before the scale.
LEMMA DigitsAtScale ==
    ASSUME NEW written \in Nat, NEW scale \in Nat \ {0}, 100 * scale <= written, written < 1000 * scale
    PROVE  written \div scale \in 100 .. 999
<1> DEFINE digits == written \div scale
<1>1. digits \in Nat /\ scale * digits <= written /\ written < scale * digits + scale
  BY Quotient
<1> HIDE DEF digits
<1>2. ~(digits + 1 <= 100)
  <2> SUFFICES ASSUME digits + 1 <= 100 PROVE FALSE
    OBVIOUS
  <2>1. scale * (digits + 1) <= scale * 100
    BY <1>1, ProductMonotonic
  <2> QED BY <1>1, <2>1
<1>3. ~(digits >= 1000)
  <2> SUFFICES ASSUME digits >= 1000 PROVE FALSE
    OBVIOUS
  <2>1. scale * 1000 <= scale * digits
    BY <1>1, ProductMonotonic
  <2> QED BY <1>1, <2>1
<1> QED BY <1>1, <1>2, <1>3 DEF digits

\* A longer number has three digits to begin with.
LEMMA ThreeDigits ==
    ASSUME NEW written \in Nat, 1000 <= written, written < 1000 * Million
    PROVE  LeadingDigits(written) \in 100 .. 999
<1>1. PICK scale \in Scales : scale \in Nat \ {0} /\ 100 * scale <= written /\ written < 1000 * scale
  BY SMT DEF Scales, Million
<1>2. written \div scale \in 100 .. 999
  BY <1>1, DigitsAtScale
<1> DEFINE Threes == 100 .. 999
           Begins(digits) == \E s \in Scales : digits = written \div s
<1>3. \E digits \in Threes : Begins(digits)
  BY <1>2
<1>4. LeadingDigits(written) = CHOOSE digits \in Threes : Begins(digits)
  BY DEF LeadingDigits
<1> HIDE DEF Threes, Begins
<1>5. LeadingDigits(written) \in Threes
  BY <1>3, <1>4
<1> QED BY <1>5 DEF Threes

\* What is read of a question is a number.
LEMMA StrikeIsNumber ==
    ASSUME NEW question \in Question
    PROVE  StrikeOf(question) \in Nat
<1>1. CASE question.numbers = <<>>
  BY <1>1 DEF StrikeOf, ExtractStrike
<1>2. CASE question.numbers # <<>>
  <2>1. question.numbers[1] \in Number
    BY <1>2 DEF Question
  <2>2. Million \in Nat /\ question.numbers[1].written \in 0 .. 1000 * Million - 1
    <3>1. Million \in Nat
      BY DEF Million
    <3> QED BY <2>1, <3>1 DEF Number
  <2>3. DigitsRead(question.numbers[1]) \in Nat
    <3>1. CASE question.numbers[1].written < 1000
      BY <2>2, <3>1 DEF DigitsRead
    <3>2. CASE ~(question.numbers[1].written < 1000)
      <4>1. question.numbers[1].written \in Nat /\ 1000 <= question.numbers[1].written
            /\ question.numbers[1].written < 1000 * Million
        BY <2>2, <3>2
      <4>2. LeadingDigits(question.numbers[1].written) \in 100 .. 999
        BY <4>1, ThreeDigits
      <4> QED BY <2>2, <4>2 DEF DigitsRead
    <3> QED BY <3>1, <3>2
  <2> QED BY <1>2, <2>3 DEF StrikeOf, ExtractStrike
<1> QED BY <1>1, <1>2

\* Of a plainly asked question the level is read.
LEMMA PlainLevelIsRead ==
    ASSUME NEW question \in Question, PlainlyAsked(question)
    PROVE  LevelNamed(question) = StrikeOf(question)
<1>1. question.numbers # <<>> /\ question.about = 1 /\ question.numbers[1].unit = 1
      /\ DigitsRead(question.numbers[1]) = question.numbers[1].written
  BY DEF PlainlyAsked, DigitsRead
<1>2. question.numbers[1] \in Number
  BY <1>1 DEF Question
<1>3. question.numbers[1].written \in Nat /\ question.numbers[1].written # PvNone
  <2>1. question.numbers[1].written \in 0 .. 1000 * Million - 1
    BY <1>2 DEF Number
  <2>2. PvNone \notin Int
    BY MvpAssumption, Zenon DEF MvpAssumption
  <2> QED BY <2>1, <2>2
<1>4. StrikeOf(question) = question.numbers[1].written
  BY <1>1, <1>3 DEF StrikeOf, ExtractStrike
<1>5. LevelNamed(question) = question.numbers[1].written * question.numbers[1].unit
  BY <1>1 DEF LevelNamed
<1> QED BY <1>1, <1>3, <1>4, <1>5

LEMMA MarketParsedMvp ==
    ASSUME NEW raw \in RawQuestions, Eligible(raw), NEW now \in Int
    PROVE  LET market == ParseMarketDefinition(raw, now)
           IN  market \in MarketDefinition /\ market.id = raw.id /\ market.strike = StrikeOf(market.question)
<1>1. InferOperatorType(raw.question.words) \in SupportedOperators
  BY OperatorInferred DEF Eligible
<1>2. raw.underlying \in STRING /\ raw.id \in Nat /\ raw.expiry \in Int /\ raw.question \in Question
  BY DEF Eligible, RawQuestions, Optional
<1>3. BucketizeExpiry(raw.expiry - now) \in {"intraday", "1d-3d", "4d-7d", ">7d"}
  BY DEF BucketizeExpiry
<1>4. StrikeOf(raw.question) \in Nat
  BY <1>2, StrikeIsNumber
<1> QED BY <1>1, <1>2, <1>3, <1>4 DEF ParseMarketDefinition, MarketDefinition

LEMMA ParseKeepsMvp ==
    ASSUME MvpHolds, NEW raws \in PvRawLists, NEW now \in PvNows, ParseMarkets(raws, now)
    PROVE  MvpHolds'
<1> DEFINE kept == {r \in ToSet(raws) : Eligible(r)}
           parsed == {ParseMarketDefinition(raw, now) : raw \in kept}
<1>1. raws \in Seq(RawQuestions) /\ now \in Int /\ \A i, j \in DOMAIN raws : raws[i].id = raws[j].id => i = j
  BY MvpAssumption DEF MvpAssumption
<1>2. IsFiniteSet(ToSet(raws)) /\ ToSet(raws) \subseteq RawQuestions
  BY <1>1, RangeFinite
<1>3. IsFiniteSet(parsed)
  <2>1. IsFiniteSet(kept)
    BY <1>2, FS_Subset
  <2> DEFINE f == [r \in kept |-> ParseMarketDefinition(r, now)]
  <2>2. parsed = {f[r] : r \in kept}
    OBVIOUS
  <2> HIDE DEF kept, f
  <2> QED BY <2>1, <2>2, ImageFinite
<1>4. parsed \subseteq MarketDefinition
  BY <1>1, <1>2, MarketParsedMvp
<1>5. \A x, y \in parsed : x.id = y.id => x = y
  <2> SUFFICES ASSUME NEW q \in kept, NEW r \in kept,
                      ParseMarketDefinition(q, now).id = ParseMarketDefinition(r, now).id
               PROVE  q = r
    OBVIOUS
  <2>1. q.id = r.id
    BY <1>1, <1>2, MarketParsedMvp
  <2>2. PICK i \in DOMAIN raws, j \in DOMAIN raws : q = raws[i] /\ r = raws[j]
    BY DEF ToSet
  <2> QED BY <1>1, <2>1, <2>2
<1>10. \A m \in parsed : m.strike = StrikeOf(m.question)
  BY <1>1, <1>2, MarketParsedMvp
<1>6. /\ pv_markets' = parsed /\ pv_live' = [m \in parsed |-> PvNone] /\ pv_pc' = "observe"
      /\ pv_signals' = {} /\ pv_scored' = {} /\ pv_pc = "parse"
      /\ UNCHANGED <<pv_trade, pv_result>>
  BY DEF ParseMarkets, MvpHolds
<1> HIDE DEF parsed
<1>7. MvpTypeOK'
  BY <1>4, <1>6 DEF MvpTypeOK, MvpHolds
<1> QED BY <1>3, <1>5, <1>6, <1>7, <1>10 DEF MvpHolds, UniqueIds, StrikesRead, SignalsMade, SignalsGiven, OneTail, MostLost

LEMMA ObserveKeepsMvp ==
    ASSUME MvpHolds, NEW books \in [pv_markets -> PvBooks \cup {PvNone}], ObserveBooks(books)
    PROVE  MvpHolds'
<1>1. /\ pv_live' = books /\ pv_pc' = "score" /\ pv_signals = {} /\ pv_scored = {}
      /\ UNCHANGED <<pv_markets, pv_signals, pv_scored, pv_trade, pv_result>>
  BY DEF ObserveBooks, MvpHolds
<1>2. MvpTypeOK'
  BY <1>1 DEF MvpTypeOK, MvpHolds
<1> QED BY <1>1, <1>2 DEF MvpHolds, UniqueIds, StrikesRead, SignalsMade, SignalsGiven, OneTail, MostLost

\* Prices that stay give the same signals.
LEMMA SamePrices == pv_live' = pv_live => \A x, y : PairSignals(x, y)' = PairSignals(x, y)
BY DEF PairSignals

\* The groups are the classes of the markets by their group ids.
LEMMA Groups ==
    ASSUME pv_markets \subseteq MarketDefinition, IsFiniteSet(pv_markets), UniqueIds,
           NEW group \in BuildRelatedGroups(pv_markets)
    PROVE  /\ group \subseteq pv_markets /\ IsFiniteSet(group)
           /\ \A x, y \in group : Related(x, y)
           /\ IsOrder({p \in group \X group : Below(p[1], p[2])}, group)
           /\ \A other \in BuildRelatedGroups(pv_markets) : group \cap other # {} => group = other
<1>1. PICK id : group = {m \in pv_markets : GroupId(m) = id}
  BY DEF BuildRelatedGroups
<1>2. group \subseteq pv_markets /\ IsFiniteSet(group)
  BY <1>1, FS_Subset
<1>3. \A x, y \in group : Related(x, y)
  BY <1>1 DEF GroupId, Related
<1>4. \A other \in BuildRelatedGroups(pv_markets) : group \cap other # {} => group = other
  BY <1>1 DEF BuildRelatedGroups
<1> DEFINE R == {p \in group \X group : Below(p[1], p[2])}
<1>5. \A x \in group : x.strike \in Int /\ x.expiry \in Int /\ x.id \in Int
  BY <1>2 DEF MarketDefinition
<1>6. \A x, y \in group : x # y => x.id # y.id
  BY <1>2 DEF UniqueIds
<1>7. \A x, y \in group : <<x, y>> \in R <=> Below(x, y)
  OBVIOUS
<1>8. \A x, y \in group : x # y => Below(x, y) \/ Below(y, x)
  BY <1>5, <1>6 DEF Below
<1>9. \A x, y, z \in group : Below(x, y) /\ Below(y, z) => Below(x, z)
  BY <1>5 DEF Below
<1>10. \A x \in group : ~Below(x, x)
  BY <1>5 DEF Below
<1>11. IsOrder(R, group)
  <2> HIDE DEF R
  <2> QED BY <1>7, <1>8, <1>9, <1>10 DEF IsOrder
<1> QED BY <1>2, <1>3, <1>4, <1>11

LEMMA ScoreKeepsMvp ==
    ASSUME MvpHolds, NEW group \in BuildRelatedGroups(pv_markets), ScoreRelatedMarketIncoherence(group)
    PROVE  MvpHolds'
<1> DEFINE found == UNION {PairSignals(p[1], p[2]) : p \in Neighbours(group)}
<1>1. /\ pv_signals' = pv_signals \cup found /\ pv_scored' = pv_scored \cup {group} /\ pv_pc = "score"
      /\ UNCHANGED <<pv_pc, pv_markets, pv_live, pv_trade, pv_result>>
  BY DEF ScoreRelatedMarketIncoherence
<1>2. /\ pv_markets \subseteq MarketDefinition /\ IsFiniteSet(pv_markets) /\ UniqueIds /\ LivePrices
  BY DEF MvpHolds, MvpTypeOK, LivePrices
<1>3. group \subseteq pv_markets /\ \A x, y \in group : Related(x, y)
  BY <1>2, Groups
<1>4. ASSUME NEW s \in found
      PROVE  /\ s \in SignalCandidate /\ s.market \in pv_markets /\ s.alpha = "incoherence"
             /\ \E p \in Neighbours(group) : s \in PairSignals(p[1], p[2])
  <2>1. PICK p \in Neighbours(group) : s \in PairSignals(p[1], p[2])
    OBVIOUS
  <2>2. p[1] \in group /\ p[2] \in group /\ Below(p[1], p[2])
    BY DEF Neighbours
  <2>3. p[1] \in pv_markets /\ p[2] \in pv_markets /\ Related(p[1], p[2])
    BY <1>3, <2>2
  <2> QED BY <1>2, <2>1, <2>2, <2>3, PairJustified
<1>5. \A p \in Neighbours(group) : PairSignals(p[1], p[2]) \subseteq found
  OBVIOUS
<1> HIDE DEF found
<1>6. MvpTypeOK'
  BY <1>1, <1>3, <1>4 DEF MvpHolds, MvpTypeOK
<1>7. SignalsMade'
  BY <1>1, <1>4, SamePrices DEF MvpHolds, SignalsMade
<1>8. SignalsGiven'
  BY <1>1, <1>5, SamePrices DEF MvpHolds, SignalsGiven
<1>9. OneTail'
  BY <1>1, <1>4 DEF MvpHolds, OneTail
<1> QED BY <1>1, <1>6, <1>7, <1>8, <1>9 DEF MvpHolds, UniqueIds, StrikesRead, MostLost

LEMMA TailKeepsMvp ==
    ASSUME MvpHolds, NEW m \in pv_markets, NEW u, NEW fair \in PvFairs, NEW sample,
           ScoreTailPremium(m, u, fair, sample)
    PROVE  MvpHolds'
<1> DEFINE tail == [alpha |-> "tail", market |-> m, edge |-> ReferenceProbability(pv_live[m]) - fair]
<1>1. /\ pv_signals' = pv_signals \cup {tail} /\ pv_pc = "score" /\ \A s \in pv_signals : s.alpha # "tail"
      /\ ReferenceProbability(pv_live[m]) # PvNone
      /\ UNCHANGED <<pv_pc, pv_markets, pv_live, pv_scored, pv_trade, pv_result>>
  BY DEF ScoreTailPremium, TailPremiumFound
<1>2. ReferenceProbability(pv_live[m]) \in Int /\ fair \in Int
  <2>1. pv_live[m] \in PvBooks \cup {PvNone}
    BY DEF MvpHolds, MvpTypeOK
  <2>2. ReferenceProbability(pv_live[m]) \in 0 .. 100
    BY <1>1, <2>1, ReferencePrice
  <2>3. PvFairs \subseteq Int
    BY MvpAssumption, Zenon DEF MvpAssumption
  <2> QED BY <2>2, <2>3
<1>3. tail \in SignalCandidate /\ tail.market \in pv_markets /\ tail.alpha = "tail"
  BY <1>2 DEF MvpHolds, MvpTypeOK, SignalCandidate
<1> HIDE DEF tail
<1>4. MvpTypeOK'
  BY <1>1, <1>3 DEF MvpHolds, MvpTypeOK
<1>5. SignalsMade'
  BY <1>1, <1>3, SamePrices DEF MvpHolds, SignalsMade
<1>6. SignalsGiven'
  BY <1>1, SamePrices DEF MvpHolds, SignalsGiven
<1>7. OneTail'
  BY <1>1, <1>3 DEF OneTail
<1> QED BY <1>1, <1>4, <1>5, <1>6, <1>7 DEF MvpHolds, UniqueIds, StrikesRead, MostLost

\* A trade costs no more than the notional and the fee on it.
LEMMA EntryCost ==
    ASSUME NEW book \in PvBooks, book.ask > 0, Quantity(book) > 0
    PROVE  LET notional == Quantity(book) * book.ask
               cost == notional + (notional * PvFeeBps) \div 10000
           IN  Quantity(book) \in Nat \ {0} /\ cost \in Nat /\ cost <= MostLost
<1> DEFINE qty == Quantity(book)
           notional == qty * book.ask
           affordable == PvMaxNotional \div book.ask
<1>1. /\ book.ask \in Nat \ {0} /\ book.depth \in Nat /\ PvMaxNotional \in Nat /\ PvFeeBps \in Nat
  BY MvpAssumption DEF MvpAssumption, MarketState
<1>2. affordable \in Nat /\ book.ask * affordable <= PvMaxNotional
  BY <1>1, Quotient
<1>3. qty \in Nat \ {0} /\ qty <= affordable
  <2>1. qty = IF book.depth < affordable THEN book.depth ELSE affordable
    BY DEF Quantity
  <2> HIDE DEF affordable, qty
  <2> QED BY <1>1, <1>2, <2>1 DEF qty
<1> HIDE DEF qty, affordable
<1>4. notional \in Nat /\ notional <= PvMaxNotional
  <2>1. book.ask * qty <= book.ask * affordable /\ book.ask * qty \in Int /\ book.ask * affordable \in Int
    BY <1>1, <1>2, <1>3, ProductMonotonic
  <2>2. notional = book.ask * qty
    BY <1>1, <1>3
  <2>3. notional \in Nat
    BY <1>1, <1>3
  <2> QED BY <1>1, <1>2, <2>1, <2>2, <2>3
<1> HIDE DEF notional
<1> DEFINE fee == (notional * PvFeeBps) \div 10000
           most == (PvMaxNotional * PvFeeBps) \div 10000
<1>5. fee \in Nat /\ most \in Int /\ fee <= most
  <2> DEFINE x == notional * PvFeeBps
             y == PvMaxNotional * PvFeeBps
  <2>1. x \in Nat /\ y \in Nat /\ x <= y
    <3>1. PvFeeBps * notional <= PvFeeBps * PvMaxNotional
      BY <1>1, <1>4, ProductMonotonic
    <3> QED BY <1>1, <1>4, <3>1
  <2> HIDE DEF x, y
  <2>2. x \div 10000 <= y \div 10000
    BY <2>1, QuotientMonotonic
  <2>3. x \div 10000 \in Nat /\ y \div 10000 \in Int
    BY <2>1
  <2> QED BY <2>2, <2>3 DEF x, y
<1>6. MostLost = PvMaxNotional + most
  BY DEF MostLost
<1> HIDE DEF fee, most
<1>7. notional + fee \in Nat /\ notional + fee <= MostLost
  BY <1>1, <1>4, <1>5, <1>6
<1> QED BY <1>3, <1>7 DEF qty, notional, fee

LEMMA EntryKeepsMvp ==
    ASSUME MvpHolds, NEW signal \in pv_signals, NEW book \in PvBooks, SimulateEntry(signal, book)
    PROVE  MvpHolds'
<1> DEFINE notional == Quantity(book) * book.ask
           cost == notional + (notional * PvFeeBps) \div 10000
<1>1. /\ pv_trade' = [market |-> signal.market, alpha |-> signal.alpha, qty |-> Quantity(book), cost |-> cost]
      /\ pv_pc = "score" /\ pv_pc' = "traded" /\ book.ask > 0 /\ Quantity(book) > 0
      /\ UNCHANGED <<pv_markets, pv_live, pv_signals, pv_scored, pv_result>>
  BY DEF SimulateEntry
<1>2. Quantity(book) \in Nat \ {0} /\ cost \in Nat /\ cost <= MostLost
  BY <1>1, EntryCost
<1>3. signal.market \in MarketDefinition /\ signal.alpha \in {"incoherence", "tail"}
  BY DEF MvpHolds, MvpTypeOK, SignalCandidate
<1> HIDE DEF cost
<1>4. pv_trade' \in PaperTrade /\ pv_trade'.cost <= MostLost
  BY <1>1, <1>2, <1>3 DEF PaperTrade
<1>5. MvpTypeOK'
  BY <1>1, <1>4 DEF MvpHolds, MvpTypeOK
<1>6. SignalsMade' /\ SignalsGiven'
  BY <1>1, SamePrices DEF MvpHolds, SignalsMade, SignalsGiven
<1> QED BY <1>1, <1>4, <1>5, <1>6 DEF MvpHolds, UniqueIds, StrikesRead, OneTail, MostLost

LEMMA SettleKeepsMvp ==
    ASSUME MvpHolds, NEW label, SettleTrade(label)
    PROVE  MvpHolds'
<1> DEFINE payout == IF label = "NO" THEN 100 * pv_trade.qty ELSE 0
<1>1. /\ pv_pc = "traded" /\ pv_pc' = "settled" /\ pv_result' = [payout |-> payout, pnl |-> payout - pv_trade.cost]
      /\ UNCHANGED <<pv_markets, pv_live, pv_signals, pv_scored, pv_trade>>
  BY DEF SettleTrade
<1>2. pv_trade \in PaperTrade /\ pv_trade.cost <= MostLost /\ pv_trade.cost \in Nat /\ pv_trade.qty \in Nat
  BY <1>1 DEF MvpHolds, PaperTrade
<1>3. payout \in Nat
  BY <1>2
<1> HIDE DEF payout
<1>4. MostLost \in Int
  <2>1. PvMaxNotional * PvFeeBps \in Int /\ PvMaxNotional \in Int
    BY MvpAssumption DEF MvpAssumption
  <2> QED BY <2>1 DEF MostLost
<1>5. pv_result' \in ResolutionRecord /\ pv_result'.pnl >= -MostLost
  BY <1>1, <1>2, <1>3, <1>4 DEF ResolutionRecord
<1>6. MvpTypeOK'
  BY <1>1, <1>5 DEF MvpHolds, MvpTypeOK
<1>7. SignalsMade' /\ SignalsGiven'
  BY <1>1, SamePrices DEF MvpHolds, SignalsMade, SignalsGiven
<1> QED BY <1>1, <1>2, <1>5, <1>6, <1>7 DEF MvpHolds, UniqueIds, StrikesRead, OneTail, MostLost

LEMMA MvpStep == MvpHolds /\ [MvpNext]_pv_vars => MvpHolds'
<1> SUFFICES ASSUME MvpHolds, [MvpNext]_pv_vars PROVE MvpHolds'
  OBVIOUS
<1>1. CASE \E raws \in PvRawLists, now \in PvNows : ParseMarkets(raws, now)
  BY <1>1, ParseKeepsMvp
<1>2. CASE \E books \in [pv_markets -> PvBooks \cup {PvNone}] : ObserveBooks(books)
  BY <1>2, ObserveKeepsMvp
<1>3. CASE \E group \in BuildRelatedGroups(pv_markets) : ScoreRelatedMarketIncoherence(group)
  BY <1>3, ScoreKeepsMvp
<1>4. CASE \E m \in pv_markets, u \in PvUnderlyings, fair \in PvFairs, sample \in PvSamples :
              ScoreTailPremium(m, u, fair, sample)
  BY <1>4, TailKeepsMvp
<1>5. CASE \E signal \in pv_signals, book \in PvBooks : SimulateEntry(signal, book)
  BY <1>5, EntryKeepsMvp
<1>6. CASE \E label \in {"YES", "NO"} : SettleTrade(label)
  BY <1>6, SettleKeepsMvp
<1>7. CASE UNCHANGED pv_vars
  <2>1. SignalsMade' /\ SignalsGiven'
    BY <1>7, SamePrices DEF MvpHolds, SignalsMade, SignalsGiven, pv_vars
  <2> QED BY <1>7, <2>1 DEF pv_vars, MvpHolds, MvpTypeOK, UniqueIds, StrikesRead, OneTail, MostLost
<1> QED BY <1>1, <1>2, <1>3, <1>4, <1>5, <1>6, <1>7 DEF MvpNext

\* A pair of neighbours of a group.
LEMMA PairOfGroup ==
    ASSUME MvpHolds, NEW group \in pv_scored, NEW p \in Neighbours(group)
    PROVE  /\ p[1] \in group /\ p[2] \in group /\ p = <<p[1], p[2]>>
           /\ p[1] \in pv_markets /\ p[2] \in pv_markets
           /\ Related(p[1], p[2]) /\ Below(p[1], p[2])
           /\ ~\E m \in group : Below(p[1], m) /\ Below(m, p[2])
<1>1. p \in group \X group /\ Below(p[1], p[2]) /\ ~\E m \in group : Below(p[1], m) /\ Below(m, p[2])
  BY DEF Neighbours
<1>2. group \subseteq pv_markets /\ \A x, y \in group : Related(x, y)
  <2>1. /\ pv_markets \subseteq MarketDefinition /\ IsFiniteSet(pv_markets) /\ UniqueIds
        /\ group \in BuildRelatedGroups(pv_markets)
    BY DEF MvpHolds, MvpTypeOK
  <2> QED BY <2>1, Groups
<1> QED BY <1>1, <1>2

LEMMA SignalsJustified == MvpHolds => IncoherenceJustified
<1> SUFFICES ASSUME MvpHolds, NEW s \in pv_signals, s.alpha = "incoherence"
             PROVE  \E other \in pv_markets :
                      /\ TooDearBeside(s.market, other) /\ MustBeLikelier(other, s.market)
                      /\ PlainlyAsked(s.market.question) /\ PlainlyAsked(other.question)
                           => NamedLikelier(other, s.market)
  BY DEF IncoherenceJustified
<1>1. PICK group \in pv_scored : \E p \in Neighbours(group) : s \in PairSignals(p[1], p[2])
  BY DEF MvpHolds, SignalsMade
<1>2. PICK p \in Neighbours(group) : s \in PairSignals(p[1], p[2])
  BY <1>1
<1>3. p[1] \in pv_markets /\ p[2] \in pv_markets /\ Related(p[1], p[2]) /\ Below(p[1], p[2])
  BY PairOfGroup
<1>4. LivePrices /\ pv_markets \subseteq MarketDefinition /\ StrikesRead
  BY DEF MvpHolds, MvpTypeOK, LivePrices
<1>5. PICK other \in pv_markets :
          TooDearBeside(s.market, other) /\ MustBeLikelier(other, s.market) /\ s.market \in pv_markets
  BY <1>2, <1>3, <1>4, PairJustified DEF Price, Hides, TooDearBeside
<1>6. ASSUME PlainlyAsked(s.market.question), PlainlyAsked(other.question)
      PROVE  NamedLikelier(other, s.market)
  <2>1. s.market.question \in Question /\ other.question \in Question
    BY <1>4, <1>5 DEF MarketDefinition
  <2>2. /\ LevelNamed(s.market.question) = s.market.strike
        /\ LevelNamed(other.question) = other.strike
    BY <1>4, <1>5, <1>6, <2>1, PlainLevelIsRead DEF StrikesRead
  <2> QED BY <1>5, <2>2 DEF MustBeLikelier, NamedLikelier
<1> QED BY <1>5, <1>6

\* A market is the dear one of one pair only.
LEMMA OnePairOfDear ==
    ASSUME MvpHolds, NEW group \in pv_scored, NEW p \in Neighbours(group), NEW q \in Neighbours(group),
           Dear(p[1], p[2]) = Dear(q[1], q[2])
    PROVE  p = q
<1>1. /\ p[1] \in group /\ p[2] \in group /\ p = <<p[1], p[2]>> /\ Below(p[1], p[2])
      /\ q[1] \in group /\ q[2] \in group /\ q = <<q[1], q[2]>> /\ Below(q[1], q[2])
      /\ ~\E m \in group : Below(p[1], m) /\ Below(m, p[2])
      /\ ~\E m \in group : Below(q[1], m) /\ Below(m, q[2])
  BY PairOfGroup
<1>2. /\ \A x, y \in group : Related(x, y)
      /\ IsOrder({r \in group \X group : Below(r[1], r[2])}, group)
  <2>1. /\ pv_markets \subseteq MarketDefinition /\ IsFiniteSet(pv_markets) /\ UniqueIds
        /\ group \in BuildRelatedGroups(pv_markets)
    BY DEF MvpHolds, MvpTypeOK
  <2> QED BY <2>1, Groups
<1>3. \A x, y \in group : x # y => Below(x, y) \/ Below(y, x)
  BY <1>2 DEF IsOrder
<1>4. p[1].operator = q[1].operator
  BY <1>1, <1>2 DEF Related
<1>5. CASE p[1].operator \in Ascending
  <2>1. p[2] = q[2]
    BY <1>4, <1>5 DEF Dear
  <2> QED BY <1>1, <1>3, <2>1
<1>6. CASE p[1].operator \notin Ascending
  <2>1. p[1] = q[1]
    BY <1>4, <1>6 DEF Dear
  <2> QED BY <1>1, <1>3, <2>1
<1> QED BY <1>5, <1>6

LEMMA SignalsApart == MvpHolds => OneSignalPerMarket
<1> SUFFICES ASSUME MvpHolds, NEW s \in pv_signals, NEW t \in pv_signals,
                    s.alpha = t.alpha, s.market.id = t.market.id
             PROVE  s = t
  BY DEF OneSignalPerMarket
<1>1. s.market = t.market
  BY DEF MvpHolds, MvpTypeOK, UniqueIds
<1>2. s.alpha \in {"incoherence", "tail"}
  BY DEF MvpHolds, MvpTypeOK, SignalCandidate
<1>3. CASE s.alpha = "tail"
  BY <1>3 DEF MvpHolds, OneTail
<1>4. CASE s.alpha = "incoherence"
  <2>1. PICK g \in pv_scored : \E p \in Neighbours(g) : s \in PairSignals(p[1], p[2])
    BY <1>4 DEF MvpHolds, SignalsMade
  <2>2. PICK p \in Neighbours(g) : s \in PairSignals(p[1], p[2])
    BY <2>1
  <2>3. PICK h \in pv_scored : \E q \in Neighbours(h) : t \in PairSignals(q[1], q[2])
    BY <1>4 DEF MvpHolds, SignalsMade
  <2>4. PICK q \in Neighbours(h) : t \in PairSignals(q[1], q[2])
    BY <2>3
  <2>5. /\ p[1] \in g /\ p[2] \in g /\ p[1] \in pv_markets /\ p[2] \in pv_markets
        /\ Related(p[1], p[2]) /\ Below(p[1], p[2])
    BY PairOfGroup
  <2>6. /\ q[1] \in h /\ q[2] \in h /\ q[1] \in pv_markets /\ q[2] \in pv_markets
        /\ Related(q[1], q[2]) /\ Below(q[1], q[2])
    BY PairOfGroup
  <2>7. LivePrices /\ pv_markets \subseteq MarketDefinition
    BY DEF MvpHolds, MvpTypeOK, LivePrices
  <2>8. s = [alpha |-> "incoherence", market |-> Dear(p[1], p[2]), edge |-> PairEdge(p[1], p[2])]
    BY <2>2, <2>5, <2>7, PairJustified
  <2>9. t = [alpha |-> "incoherence", market |-> Dear(q[1], q[2]), edge |-> PairEdge(q[1], q[2])]
    BY <2>4, <2>6, <2>7, PairJustified
  <2>10. Dear(p[1], p[2]) = Dear(q[1], q[2])
    BY <1>1, <2>8, <2>9
  <2>11. Dear(p[1], p[2]) \in g /\ Dear(q[1], q[2]) \in h
    BY <2>5, <2>6 DEF Dear
  <2>12. g = h
    <3>1. /\ pv_markets \subseteq MarketDefinition /\ IsFiniteSet(pv_markets) /\ UniqueIds
          /\ g \in BuildRelatedGroups(pv_markets) /\ h \in BuildRelatedGroups(pv_markets)
      BY DEF MvpHolds, MvpTypeOK
    <3>2. g \cap h # {}
      BY <2>10, <2>11
    <3>3. \A other \in BuildRelatedGroups(pv_markets) : g \cap other # {} => g = other
      BY <3>1, Groups
    <3> QED BY <3>1, <3>2, <3>3
  <2>13. p = q
    BY <2>10, <2>12, OnePairOfDear
  <2> QED BY <2>8, <2>9, <2>13
<1> QED BY <1>2, <1>3, <1>4

LEMMA LiquidityEnough == MvpHolds => LiquidityNeverDecides
<1> SUFFICES ASSUME MvpHolds, NEW m \in pv_markets, ReferenceProbability(pv_live[m]) # PvNone
             PROVE  LiquidityScore(pv_live[m]) >= PvMinLiquidity
  BY DEF LiquidityNeverDecides
<1>1. pv_live[m] \in PvBooks \cup {PvNone}
  BY DEF MvpHolds, MvpTypeOK
<1> QED BY <1>1, DeepEnough

\* A scored group that gave no signal has no large contradiction anywhere.
LEMMA QuietGroup ==
    ASSUME MvpHolds, NEW group \in pv_scored, NEW worst \in Nat \ {0},
           \A m \in group : Price(m) # PvNone /\ Hides(m) <= worst,
           ~\E s \in pv_signals : s.alpha = "incoherence" /\ s.market \in group,
           NEW x \in group, NEW y \in group, MustBeLikelier(x, y), x.strike # y.strike
    PROVE  Price(y) - Price(x) < (Cardinality(group) - 1) * worst
<1> DEFINE R == {p \in group \X group : Below(p[1], p[2])}
           step == worst - 1
<1>1. /\ LivePrices /\ pv_markets \subseteq MarketDefinition
      /\ group \subseteq pv_markets /\ IsFiniteSet(group)
      /\ \A u, v \in group : Related(u, v)
      /\ IsOrder(R, group)
  <2>1. /\ pv_markets \subseteq MarketDefinition /\ IsFiniteSet(pv_markets) /\ UniqueIds /\ LivePrices
        /\ group \in BuildRelatedGroups(pv_markets)
    BY DEF MvpHolds, MvpTypeOK, LivePrices
  <2> QED BY <2>1, Groups
<1>2. \A m \in group : Price(m) \in 0 .. 100
  <2> SUFFICES ASSUME NEW m \in group PROVE Price(m) \in 0 .. 100
    OBVIOUS
  <2>1. pv_live[m] \in PvBooks \cup {PvNone}
    BY <1>1 DEF LivePrices
  <2> QED BY <2>1, ReferencePrice DEF Price
<1>3. ASSUME NEW l \in group, NEW h \in group, NextTo(R, group, l, h)
      PROVE  l.operator \in Ascending \cup Descending =>
               Price(Dear(l, h)) - Price(Cheap(l, h)) <= step
  <2>1. /\ Below(l, h) /\ <<l, h>> \in group \X group
        /\ ~\E m \in group : Below(l, m) /\ Below(m, h)
    BY <1>3 DEF NextTo
  <2>2. <<l, h>> \in Neighbours(group)
    <3> DEFINE pair == <<l, h>>
    <3>1. pair \in group \X group /\ pair[1] = l /\ pair[2] = h
      OBVIOUS
    <3> HIDE DEF pair
    <3> QED BY <2>1, <3>1 DEF Neighbours, pair
  <2>3. PairSignals(l, h) \subseteq pv_signals
    BY <2>2 DEF MvpHolds, SignalsGiven
  <2>4. Dear(l, h) \in group /\ Cheap(l, h) \in group
    BY DEF Dear, Cheap
  <2>5. l \in pv_markets /\ h \in pv_markets /\ Price(l) # PvNone /\ Price(h) # PvNone
    BY <1>1
  <2>6. ~(PairEdge(l, h) >= PvMinEdge)
    <3> SUFFICES ASSUME PairEdge(l, h) >= PvMinEdge PROVE FALSE
      OBVIOUS
    <3> DEFINE s == [alpha |-> "incoherence", market |-> Dear(l, h), edge |-> PairEdge(l, h)]
    <3>1. s \in PairSignals(l, h)
      BY <1>1, <2>5, PairSignal
    <3> QED BY <2>3, <2>4, <3>1
  <2>7. l.operator \in Ascending \cup Descending =>
          ~(Price(Dear(l, h)) - Price(Cheap(l, h)) >= Hides(Dear(l, h)))
    BY <1>1, <2>5, <2>6, PairNumbers
  <2>8. Hides(Dear(l, h)) \in Nat
    BY <1>1, <2>5, PairNumbers DEF Dear
  <2>9. Hides(Dear(l, h)) <= worst /\ Price(Dear(l, h)) \in Int /\ Price(Cheap(l, h)) \in Int
    BY <1>2, <2>4
  <2> QED BY <2>7, <2>8, <2>9
<1>4. step \in Nat /\ Cardinality(group) \in Nat /\ Cardinality(group) - 1 \in Nat \ {0}
  <2>1. IsFiniteSet(group \ {x}) /\ Cardinality(group \ {x}) = Cardinality(group) - 1
        /\ Cardinality(group \ {x}) \in Nat /\ Cardinality(group) \in Nat
    BY <1>1, FS_RemoveElement, FS_CardinalityType
  <2>2. y \in group \ {x}
    OBVIOUS
  <2>3. Cardinality(group \ {x}) # 0
    BY <2>1, <2>2, FS_EmptySet
  <2> QED BY <2>1, <2>3
<1>5. /\ x.operator = y.operator /\ x.operator \in Ascending \cup Descending
      /\ x.operator \in Ascending => x.strike <= y.strike
      /\ x.operator \notin Ascending => y.strike <= x.strike
      /\ x.strike \in Int /\ y.strike \in Int
  BY <1>1 DEF MustBeLikelier, LikelierAt, MarketDefinition
<1>6. Price(y) - Price(x) <= step * (Cardinality(group) - 1)
  <2> HIDE DEF step, R
  <2>1. CASE x.operator \in Ascending
    <3> DEFINE val == [m \in group |-> Price(m)]
    <3>1. val \in [group -> Int]
      BY <1>2
    <3>2. ASSUME NEW l \in group, NEW h \in group, NextTo(R, group, l, h) PROVE val[h] - val[l] <= step
      <4>1. l.operator \in Ascending
        BY <1>1, <2>1 DEF Related
      <4> QED BY <1>3, <3>2, <4>1 DEF Dear, Cheap
    <3>3. <<x, y>> \in R
      BY <1>5, <2>1 DEF R, Below
    <3>4. val[y] - val[x] <= step * (Cardinality(group) - 1)
      <4> HIDE DEF val
      <4> QED BY <1>1, <1>4, <3>1, <3>2, <3>3, ChainOfSteps
    <3> QED BY <3>4
  <2>2. CASE x.operator \notin Ascending
    <3> DEFINE val == [m \in group |-> 0 - Price(m)]
    <3>1. val \in [group -> Int]
      BY <1>2
    <3>2. ASSUME NEW l \in group, NEW h \in group, NextTo(R, group, l, h) PROVE val[h] - val[l] <= step
      <4>1. l.operator \notin Ascending /\ l.operator \in Ascending \cup Descending
        BY <1>1, <1>5, <2>2 DEF Related
      <4>2. Price(l) - Price(h) <= step
        BY <1>3, <3>2, <4>1 DEF Dear, Cheap
      <4> QED BY <1>2, <1>4, <4>2
    <3>3. <<y, x>> \in R
      BY <1>5, <2>2 DEF R, Below
    <3>4. val[x] - val[y] <= step * (Cardinality(group) - 1)
      <4> HIDE DEF val
      <4> QED BY <1>1, <1>4, <3>1, <3>2, <3>3, ChainOfSteps
    <3>5. val[x] - val[y] = Price(y) - Price(x)
      BY <1>2
    <3> QED BY <3>4, <3>5
  <2> QED BY <2>1, <2>2
<1> DEFINE n == Cardinality(group) - 1
<1>7. n \in Nat \ {0} /\ step * n \in Int /\ n * worst \in Int /\ step * n = n * worst - n
  BY <1>4
<1>8. Price(x) \in Int /\ Price(y) \in Int
  BY <1>2
<1>9. Price(y) - Price(x) <= step * n
  BY <1>6
<1> HIDE DEF n, step
<1>10. Price(y) - Price(x) < n * worst
  BY <1>7, <1>8, <1>9
<1> QED BY <1>10 DEF n

LEMMA NothingHides == MvpHolds => NothingHidesInSteps
<1> SUFFICES ASSUME MvpHolds, NEW group \in pv_scored, \A m \in group : Price(m) # PvNone,
                    NEW x \in group, NEW y \in group, MustBeLikelier(x, y), x.strike # y.strike,
                    ~\E s \in pv_signals : s.alpha = "incoherence" /\ s.market \in group
             PROVE  LET hidden == {Hides(m) : m \in group}
                        worst == CHOOSE h \in hidden : \A k \in hidden : k <= h
                    IN  ~(Price(y) - Price(x) >= (Cardinality(group) - 1) * worst)
  BY DEF NothingHidesInSteps, Price, Hides
<1> DEFINE hidden == {Hides(m) : m \in group}
           worst == CHOOSE h \in hidden : \A k \in hidden : k <= h
<1>1. LivePrices /\ pv_markets \subseteq MarketDefinition /\ group \subseteq pv_markets /\ IsFiniteSet(group)
  <2>1. /\ pv_markets \subseteq MarketDefinition /\ IsFiniteSet(pv_markets) /\ UniqueIds /\ LivePrices
        /\ group \in BuildRelatedGroups(pv_markets)
    BY DEF MvpHolds, MvpTypeOK, LivePrices
  <2> QED BY <2>1, Groups
<1>2. \A m \in group : Hides(m) \in Nat \ {0} /\ Price(m) \in 0 .. 100
  BY <1>1, PairNumbers
<1>3. worst \in hidden /\ \A k \in hidden : k <= worst
  <2>1. hidden \subseteq Int /\ hidden # {}
    BY <1>2
  <2>2. IsFiniteSet(hidden)
    <3> DEFINE f == [m \in group |-> Hides(m)]
    <3>1. hidden = {f[m] : m \in group}
      OBVIOUS
    <3> HIDE DEF hidden, f
    <3> QED BY <1>1, <3>1, ImageFinite
  <2> HIDE DEF hidden
  <2>3. \E h \in hidden : \A k \in hidden : k <= h
    BY <2>1, <2>2, GreatestOf
  <2> QED BY <2>3
<1>4. worst \in Nat \ {0} /\ \A m \in group : Hides(m) <= worst
  <2> HIDE DEF worst
  <2> QED BY <1>2, <1>3
<1> HIDE DEF worst
<1>5. Price(y) - Price(x) < (Cardinality(group) - 1) * worst
  BY <1>4, QuietGroup
<1>6. (Cardinality(group) - 1) * worst \in Int /\ Price(y) \in Int /\ Price(x) \in Int
  <2>1. Cardinality(group) \in Int
    BY <1>1, FS_CardinalityType
  <2> QED BY <1>2, <1>4, <2>1
<1> QED BY <1>5, <1>6 DEF worst

LEMMA MvpSignalsHold == MvpHolds => MvpSignals
<1>1. MvpHolds => LossWithinNotional
  BY DEF MvpHolds, LossWithinNotional, MostLost
<1> QED BY <1>1, SignalsJustified, NothingHides, SignalsApart, LiquidityEnough DEF MvpSignals

-----------------------------------------------------------------------------
(* The research engine: files *)

\* The rows of a file at one time.
RowsAt(file, ts) == {k \in DOMAIN file : file[k].ts = ts}

LEMMA RowsFinite ==
    ASSUME NEW file \in Seq(PricePoint), NEW ts
    PROVE  /\ IsFiniteSet(RowsAt(file, ts)) /\ Cardinality(RowsAt(file, ts)) \in Nat
<1>1. DOMAIN file = 1 .. Len(file) /\ Len(file) \in Nat
  OBVIOUS
<1>2. IsFiniteSet(DOMAIN file)
  BY <1>1, FS_Interval
<1> QED BY <1>2, FS_Subset, FS_CardinalityType DEF RowsAt

\* The rows written for one answer have each time once.
LEMMA NewRowsApart ==
    ASSUME NEW points \in Seq(PricePoint)
    PROVE  /\ NewRows(points) \in Seq(PricePoint)
           /\ \A j, k \in 1 .. Len(NewRows(points)) : NewRows(points)[j].ts = NewRows(points)[k].ts => j = k
<1> DEFINE firsts == {i \in DOMAIN points : \A k \in 1 .. i - 1 : points[k].ts # points[i].ts}
           rows == NewRows(points)
<1>1. rows = MembersAt(points, firsts)
  BY DEF NewRows
<1>2. rows \in Seq(PricePoint) /\ KeptFrom(rows, points, firsts, Len(points))
  BY <1>1, MembersKept
<1>3. PICK pos : KeptBy(pos, rows, points, firsts, Len(points))
  BY <1>2 DEF KeptFrom
<1> HIDE DEF rows
<1>4. ASSUME NEW j \in 1 .. Len(rows), NEW k \in 1 .. Len(rows), j < k PROVE rows[j].ts # rows[k].ts
  <2>1. /\ rows[j] = points[pos[j]] /\ rows[k] = points[pos[k]] /\ pos[k] \in firsts
        /\ pos[j] < pos[k] /\ pos[j] \in 1 .. Len(points) /\ pos[k] \in 1 .. Len(points)
    BY <1>3, <1>4 DEF KeptBy
  <2>2. pos[j] \in 1 .. pos[k] - 1
    BY <2>1
  <2> QED BY <2>1, <2>2
<1>5. \A j, k \in 1 .. Len(rows) : j = k \/ j < k \/ k < j
  <2>1. Len(rows) \in Nat
    BY <1>2
  <2> QED BY <2>1
<1> QED BY <1>2, <1>4, <1>5 DEF rows

\* An append adds at most one row of a time.
LEMMA AppendCounts ==
    ASSUME NEW file \in Seq(PricePoint), NEW points \in Seq(PricePoint), NEW ts
    PROVE  /\ AppendRows(file, points) \in Seq(PricePoint)
           /\ Cardinality(RowsAt(AppendRows(file, points), ts)) <= Cardinality(RowsAt(file, ts)) + 1
<1> DEFINE rows == NewRows(points)
           more == file \o rows
           L == Len(file)
<1>1. rows \in Seq(PricePoint) /\ \A j, k \in 1 .. Len(rows) : rows[j].ts = rows[k].ts => j = k
  BY NewRowsApart
<1> HIDE DEF rows
<1>2. /\ more \in Seq(PricePoint) /\ Len(more) = L + Len(rows) /\ L \in Nat /\ Len(rows) \in Nat
      /\ \A j \in 1 .. L + Len(rows) : more[j] = IF j <= L THEN file[j] ELSE rows[j - L]
  BY <1>1, Concatenated
<1>3. AppendRows(file, points) = more
  BY DEF AppendRows, rows
<1>4. \E x : RowsAt(more, ts) \subseteq RowsAt(file, ts) \cup {x}
  <2> HIDE DEF more
  <2>1. DOMAIN more = 1 .. L + Len(rows) /\ DOMAIN file = 1 .. L
    BY <1>2
  <2>2. \A k \in RowsAt(more, ts) : k \in RowsAt(file, ts) \/ (k - L \in 1 .. Len(rows) /\ rows[k - L].ts = ts /\ k \in Int)
    BY <1>2, <2>1 DEF RowsAt
  <2>3. CASE \E j \in 1 .. Len(rows) : rows[j].ts = ts
    <3>1. PICK j \in 1 .. Len(rows) : rows[j].ts = ts
      BY <2>3
    <3>2. RowsAt(more, ts) \subseteq RowsAt(file, ts) \cup {L + j}
      <4> SUFFICES ASSUME NEW k \in RowsAt(more, ts), k \notin RowsAt(file, ts) PROVE k = L + j
        OBVIOUS
      <4>1. k - L \in 1 .. Len(rows) /\ rows[k - L].ts = ts /\ k \in Int
        BY <2>2
      <4>2. k - L = j
        BY <1>1, <3>1, <4>1
      <4> QED BY <1>2, <4>1, <4>2
    <3> QED BY <3>2
  <2>4. CASE ~\E j \in 1 .. Len(rows) : rows[j].ts = ts
    BY <2>2, <2>4
  <2> QED BY <2>3, <2>4
<1> HIDE DEF more
<1>5. PICK x : RowsAt(more, ts) \subseteq RowsAt(file, ts) \cup {x}
  BY <1>4
<1>6. Cardinality(RowsAt(more, ts)) <= Cardinality(RowsAt(file, ts)) + 1
  BY <1>5, RowsFinite, CardinalityGrows
<1> QED BY <1>2, <1>3, <1>6

\* What is left of a torn file has no more rows of a time.
LEMMA TornCounts ==
    ASSUME NEW file \in Seq(PricePoint), NEW n \in 0 .. Len(file), NEW ts
    PROVE  /\ SubSeq(file, 1, n) \in Seq(PricePoint)
           /\ Cardinality(RowsAt(SubSeq(file, 1, n), ts)) <= Cardinality(RowsAt(file, ts))
<1> DEFINE rest == SubSeq(file, 1, n)
<1>1. rest \in Seq(PricePoint) /\ Len(rest) = n /\ \A j \in 1 .. n : rest[j] = file[j]
  OBVIOUS
<1>2. DOMAIN rest = 1 .. n /\ DOMAIN file = 1 .. Len(file) /\ 1 .. n \subseteq 1 .. Len(file)
  BY <1>1
<1> HIDE DEF rest
<1>3. RowsAt(rest, ts) \subseteq RowsAt(file, ts)
  BY <1>1, <1>2 DEF RowsAt
<1>4. Cardinality(RowsAt(rest, ts)) <= Cardinality(RowsAt(file, ts))
  BY <1>3, RowsFinite, CardinalityShrinks
<1> QED BY <1>1, <1>4 DEF rest

-----------------------------------------------------------------------------
(* The research engine: enumerations and the latest price *)

LEMMA LatestPriceInt ==
    ASSUME NEW t \in EngineTokens, en_prices[t] \in Seq(PricePoint)
    PROVE  LatestPrice(t) \in Int
<1> DEFINE points == en_prices[t]
           D == DOMAIN points
           Latest(i) == \A k \in D : points[k].ts < points[i].ts \/ (points[k].ts = points[i].ts /\ k <= i)
           last == CHOOSE i \in D : Latest(i)
<1>1. LatestPrice(t) = IF points = <<>> THEN -1 ELSE points[last].price
  BY DEF LatestPrice
<1>2. CASE points = <<>>
  BY <1>1, <1>2
<1>3. CASE points # <<>>
  <2>1. D = 1 .. Len(points) /\ D # {} /\ \A i \in D : points[i] \in PricePoint
    <3>1. points \in Seq(PricePoint)
      OBVIOUS
    <3> HIDE DEF points
    <3>2. D = 1 .. Len(points) /\ Len(points) \in Nat /\ \A i \in D : points[i] \in PricePoint
      BY <3>1
    <3>3. Len(points) # 0
      BY <1>3, <3>1
    <3>4. 1 \in D
      BY <3>2, <3>3
    <3> QED BY <3>2, <3>4
  <2>2. IsFiniteSet(D) /\ D \subseteq Int
    BY <2>1, FS_Interval
  <2>3. \A i \in D : points[i].ts \in Int /\ points[i].price \in Int
    BY <2>1 DEF PricePoint
  <2> HIDE DEF points, D
  <2>4. PICK i \in D : \A k \in D : points[k].ts <= points[i].ts
    <3> DEFINE f == [k \in D |-> points[k].ts]
    <3>1. \A k \in D : f[k] \in Int /\ f[k] = points[k].ts
      BY <2>3
    <3> HIDE DEF f
    <3>2. \E i \in D : \A k \in D : f[k] <= f[i]
      BY <2>1, <2>2, <3>1, Dearest
    <3> QED BY <3>1, <3>2
  <2> DEFINE same == {k \in D : points[k].ts = points[i].ts}
  <2>5. PICK n \in same : \A k \in same : k <= n
    <3>1. same \subseteq Int /\ IsFiniteSet(same) /\ same # {}
      BY <2>2, FS_Subset
    <3> HIDE DEF same
    <3> QED BY <3>1, GreatestOf
  <2>6. n \in D /\ Latest(n)
    BY <2>3, <2>4, <2>5
  <2>7. last \in D
    BY <2>6
  <2> QED BY <1>1, <1>3, <2>3, <2>7
<1> QED BY <1>2, <1>3

-----------------------------------------------------------------------------
(* The research engine: the catalogue *)

CatalogRow == [token : EngineTokens, outcome : STRING, market : STRING, event : STRING]
\* A token has one row.
OneRowEach(rows) == \A x, y \in rows : x.token = y.token => x = y

LEMMA CatalogDiscovered ==
    ASSUME NEW raw \in RawCatalogs
    PROVE  /\ DiscoverCatalog(raw) \subseteq CatalogRow /\ IsFiniteSet(DiscoverCatalog(raw))
           /\ OneRowEach(DiscoverCatalog(raw))
<1> DEFINE kept == {i \in DOMAIN raw : Kept(raw[i])}
           listed == MembersAt(raw, kept)
           seqs == [i \in DOMAIN listed |-> RowsOf(listed[i])]
           rows == FlattenSeq(seqs)
           last == {n \in DOMAIN rows : \A k \in DOMAIN rows : rows[k].token = rows[n].token => k <= n}
<1>1. raw \in Seq(GammaRecord)
  BY EngineAssumption, Zenon DEF EngineAssumption
<1>2. listed \in Seq(GammaRecord)
  BY <1>1, MembersKept
<1>3. ASSUME NEW market \in GammaRecord PROVE RowsOf(market) \in Seq(CatalogRow)
  <2> DEFINE tokens == market.tokens
  <2>1. tokens \in Seq([token : EngineTokens, outcome : STRING]) /\ market.id \in STRING /\ market.event \in STRING
    BY DEF GammaRecord
  <2>2. RowsOf(market) = [j \in DOMAIN tokens |-> [token |-> tokens[j].token, outcome |-> tokens[j].outcome,
                                                   market |-> market.id, event |-> market.event]]
    BY DEF RowsOf
  <2> HIDE DEF tokens
  <2>3. DOMAIN tokens = 1 .. Len(tokens) /\ Len(tokens) \in Nat
        /\ \A j \in 1 .. Len(tokens) : tokens[j].token \in EngineTokens /\ tokens[j].outcome \in STRING
    <3> DEFINE R == [token : EngineTokens, outcome : STRING]
    <3>1. \A r \in R : r.token \in EngineTokens /\ r.outcome \in STRING
      OBVIOUS
    <3> HIDE DEF R
    <3>2. tokens \in Seq(R)
      BY <2>1 DEF R
    <3>3. DOMAIN tokens = 1 .. Len(tokens) /\ Len(tokens) \in Nat /\ \A j \in 1 .. Len(tokens) : tokens[j] \in R
      BY <3>2
    <3> QED BY <3>1, <3>3
  <2> DEFINE n == Len(tokens)
             row(j) == [token |-> tokens[j].token, outcome |-> tokens[j].outcome,
                        market |-> market.id, event |-> market.event]
  <2>4. \A j \in 1 .. n : row(j) \in CatalogRow
    BY <2>1, <2>3 DEF CatalogRow
  <2>5. RowsOf(market) = [j \in 1 .. n |-> row(j)] /\ n \in Nat
    BY <2>2, <2>3
  <2> HIDE DEF n, row
  <2> QED BY <2>4, <2>5
<1>4. seqs \in Seq(Seq(CatalogRow))
  <2> HIDE DEF listed
  <2>1. DOMAIN listed = 1 .. Len(listed) /\ Len(listed) \in Nat /\ \A i \in 1 .. Len(listed) : listed[i] \in GammaRecord
    BY <1>2
  <2>2. \A i \in 1 .. Len(listed) : RowsOf(listed[i]) \in Seq(CatalogRow)
    BY <1>3, <2>1
  <2> QED BY <2>1, <2>2
<1>5. rows \in Seq(CatalogRow)
  <2> HIDE DEF seqs
  <2> QED BY <1>4, FlattenedElements
<1>6. DiscoverCatalog(raw) = {rows[i] : i \in last}
  BY DEF DiscoverCatalog
<1> HIDE DEF rows
<1>7. DOMAIN rows = 1 .. Len(rows) /\ Len(rows) \in Nat /\ \A i \in DOMAIN rows : rows[i] \in CatalogRow
  BY <1>5
<1>8. IsFiniteSet(last)
  <2>1. IsFiniteSet(DOMAIN rows)
    BY <1>7, FS_Interval
  <2> QED BY <2>1, FS_Subset
<1>9. \A i, j \in last : rows[i].token = rows[j].token => i = j
  BY <1>7
<1>10. last \subseteq DOMAIN rows
  OBVIOUS
<1> HIDE DEF last
<1>11. IsFiniteSet({rows[i] : i \in last})
  BY <1>8, ImageFinite
<1> QED BY <1>6, <1>7, <1>9, <1>10, <1>11 DEF OneRowEach

-----------------------------------------------------------------------------
(* The research engine: the invariant *)

Portfolios == [EngineTokens -> [lots : Nat, cost : Nat]]

\* A file has a time at most once per download, a run downloads a token once, and
\* the backtest holds tokens of the catalogue, within the limits.
PointsHold == \A t \in EngineTokens : \A ts : Cardinality(RowsAt(en_files[t], ts)) <= en_downloads[t]
DownloadsHold ==
    /\ \A t \in EngineTokens : en_downloads[t] <= en_runs
    /\ en_pc \in {"download", "writing"} =>
          en_tokens \in Seq(EngineTokens) /\ IsInjective(en_tokens)
    /\ en_pc = "download" => \A j \in 1 .. Len(en_tokens) : en_downloads[en_tokens[j]] < en_runs
    /\ en_pc = "writing" => /\ en_tokens # <<>>
                            /\ \A j \in 2 .. Len(en_tokens) : en_downloads[en_tokens[j]] < en_runs
PortfolioHolds ==
    /\ \A t \in EngineTokens : en_portfolio[t].lots = 0 => en_portfolio[t].cost = 0
    /\ HeldTokens \subseteq {row.token : row \in en_catalog}
    /\ BacktestWithinLimits
    /\ en_pc # "backtest" => en_portfolio = EmptyPortfolio
    /\ en_pc = "backtest" => en_tokens \in Seq(en_catalog)
EngineHolds ==
    /\ EngineTypeOK
    /\ en_prices \in [EngineTokens -> Seq(PricePoint)] /\ en_files \in [EngineTokens -> Seq(PricePoint)]
    /\ en_snapshots \in [EngineTokens -> BookSnapshots \cup {NoSnapshot}]
    /\ en_catalog \subseteq CatalogRow /\ IsFiniteSet(en_catalog) /\ OneRowEach(en_catalog)
    /\ PointsHold /\ DownloadsHold /\ PortfolioHolds

LEMMA EngineNumbers ==
    /\ IsFiniteSet(EngineTokens) /\ MaxEngineRuns \in Nat /\ MaxEngineCrashes \in Nat
    /\ MaxPositionPerMarket \in Nat /\ MaxGlobalExposure \in Nat /\ MaxOpenPositions \in Nat
    /\ NoSnapshot \notin BookSnapshots /\ \A snapshot \in BookSnapshots : snapshot.ask \in Nat
BY EngineAssumption, Zenon DEF EngineAssumption

LEMMA OutlaysSummable ==
    ASSUME NEW account \in Portfolios, NEW held \in SUBSET EngineTokens
    PROVE  /\ Summable(Outlays(account), held)
           /\ \A t \in EngineTokens : Outlays(account)[t] = account[t].cost /\ account[t].cost \in Nat
<1>1. \A t \in EngineTokens : Outlays(account)[t] = account[t].cost /\ account[t].cost \in Nat
  BY DEF Outlays, Portfolios
<1>2. IsFiniteSet(held)
  BY EngineNumbers, FS_Subset
<1> QED BY <1>1, <1>2 DEF Summable

\* The account after one more lot of the token at the ask.
Bought(account, token, ask) ==
    [account EXCEPT ![token] = [lots |-> @.lots + 1, cost |-> @.cost + ask]]

\* A purchase adds its price to what the tokens held have cost.
LEMMA PurchaseCosts ==
    ASSUME NEW account \in Portfolios, NEW token \in EngineTokens, NEW ask \in Nat,
           NEW held \in SUBSET EngineTokens, token \in held \/ account[token].cost = 0
    PROVE  /\ Bought(account, token, ask) \in Portfolios
           /\ SumFunctionOnSet(Outlays(Bought(account, token, ask)), held \cup {token})
                = SumFunctionOnSet(Outlays(account), held) + ask
           /\ SumFunctionOnSet(Outlays(account), held) \in Int
           /\ \A other \in SUBSET EngineTokens : token \notin other =>
                SumFunctionOnSet(Outlays(Bought(account, token, ask)), other)
                  = SumFunctionOnSet(Outlays(account), other)
<1> DEFINE more == Bought(account, token, ask)
           all == held \cup {token}
           f == Outlays(account)
           g == Outlays(more)
<1>1. account[token].lots \in Nat /\ account[token].cost \in Nat
  BY DEF Portfolios
<1>2. /\ more \in Portfolios /\ more[token].cost = account[token].cost + ask
      /\ \A t \in EngineTokens : t # token => more[t] = account[t]
  BY <1>1 DEF Bought, Portfolios
<1>3. /\ \A t \in EngineTokens : t # token => g[t] = f[t]
      /\ g[token] = f[token] + ask /\ f[token] = account[token].cost /\ f[token] \in Nat
  <2>1. \A t \in EngineTokens : f[t] = account[t].cost
    BY OutlaysSummable
  <2>2. \A t \in EngineTokens : g[t] = more[t].cost
    BY <1>2, OutlaysSummable
  <2> HIDE DEF f, g
  <2> QED BY <1>1, <1>2, <2>1, <2>2
<1>4. Summable(f, all) /\ Summable(g, all) /\ Summable(f, held) /\ token \in all /\ all \subseteq EngineTokens
  BY <1>2, OutlaysSummable
<1>5. SumFunctionOnSet(f, held) \in Int /\ SumFunctionOnSet(f, all) \in Int
  BY <1>4, SetSumDef
<1>6. SumFunctionOnSet(f, all) = SumFunctionOnSet(f, held)
  <2>1. CASE token \in held
    <3>1. all = held
      BY <2>1
    <3> QED BY <3>1
  <2>2. CASE token \notin held
    <3>1. f[token] = 0
      BY <1>3, <2>2
    <3>2. all \ {token} = held
      BY <2>2
    <3> HIDE DEF all, f
    <3>3. SumFunctionOnSet(f, all) = f[token] + SumFunctionOnSet(f, all \ {token})
      BY <1>4, SetSumRemove
    <3>4. SumFunctionOnSet(f, all) = 0 + SumFunctionOnSet(f, held)
      BY <3>1, <3>2, <3>3
    <3> QED BY <1>5, <3>4
  <2> QED BY <2>1, <2>2
<1>7. SumFunctionOnSet(g, all) = SumFunctionOnSet(f, all) + g[token] - f[token]
  <2>1. \A t \in all : t # token => g[t] = f[t]
    BY <1>3, <1>4
  <2> HIDE DEF all, f, g
  <2> QED BY <1>4, <2>1, SetSumUpdate
<1>8. ASSUME NEW other \in SUBSET EngineTokens, token \notin other
      PROVE  SumFunctionOnSet(g, other) = SumFunctionOnSet(f, other)
  <2>1. Summable(g, other) /\ \A t \in other : g[t] = f[t]
    BY <1>2, <1>3, <1>8, OutlaysSummable
  <2> HIDE DEF f, g
  <2> QED BY <2>1, SetSumSame
<1>9. SumFunctionOnSet(g, all) = SumFunctionOnSet(f, held) + ask
  <2> HIDE DEF all, f, g
  <2> QED BY <1>3, <1>5, <1>6, <1>7
<1> QED BY <1>2, <1>5, <1>8, <1>9

\* Nothing held is within all limits.
LEMMA NothingHeld == en_portfolio = EmptyPortfolio =>
    /\ \A t \in EngineTokens : en_portfolio[t].lots = 0 /\ en_portfolio[t].cost = 0
    /\ HeldTokens = {} /\ BacktestWithinLimits /\ en_portfolio \in Portfolios
<1> SUFFICES ASSUME en_portfolio = EmptyPortfolio
             PROVE  /\ \A t \in EngineTokens : en_portfolio[t].lots = 0 /\ en_portfolio[t].cost = 0
                    /\ HeldTokens = {} /\ BacktestWithinLimits /\ en_portfolio \in Portfolios
  OBVIOUS
<1>1. /\ \A t \in EngineTokens : en_portfolio[t].lots = 0 /\ en_portfolio[t].cost = 0
      /\ en_portfolio \in Portfolios
  BY DEF EmptyPortfolio, Portfolios
<1>2. HeldTokens = {}
  BY <1>1 DEF HeldTokens
<1>3. MarketsHeld = {} /\ Cardinality({}) = 0
  BY <1>2, FS_EmptySet DEF MarketsHeld
<1>4. ExposureOf({}) = 0
  <2>1. Summable(Outlays(en_portfolio), {})
    BY <1>1, OutlaysSummable
  <2> QED BY <2>1, SetSumDef DEF ExposureOf
<1>5. BacktestWithinLimits
  BY <1>2, <1>3, <1>4, EngineNumbers DEF BacktestWithinLimits
<1> QED BY <1>1, <1>2, <1>5

\* The market of a token of the catalogue is that of its row.
LEMMA MarketOfRow ==
    ASSUME OneRowEach(en_catalog), NEW row \in en_catalog
    PROVE  MarketOf(row.token) = row.market
BY DEF OneRowEach, MarketOf

LEMMA EngineBegins == EngineInit => EngineHolds
<1> SUFFICES ASSUME EngineInit PROVE EngineHolds
  OBVIOUS
<1>1. \A t \in EngineTokens : en_portfolio[t].lots = 0 /\ en_portfolio[t].cost = 0
  BY NothingHeld DEF EngineInit
<1>2. HeldTokens = {} /\ BacktestWithinLimits /\ en_portfolio \in Portfolios
  BY NothingHeld DEF EngineInit
<1>3. EngineTypeOK
  BY <1>2, EngineNumbers DEF EngineInit, EngineTypeOK, Portfolios
<1>4. PortfolioHolds
  BY <1>1, <1>2 DEF EngineInit, PortfolioHolds
<1>5. PointsHold
  <2> SUFFICES ASSUME NEW t \in EngineTokens, NEW ts PROVE Cardinality(RowsAt(en_files[t], ts)) <= en_downloads[t]
    BY DEF PointsHold
  <2>1. en_files[t] = <<>> /\ en_downloads[t] = 0
    BY DEF EngineInit
  <2>2. RowsAt(<<>>, ts) = {}
    BY DEF RowsAt
  <2>3. Cardinality(RowsAt(en_files[t], ts)) = 0
    BY <2>1, <2>2, FS_EmptySet
  <2> QED BY <2>1, <2>3
<1>6. DownloadsHold
  BY DEF EngineInit, DownloadsHold
<1>7. IsFiniteSet({})
  BY FS_EmptySet
<1> QED BY <1>3, <1>4, <1>5, <1>6, <1>7 DEF EngineInit, EngineHolds, OneRowEach

\* Outside the backtest nothing is held.
LEMMA NothingHeldAfter ==
    ASSUME en_portfolio' = EmptyPortfolio, en_pc' # "backtest"
    PROVE  PortfolioHolds' /\ en_portfolio' \in Portfolios
<1>1. (en_portfolio = EmptyPortfolio)'
  BY DEF EmptyPortfolio
<1>2. (/\ \A t \in EngineTokens : en_portfolio[t].lots = 0 /\ en_portfolio[t].cost = 0
       /\ HeldTokens = {} /\ BacktestWithinLimits /\ en_portfolio \in Portfolios)'
  BY <1>1, NothingHeld, PTL
<1> QED BY <1>1, <1>2 DEF PortfolioHolds

LEMMA CatalogKeepsEngine == EngineHolds /\ DownloadCatalog => EngineHolds'
<1> SUFFICES ASSUME EngineHolds, DownloadCatalog PROVE EngineHolds'
  OBVIOUS
<1>1. PICK raw \in RawCatalogs : /\ en_catalog' = DiscoverCatalog(raw)
                                 /\ en_tokens' = SetToSeq({row.token : row \in DiscoverCatalog(raw)})
  BY DEF DownloadCatalog
<1>2. /\ en_pc = "idle" /\ en_runs < MaxEngineRuns /\ en_pc' = "download" /\ en_runs' = en_runs + 1
      /\ en_prices' = [t \in EngineTokens |-> <<>>]
      /\ UNCHANGED <<en_files, en_downloads, en_portfolio, en_snapshots, en_crashes>>
  BY DEF DownloadCatalog
<1>3. en_catalog' \subseteq CatalogRow /\ IsFiniteSet(en_catalog') /\ OneRowEach(en_catalog)'
  BY <1>1, CatalogDiscovered DEF OneRowEach
<1> DEFINE tokens == {row.token : row \in en_catalog'}
<1>4. IsFiniteSet(tokens) /\ tokens \subseteq EngineTokens
  <2>1. tokens \subseteq EngineTokens
    BY <1>3 DEF CatalogRow
  <2> HIDE DEF tokens
  <2> QED BY <2>1, EngineNumbers, FS_Subset
<1>5. en_tokens' \in Seq(tokens) /\ IsInjective(en_tokens')
  <2>1. en_tokens' = SetToSeq(tokens)
    BY <1>1
  <2> HIDE DEF tokens
  <2> QED BY <1>4, <2>1, SetEnumerated
<1>6. en_tokens' \in Seq(EngineTokens) /\ \A j \in 1 .. Len(en_tokens') : en_tokens'[j] \in EngineTokens
  <2> HIDE DEF tokens
  <2> QED BY <1>4, <1>5
<1>7. en_portfolio = EmptyPortfolio
  BY <1>2 DEF EngineHolds, PortfolioHolds
<1>8. PortfolioHolds' /\ en_portfolio' \in Portfolios
  BY <1>2, <1>7, NothingHeldAfter
<1>9. en_runs \in Nat /\ en_runs' \in Nat /\ en_runs' <= MaxEngineRuns
      /\ \A t \in EngineTokens : en_downloads[t] \in Nat /\ en_downloads[t] <= en_runs
  BY <1>2, EngineNumbers DEF EngineHolds, EngineTypeOK, DownloadsHold
<1>10. DownloadsHold'
  BY <1>2, <1>5, <1>6, <1>9 DEF DownloadsHold
<1>11. PointsHold'
  BY <1>2 DEF EngineHolds, PointsHold
<1>12. EngineTypeOK'
  BY <1>2, <1>3, <1>8, <1>9 DEF EngineHolds, EngineTypeOK, CatalogRow, Portfolios
<1>13. en_prices' \in [EngineTokens -> Seq(PricePoint)]
  BY <1>2
<1> QED BY <1>2, <1>3, <1>8, <1>10, <1>11, <1>12, <1>13 DEF EngineHolds

LEMMA DownloadKeepsEngine == EngineHolds /\ DownloadToken => EngineHolds'
<1> SUFFICES ASSUME EngineHolds, DownloadToken PROVE EngineHolds'
  OBVIOUS
<1> DEFINE t == Head(en_tokens)
<1>1. PICK entries \in PriceHistories :
        LET points == ParsePriceHistory(entries)
        IN  /\ en_files' = [en_files EXCEPT ![t] = AppendRows(@, points)]
            /\ en_prices' = [en_prices EXCEPT ![t] = points]
            /\ en_downloads' = [en_downloads EXCEPT ![t] = @ + 1]
  BY DEF DownloadToken
<1>2. /\ en_pc = "download" /\ en_tokens # <<>> /\ en_pc' = "writing"
      /\ UNCHANGED <<en_catalog, en_tokens, en_portfolio, en_snapshots, en_runs, en_crashes>>
  BY DEF DownloadToken
<1> DEFINE points == ParsePriceHistory(entries)
<1>3. points \in Seq(PricePoint)
  <2>1. entries \in Seq(PricePoint)
    BY EngineAssumption, Zenon DEF EngineAssumption
  <2> QED BY <2>1, MembersKept DEF ParsePriceHistory
<1> HIDE DEF points
<1>4. /\ en_tokens \in Seq(EngineTokens) /\ IsInjective(en_tokens)
      /\ \A j \in 1 .. Len(en_tokens) : en_downloads[en_tokens[j]] < en_runs
  BY <1>2 DEF EngineHolds, DownloadsHold
<1>5. t \in EngineTokens /\ t = en_tokens[1] /\ Len(en_tokens) \in Nat \ {0}
  BY <1>2, <1>4, TailOf
<1> HIDE DEF t
<1>6. /\ en_files \in [EngineTokens -> Seq(PricePoint)] /\ en_prices \in [EngineTokens -> Seq(PricePoint)]
      /\ en_downloads \in [EngineTokens -> 0 .. MaxEngineRuns] /\ en_runs \in 0 .. MaxEngineRuns
      /\ \A u \in EngineTokens : en_downloads[u] <= en_runs
  BY DEF EngineHolds, EngineTypeOK, DownloadsHold
<1>7. en_downloads[t] < en_runs /\ 1 \in 1 .. Len(en_tokens)
  BY <1>4, <1>5
<1>8. /\ en_files' \in [EngineTokens -> Seq(PricePoint)] /\ en_prices' \in [EngineTokens -> Seq(PricePoint)]
      /\ en_files'[t] = AppendRows(en_files[t], points)
      /\ \A u \in EngineTokens : u # t => en_files'[u] = en_files[u]
  <2>1. AppendRows(en_files[t], points) \in Seq(PricePoint)
    BY <1>3, <1>5, <1>6, AppendCounts
  <2>2. /\ en_files' = [en_files EXCEPT ![t] = AppendRows(@, points)]
        /\ en_prices' = [en_prices EXCEPT ![t] = points]
    BY <1>1 DEF points
  <2> QED BY <1>3, <1>5, <1>6, <2>1, <2>2
<1>9. /\ en_downloads' \in [EngineTokens -> 0 .. MaxEngineRuns]
      /\ en_downloads'[t] = en_downloads[t] + 1 /\ en_downloads[t] \in Nat
      /\ \A u \in EngineTokens : u # t => en_downloads'[u] = en_downloads[u]
      /\ \A u \in EngineTokens : en_downloads'[u] <= en_runs
  <2>1. en_downloads' = [en_downloads EXCEPT ![t] = en_downloads[t] + 1]
    BY <1>1
  <2>2. en_downloads[t] + 1 \in 0 .. MaxEngineRuns /\ en_downloads[t] + 1 <= en_runs /\ en_downloads[t] \in Nat
    BY <1>5, <1>6, <1>7, EngineNumbers
  <2> QED BY <1>5, <1>6, <2>1, <2>2
<1>10. PointsHold'
  <2> SUFFICES ASSUME NEW u \in EngineTokens, NEW ts
               PROVE  Cardinality(RowsAt(en_files'[u], ts)) <= en_downloads'[u]
    BY DEF PointsHold, RowsAt
  <2>1. Cardinality(RowsAt(en_files[u], ts)) <= en_downloads[u]
    BY DEF EngineHolds, PointsHold
  <2>2. CASE u # t
    BY <1>8, <1>9, <2>1, <2>2
  <2>3. CASE u = t
    <3>1. en_files[t] \in Seq(PricePoint)
      BY <1>5, <1>6
    <3>2. Cardinality(RowsAt(en_files'[t], ts)) <= Cardinality(RowsAt(en_files[t], ts)) + 1
      BY <1>3, <1>8, <3>1, AppendCounts
    <3>3. Cardinality(RowsAt(en_files[t], ts)) \in Nat /\ Cardinality(RowsAt(en_files'[t], ts)) \in Nat
      BY <1>5, <1>8, <3>1, RowsFinite
    <3> QED BY <1>9, <2>1, <2>3, <3>2, <3>3
  <2> QED BY <2>2, <2>3
<1>11. DownloadsHold'
  <2>1. ASSUME NEW j \in 2 .. Len(en_tokens) PROVE en_downloads'[en_tokens[j]] < en_runs
    <3>1. j \in DOMAIN en_tokens /\ 1 \in DOMAIN en_tokens /\ j # 1 /\ en_tokens[j] \in EngineTokens
      BY <1>4, <1>5
    <3>2. en_tokens[j] # t
      BY <1>4, <1>5, <3>1 DEF IsInjective
    <3> QED BY <1>4, <1>9, <3>1, <3>2
  <2> QED BY <1>2, <1>4, <1>9, <2>1 DEF DownloadsHold
<1>12. PortfolioHolds' /\ en_portfolio' \in Portfolios
  <2>1. en_portfolio = EmptyPortfolio
    BY <1>2 DEF EngineHolds, PortfolioHolds
  <2> QED BY <1>2, <2>1, NothingHeldAfter
<1>13. EngineTypeOK'
  BY <1>2, <1>8, <1>9 DEF EngineHolds, EngineTypeOK
<1> QED BY <1>2, <1>8, <1>10, <1>11, <1>12, <1>13 DEF EngineHolds, OneRowEach

LEMMA WrittenKeepsEngine == EngineHolds /\ FileWritten => EngineHolds'
<1> SUFFICES ASSUME EngineHolds, FileWritten PROVE EngineHolds'
  OBVIOUS
<1>1. /\ en_pc = "writing" /\ en_pc' = "download" /\ en_tokens' = Tail(en_tokens)
      /\ UNCHANGED <<en_catalog, en_prices, en_files, en_downloads, en_portfolio, en_snapshots, en_runs, en_crashes>>
  BY DEF FileWritten
<1>2. /\ en_tokens \in Seq(EngineTokens) /\ IsInjective(en_tokens) /\ en_tokens # <<>>
      /\ \A j \in 2 .. Len(en_tokens) : en_downloads[en_tokens[j]] < en_runs
      /\ \A t \in EngineTokens : en_downloads[t] <= en_runs
  BY <1>1 DEF EngineHolds, DownloadsHold
<1>3. /\ en_tokens' \in Seq(EngineTokens) /\ IsInjective(en_tokens')
      /\ Len(en_tokens') = Len(en_tokens) - 1 /\ Len(en_tokens) \in Nat
      /\ \A j \in 1 .. Len(en_tokens) - 1 : en_tokens'[j] = en_tokens[j + 1]
  BY <1>1, <1>2, TailOf
<1>4. \A j \in 1 .. Len(en_tokens') : en_downloads[en_tokens'[j]] < en_runs
  BY <1>2, <1>3
<1>5. DownloadsHold'
  BY <1>1, <1>2, <1>3, <1>4 DEF DownloadsHold
<1>6. PortfolioHolds' /\ en_portfolio' \in Portfolios
  <2>1. en_portfolio = EmptyPortfolio
    BY <1>1 DEF EngineHolds, PortfolioHolds
  <2> QED BY <1>1, <2>1, NothingHeldAfter
<1>7. PointsHold'
  BY <1>1 DEF EngineHolds, PointsHold
<1> QED BY <1>1, <1>5, <1>6, <1>7 DEF EngineHolds, EngineTypeOK, OneRowEach

\* However a run ends, the files keep the downloads that were counted.
LEMMA EndKeepsEngine ==
    ASSUME EngineHolds, EngineEnds, en_files' \in [EngineTokens -> Seq(PricePoint)], PointsHold',
           en_crashes' \in 0 .. MaxEngineCrashes
    PROVE  EngineHolds'
<1>1. /\ en_pc' = "idle" /\ en_catalog' = {} /\ en_prices' = [t \in EngineTokens |-> <<>>]
      /\ en_portfolio' = EmptyPortfolio /\ en_snapshots' = [t \in EngineTokens |-> NoSnapshot]
      /\ UNCHANGED <<en_downloads, en_runs>>
  BY DEF EngineEnds
<1>2. PortfolioHolds' /\ en_portfolio' \in Portfolios
  BY <1>1, NothingHeldAfter
<1>3. DownloadsHold'
  BY <1>1 DEF EngineHolds, DownloadsHold
<1>4. EngineTypeOK'
  BY <1>1, <1>2 DEF EngineHolds, EngineTypeOK, Portfolios
<1>5. IsFiniteSet({})
  BY FS_EmptySet
<1>6. en_prices' \in [EngineTokens -> Seq(PricePoint)]
  BY <1>1
<1> QED BY <1>1, <1>2, <1>3, <1>4, <1>5, <1>6 DEF EngineHolds, OneRowEach

LEMMA QuietEndKeepsEngine == EngineHolds /\ (DownloadFails \/ BacktestEnds) => EngineHolds'
<1> SUFFICES ASSUME EngineHolds, DownloadFails \/ BacktestEnds PROVE EngineHolds'
  OBVIOUS
<1>1. EngineEnds /\ UNCHANGED <<en_files, en_crashes>>
  BY DEF DownloadFails, BacktestEnds
<1>2. PointsHold'
  BY <1>1 DEF EngineHolds, PointsHold, EngineEnds
<1>3. en_files' \in [EngineTokens -> Seq(PricePoint)] /\ en_crashes' \in 0 .. MaxEngineCrashes
  BY <1>1 DEF EngineHolds, EngineTypeOK
<1> QED BY <1>1, <1>2, <1>3, EndKeepsEngine

LEMMA CrashKeepsEngine == EngineHolds /\ EngineCrash => EngineHolds'
<1> SUFFICES ASSUME EngineHolds, EngineCrash PROVE EngineHolds'
  OBVIOUS
<1>1. EngineEnds /\ en_crashes < MaxEngineCrashes /\ en_crashes' = en_crashes + 1 /\ UNCHANGED en_downloads
  BY DEF EngineCrash, EngineEnds
<1>2. en_crashes' \in 0 .. MaxEngineCrashes
  BY <1>1, EngineNumbers DEF EngineHolds, EngineTypeOK
<1>3. en_files \in [EngineTokens -> Seq(PricePoint)] /\ en_downloads \in [EngineTokens -> 0 .. MaxEngineRuns]
  BY DEF EngineHolds, EngineTypeOK
<1>4. CASE en_pc = "writing"
  <2> DEFINE t == Head(en_tokens)
  <2>1. PICK n \in 0 .. Len(en_files[t]) : en_files' = [en_files EXCEPT ![t] = SubSeq(@, 1, n)]
    BY <1>4 DEF EngineCrash
  <2>2. t \in EngineTokens
    BY <1>4, TailOf DEF EngineHolds, DownloadsHold
  <2> HIDE DEF t
  <2>3. en_files[t] \in Seq(PricePoint)
    BY <1>3, <2>2
  <2> DEFINE rest == SubSeq(en_files[t], 1, n)
  <2>4. rest \in Seq(PricePoint) /\ \A ts : Cardinality(RowsAt(rest, ts)) <= Cardinality(RowsAt(en_files[t], ts))
    BY <2>3, TornCounts
  <2>5. en_files' = [en_files EXCEPT ![t] = rest]
    BY <2>1
  <2> HIDE DEF rest
  <2>6. /\ en_files' \in [EngineTokens -> Seq(PricePoint)] /\ en_files'[t] = rest
        /\ \A u \in EngineTokens : u # t => en_files'[u] = en_files[u]
    BY <1>3, <2>2, <2>4, <2>5
  <2>7. ASSUME NEW u \in EngineTokens, NEW ts
        PROVE  Cardinality(RowsAt(en_files'[u], ts)) <= en_downloads[u]
    <3>1. Cardinality(RowsAt(en_files[u], ts)) <= en_downloads[u]
      BY DEF EngineHolds, PointsHold
    <3>2. CASE u # t
      BY <2>6, <3>1, <3>2
    <3>3. CASE u = t
      <4>1. Cardinality(RowsAt(rest, ts)) \in Nat /\ Cardinality(RowsAt(en_files[t], ts)) \in Nat
        BY <2>3, <2>4, RowsFinite
      <4>2. en_downloads[t] \in Nat
        BY <1>3, <2>2
      <4> QED BY <2>4, <2>6, <3>1, <3>3, <4>1, <4>2
    <3> QED BY <3>2, <3>3
  <2>8. PointsHold'
    BY <1>1, <2>7 DEF PointsHold, RowsAt
  <2> QED BY <1>1, <1>2, <2>6, <2>8, EndKeepsEngine
<1>5. CASE en_pc # "writing"
  <2>1. UNCHANGED en_files
    BY <1>5 DEF EngineCrash
  <2>2. PointsHold'
    BY <1>1, <2>1 DEF EngineHolds, PointsHold
  <2> QED BY <1>1, <1>2, <1>3, <2>1, <2>2, EndKeepsEngine
<1> QED BY <1>4, <1>5

\* The candidates are rows of the catalogue.
LEMMA CandidatesKnown ==
    ASSUME EngineHolds
    PROVE  IncoherenceFeatures \subseteq en_catalog /\ TailFeatures \subseteq en_catalog
<1>1. en_catalog \subseteq CatalogRow /\ IsFiniteSet(en_catalog)
      /\ en_prices \in [EngineTokens -> Seq(PricePoint)]
  BY DEF EngineHolds
<1>2. \A row \in en_catalog : LatestPrice(row.token) \in Int
  <2> SUFFICES ASSUME NEW row \in en_catalog PROVE LatestPrice(row.token) \in Int
    OBVIOUS
  <2>1. row.token \in EngineTokens
    BY <1>1 DEF CatalogRow
  <2>2. en_prices[row.token] \in Seq(PricePoint)
    BY <1>1, <2>1
  <2> QED BY <2>1, <2>2, LatestPriceInt
<1>3. ASSUME NEW family \in Families
      PROVE  (CHOOSE row \in family : \A other \in family : LatestPrice(other.token) <= LatestPrice(row.token))
               \in en_catalog
  <2>1. family \subseteq en_catalog /\ family # {}
    BY DEF Families
  <2>2. IsFiniteSet(family)
    BY <1>1, <2>1, FS_Subset
  <2> DEFINE f == [row \in family |-> LatestPrice(row.token)]
  <2>3. \A row \in family : f[row] = LatestPrice(row.token) /\ f[row] \in Int
    BY <1>2, <2>1
  <2> HIDE DEF f
  <2>4. \E row \in family : \A other \in family : f[other] <= f[row]
    BY <2>1, <2>2, <2>3, Dearest
  <2>5. \E row \in family : \A other \in family : LatestPrice(other.token) <= LatestPrice(row.token)
    BY <2>3, <2>4
  <2> QED BY <2>1, <2>5
<1>4. IncoherenceFeatures \subseteq en_catalog
  BY <1>3 DEF IncoherenceFeatures
<1>5. TailFeatures \subseteq en_catalog
  BY DEF TailFeatures
<1> QED BY <1>4, <1>5

LEMMA StartKeepsEngine == EngineHolds /\ StartBacktest => EngineHolds'
<1> SUFFICES ASSUME EngineHolds, StartBacktest PROVE EngineHolds'
  OBVIOUS
<1>1. /\ en_pc = "download" /\ en_pc' = "backtest"
      /\ en_tokens' = SetToSeq(IncoherenceFeatures) \o SetToSeq(TailFeatures)
      /\ en_snapshots' \in [EngineTokens -> BookSnapshots \cup {NoSnapshot}]
      /\ UNCHANGED <<en_catalog, en_prices, en_files, en_downloads, en_portfolio, en_runs, en_crashes>>
  BY DEF StartBacktest
<1>2. en_tokens' \in Seq(en_catalog)
  <2>1. IncoherenceFeatures \subseteq en_catalog /\ TailFeatures \subseteq en_catalog /\ IsFiniteSet(en_catalog)
    BY CandidatesKnown DEF EngineHolds
  <2> DEFINE I == IncoherenceFeatures
             T == TailFeatures
  <2> HIDE DEF I, T
  <2>2. I \subseteq en_catalog /\ T \subseteq en_catalog /\ IsFiniteSet(I) /\ IsFiniteSet(T)
    BY <2>1, FS_Subset DEF I, T
  <2>3. SetToSeq(I) \in Seq(I) /\ SetToSeq(T) \in Seq(T)
    BY <2>2, SetEnumerated
  <2>4. SetToSeq(I) \in Seq(en_catalog) /\ SetToSeq(T) \in Seq(en_catalog)
    BY <2>2, <2>3
  <2>5. SetToSeq(I) \o SetToSeq(T) \in Seq(en_catalog)
    BY <2>4
  <2> QED BY <1>1, <2>5 DEF I, T
<1>3. en_portfolio = EmptyPortfolio
  BY <1>1 DEF EngineHolds, PortfolioHolds
<1>4. PortfolioHolds'
  <2>1. (en_portfolio = EmptyPortfolio)'
    BY <1>1, <1>3 DEF EmptyPortfolio
  <2>2. (/\ \A t \in EngineTokens : en_portfolio[t].lots = 0 /\ en_portfolio[t].cost = 0
         /\ HeldTokens = {} /\ BacktestWithinLimits /\ en_portfolio \in Portfolios)'
    BY <2>1, NothingHeld, PTL
  <2> QED BY <1>1, <1>2, <2>2 DEF PortfolioHolds
<1>5. PointsHold' /\ DownloadsHold'
  BY <1>1 DEF EngineHolds, PointsHold, DownloadsHold
<1>6. EngineTypeOK'
  BY <1>1 DEF EngineHolds, EngineTypeOK
<1> QED BY <1>1, <1>4, <1>5, <1>6 DEF EngineHolds, OneRowEach

\* A purchase that passes the risk checks leaves all three limits kept.
LEMMA PurchaseWithin ==
    ASSUME EngineHolds, NEW order \in en_catalog, NEW ask \in Nat, EvaluateRisk(order, ask),
           UNCHANGED en_catalog,
           en_portfolio' = [en_portfolio EXCEPT ![order.token] = [lots |-> @.lots + 1, cost |-> @.cost + ask]]
    PROVE  /\ en_portfolio' \in Portfolios
           /\ \A t \in EngineTokens : en_portfolio'[t].lots = 0 => en_portfolio'[t].cost = 0
           /\ HeldTokens' \subseteq {row.token : row \in en_catalog}
           /\ BacktestWithinLimits'
<1> DEFINE token == order.token
           market == order.market
           outlays == Outlays(en_portfolio)
           later == Outlays(en_portfolio')
           OfMarket(m) == {t \in HeldTokens : MarketOf(t) = m}
<1>1. /\ token \in EngineTokens /\ MarketOf(token) = market
      /\ en_catalog \subseteq CatalogRow /\ OneRowEach(en_catalog)
  <2>1. en_catalog \subseteq CatalogRow /\ OneRowEach(en_catalog)
    BY DEF EngineHolds
  <2> QED BY <2>1, MarketOfRow DEF CatalogRow
<1>2. /\ en_portfolio \in Portfolios
      /\ \A t \in EngineTokens : en_portfolio[t].lots = 0 => en_portfolio[t].cost = 0
      /\ HeldTokens \subseteq {row.token : row \in en_catalog} /\ BacktestWithinLimits
      /\ HeldTokens \in SUBSET EngineTokens
  BY DEF EngineHolds, EngineTypeOK, PortfolioHolds, Portfolios, HeldTokens
<1>3. /\ en_portfolio[token].lots \in Nat /\ en_portfolio[token].cost \in Nat
      /\ en_portfolio'[token] = [lots |-> en_portfolio[token].lots + 1, cost |-> en_portfolio[token].cost + ask]
      /\ \A t \in EngineTokens : t # token => en_portfolio'[t] = en_portfolio[t]
  BY <1>1, <1>2 DEF Portfolios
<1>4. HeldTokens' = HeldTokens \cup {token}
  BY <1>1, <1>2, <1>3 DEF HeldTokens, Portfolios
<1>5. \A t : MarketOf(t)' = MarketOf(t)
  BY DEF MarketOf
<1>6. token \in HeldTokens \/ en_portfolio[token].cost = 0
  BY <1>1, <1>2, <1>3 DEF HeldTokens
<1>7. \A held \in SUBSET EngineTokens :
         token \in held \/ en_portfolio[token].cost = 0 =>
           /\ SumFunctionOnSet(later, held \cup {token}) = SumFunctionOnSet(outlays, held) + ask
           /\ SumFunctionOnSet(outlays, held) \in Int
  <2>1. en_portfolio' = Bought(en_portfolio, token, ask)
    BY DEF Bought
  <2> SUFFICES ASSUME NEW held \in SUBSET EngineTokens, token \in held \/ en_portfolio[token].cost = 0
               PROVE  /\ SumFunctionOnSet(Outlays(en_portfolio'), held \cup {token})
                           = SumFunctionOnSet(Outlays(en_portfolio), held) + ask
                      /\ SumFunctionOnSet(Outlays(en_portfolio), held) \in Int
    OBVIOUS
  <2>2. en_portfolio \in Portfolios /\ token \in EngineTokens
    BY <1>1, <1>2
  <2> HIDE DEF token, outlays, later
  <2>3. /\ SumFunctionOnSet(Outlays(Bought(en_portfolio, token, ask)), held \cup {token})
             = SumFunctionOnSet(Outlays(en_portfolio), held) + ask
        /\ SumFunctionOnSet(Outlays(en_portfolio), held) \in Int
    BY <2>2, PurchaseCosts
  <2> QED BY <2>1, <2>3
<1>8. /\ en_portfolio' \in Portfolios
      /\ \A other \in SUBSET EngineTokens : token \notin other =>
            SumFunctionOnSet(later, other) = SumFunctionOnSet(outlays, other)
  <2>1. token \in EngineTokens /\ EngineTokens \in SUBSET EngineTokens /\ en_portfolio \in Portfolios
    BY <1>1, <1>2
  <2>2. en_portfolio' = Bought(en_portfolio, token, ask)
    BY DEF Bought
  <2> HIDE DEF token
  <2>3. /\ Bought(en_portfolio, token, ask) \in Portfolios
        /\ \A other \in SUBSET EngineTokens : token \notin other =>
             SumFunctionOnSet(Outlays(Bought(en_portfolio, token, ask)), other)
               = SumFunctionOnSet(Outlays(en_portfolio), other)
    <3> SUFFICES ASSUME NEW other \in SUBSET EngineTokens
                 PROVE  /\ Bought(en_portfolio, token, ask) \in Portfolios
                        /\ token \notin other =>
                             SumFunctionOnSet(Outlays(Bought(en_portfolio, token, ask)), other)
                               = SumFunctionOnSet(Outlays(en_portfolio), other)
      BY <2>1
    <3>1. token \in EngineTokens \/ en_portfolio[token].cost = 0
      BY <2>1
    <3> QED BY <2>1, <3>1, PurchaseCosts
  <2> QED BY <2>2, <2>3
<1>9. /\ \A held : ExposureOf(held) = SumFunctionOnSet(outlays, held)
      /\ \A held : ExposureOf(held)' = SumFunctionOnSet(later, held)
  BY DEF ExposureOf, Outlays
<1>10. /\ SumFunctionOnSet(outlays, OfMarket(market)) + ask <= MaxPositionPerMarket
       /\ SumFunctionOnSet(outlays, HeldTokens) + ask <= MaxGlobalExposure
       /\ market \in MarketsHeld \/ Cardinality(MarketsHeld) < MaxOpenPositions
  BY <1>9 DEF EvaluateRisk
<1> HIDE DEF outlays, later
<1>11. ExposureOf(HeldTokens)' <= MaxGlobalExposure
  <2>1. SumFunctionOnSet(later, HeldTokens \cup {token}) <= MaxGlobalExposure
    BY <1>2, <1>6, <1>7, <1>10
  <2>2. ExposureOf(HeldTokens)' = SumFunctionOnSet(later, HeldTokens')
    BY DEF ExposureOf, Outlays, later
  <2> QED BY <1>4, <2>1, <2>2
<1>12. MarketsHeld' = MarketsHeld \cup {market}
  <2>1. MarketsHeld' = {MarketOf(t) : t \in HeldTokens'}
    BY <1>5 DEF MarketsHeld
  <2> QED BY <1>1, <1>4, <2>1 DEF MarketsHeld
<1>13. Cardinality(MarketsHeld') <= MaxOpenPositions
  <2>1. CASE market \in MarketsHeld
    <3>1. MarketsHeld' = MarketsHeld
      BY <1>12, <2>1
    <3> QED BY <1>2, <3>1 DEF BacktestWithinLimits
  <2>2. CASE market \notin MarketsHeld
    <3>1. IsFiniteSet(MarketsHeld)
      <4>1. IsFiniteSet(HeldTokens)
        BY <1>2, EngineNumbers, FS_Subset
      <4> DEFINE f == [t \in HeldTokens |-> MarketOf(t)]
      <4>2. MarketsHeld = {f[t] : t \in HeldTokens}
        BY DEF MarketsHeld
      <4> HIDE DEF f
      <4> QED BY <4>1, <4>2, ImageFinite
    <3>2. /\ Cardinality(MarketsHeld') \in Nat /\ Cardinality(MarketsHeld) \in Nat
          /\ Cardinality(MarketsHeld') <= Cardinality(MarketsHeld) + 1
      BY <1>12, <3>1, CardinalityGrows
    <3>3. Cardinality(MarketsHeld) < MaxOpenPositions
      BY <1>10, <2>2
    <3> QED BY <3>2, <3>3, EngineNumbers
  <2> QED BY <2>1, <2>2
<1>14. ASSUME NEW m \in MarketsHeld'
       PROVE  ExposureOf({t \in HeldTokens : MarketOf(t) = m})' <= MaxPositionPerMarket
  <2> DEFINE after == {t \in HeldTokens' : MarketOf(t) = m}
  <2>1. ExposureOf({t \in HeldTokens : MarketOf(t) = m})' = SumFunctionOnSet(later, after)
    BY <1>5 DEF ExposureOf, Outlays, later
  <2>2. OfMarket(m) \in SUBSET EngineTokens
    BY <1>2
  <2>3. CASE m = market
    <3>1. after = OfMarket(m) \cup {token}
      BY <1>1, <1>4, <2>3
    <3>2. token \in OfMarket(m) \/ en_portfolio[token].cost = 0
      BY <1>1, <1>6, <2>3
    <3> HIDE DEF after
    <3>3. SumFunctionOnSet(later, OfMarket(m) \cup {token}) <= MaxPositionPerMarket
      BY <1>7, <1>10, <2>2, <2>3, <3>2
    <3> QED BY <2>1, <3>1, <3>3
  <2>4. CASE m # market
    <3>1. after = OfMarket(m) /\ token \notin OfMarket(m)
      BY <1>1, <1>4, <2>4
    <3>2. m \in MarketsHeld
      BY <1>12, <2>4
    <3>3. SumFunctionOnSet(outlays, OfMarket(m)) <= MaxPositionPerMarket
      BY <1>2, <1>9, <3>2 DEF BacktestWithinLimits
    <3>4. SumFunctionOnSet(later, OfMarket(m)) = SumFunctionOnSet(outlays, OfMarket(m))
      BY <1>8, <2>2, <3>1
    <3> HIDE DEF after
    <3> QED BY <2>1, <3>1, <3>3, <3>4
  <2> QED BY <2>3, <2>4
<1>15. BacktestWithinLimits'
  BY <1>11, <1>13, <1>14 DEF BacktestWithinLimits
<1>16. HeldTokens' \subseteq {row.token : row \in en_catalog}
  BY <1>2, <1>4
<1>17. \A t \in EngineTokens : en_portfolio'[t].lots = 0 => en_portfolio'[t].cost = 0
  BY <1>2, <1>3
<1> QED BY <1>8, <1>15, <1>16, <1>17

LEMMA CandidateKeepsEngine == EngineHolds /\ TestCandidate => EngineHolds'
<1> SUFFICES ASSUME EngineHolds, TestCandidate PROVE EngineHolds'
  OBVIOUS
<1> DEFINE order == Head(en_tokens)
           snapshot == en_snapshots[order.token]
<1>1. /\ en_pc = "backtest" /\ en_tokens # <<>> /\ en_tokens' = Tail(en_tokens)
      /\ UNCHANGED <<en_pc, en_catalog, en_prices, en_files, en_downloads, en_snapshots, en_runs, en_crashes>>
      /\ en_portfolio' =
              IF Usable(snapshot) /\ EvaluateRisk(order, snapshot.ask)
              THEN [en_portfolio EXCEPT ![order.token] =
                       [lots |-> @.lots + 1, cost |-> @.cost + snapshot.ask]]
              ELSE en_portfolio
  BY DEF TestCandidate
<1>2. en_tokens \in Seq(en_catalog)
  BY <1>1 DEF EngineHolds, PortfolioHolds
<1>3. order \in en_catalog /\ en_tokens' \in Seq(en_catalog)
  BY <1>1, <1>2, TailOf
<1> HIDE DEF order
<1>4. order.token \in EngineTokens
  BY <1>3 DEF EngineHolds, EngineTypeOK
<1>5. snapshot \in BookSnapshots \cup {NoSnapshot}
  BY <1>4 DEF EngineHolds
<1> HIDE DEF snapshot
<1>6. /\ en_portfolio' \in Portfolios
      /\ \A t \in EngineTokens : en_portfolio'[t].lots = 0 => en_portfolio'[t].cost = 0
      /\ HeldTokens' \subseteq {row.token : row \in en_catalog}
      /\ BacktestWithinLimits'
  <2>1. CASE Usable(snapshot) /\ EvaluateRisk(order, snapshot.ask)
    <3>1. snapshot.ask \in Nat
      BY <1>5, <2>1, EngineNumbers DEF Usable
    <3>2. en_portfolio' = [en_portfolio EXCEPT ![order.token] = [lots |-> @.lots + 1, cost |-> @.cost + snapshot.ask]]
      BY <1>1, <2>1
    <3> QED BY <1>1, <1>3, <2>1, <3>1, <3>2, PurchaseWithin
  <2>2. CASE ~(Usable(snapshot) /\ EvaluateRisk(order, snapshot.ask))
    <3>1. UNCHANGED <<en_portfolio, en_catalog>>
      BY <1>1, <2>2
    <3>2. HeldTokens' = HeldTokens /\ BacktestWithinLimits' = BacktestWithinLimits
      BY <3>1 DEF HeldTokens, BacktestWithinLimits, MarketsHeld, MarketOf, ExposureOf, Outlays
    <3> QED BY <3>1, <3>2 DEF EngineHolds, EngineTypeOK, PortfolioHolds, Portfolios
  <2> QED BY <2>1, <2>2
<1>7. PortfolioHolds'
  BY <1>1, <1>3, <1>6 DEF PortfolioHolds
<1>8. PointsHold' /\ DownloadsHold'
  BY <1>1 DEF EngineHolds, PointsHold, DownloadsHold
<1>9. EngineTypeOK'
  BY <1>1, <1>6 DEF EngineHolds, EngineTypeOK, Portfolios
<1> QED BY <1>1, <1>7, <1>8, <1>9 DEF EngineHolds, OneRowEach

LEMMA EngineStep == EngineHolds /\ [EngineNext]_en_vars => EngineHolds'
<1> SUFFICES ASSUME EngineHolds, [EngineNext]_en_vars PROVE EngineHolds'
  OBVIOUS
<1>1. CASE UNCHANGED en_vars
  <2>1. UNCHANGED <<en_pc, en_catalog, en_tokens, en_prices, en_files, en_downloads, en_portfolio,
                    en_snapshots, en_runs, en_crashes>>
    BY <1>1 DEF en_vars
  <2>2. HeldTokens' = HeldTokens /\ BacktestWithinLimits' = BacktestWithinLimits
    BY <2>1 DEF HeldTokens, BacktestWithinLimits, MarketsHeld, MarketOf, ExposureOf, Outlays
  <2>3. PortfolioHolds'
    BY <2>1, <2>2 DEF EngineHolds, PortfolioHolds, EmptyPortfolio, Portfolios
  <2>4. PointsHold' /\ DownloadsHold'
    BY <2>1 DEF EngineHolds, PointsHold, DownloadsHold
  <2>5. EngineTypeOK'
    BY <2>1 DEF EngineHolds, EngineTypeOK
  <2> QED BY <2>1, <2>3, <2>4, <2>5 DEF EngineHolds, OneRowEach
<1>2. CASE EngineNext
  BY <1>2, CatalogKeepsEngine, DownloadKeepsEngine, WrittenKeepsEngine, QuietEndKeepsEngine,
     StartKeepsEngine, CandidateKeepsEngine, CrashKeepsEngine DEF EngineNext
<1> QED BY <1>1, <1>2

LEMMA EngineHoldsPoints == EngineHolds => PointsOncePerDownload
<1> SUFFICES ASSUME EngineHolds, NEW t \in EngineTokens, NEW i \in DOMAIN en_files[t]
             PROVE  Cardinality(RowsAt(en_files[t], en_files[t][i].ts)) <= en_downloads[t]
  BY DEF PointsOncePerDownload, RowsAt
<1> QED BY DEF EngineHolds, PointsHold

\* The research programs' data stay consistent for any answers, order of cycles
\* and crashes: a downloaded price is in a file once for each download, since
\* append_prices adds only the points it has not read (polymarket_engine
\* storage.py); a backtest never holds more than its three limits (risk.py), which
\* follows from what the tokens held have cost; and every signal of the MVP library
\* is justified by the prices it was made from (polymarket_mvp core.py).
THEOREM ResearchDataHolds == ProgramsSpec => []ResearchData
<1>1. ProgramsInit => EngineHolds /\ MvpHolds
  BY EngineBegins, MvpBegins DEF ProgramsInit
<1>2. EngineHolds /\ MvpHolds /\ [ProgramsNext]_program_vars => EngineHolds' /\ MvpHolds'
  BY StepOfEach, EngineStep, MvpStep
<1>3. EngineHolds /\ MvpHolds => ResearchData
  <2> SUFFICES ASSUME EngineHolds, MvpHolds PROVE ResearchData
    OBVIOUS
  <2>1. PointsOncePerDownload /\ MvpSignals
    BY EngineHoldsPoints, MvpSignalsHold
  <2>2. BacktestWithinLimits
    BY DEF EngineHolds, PortfolioHolds
  <2> QED BY <2>1, <2>2 DEF ResearchData
<1> QED BY <1>1, <1>2, <1>3, PTL DEF ProgramsSpec
=============================================================================
