--------------------------- MODULE MeanReversion ---------------------------
(***************************************************************************)
(* The mean-reversion paper strategy of ToTheMoon (strategies/             *)
(* automated_paper_v1_web/mean_reversion.py).  A run loads its state from  *)
(* one JSON file, lists the UP/DOWN markets, and buys or sells the YES     *)
(* token of each; a trade is appended to a second file before the state is *)
(* saved, and each file is truncated before it is written.                 *)
(***************************************************************************)
EXTENDS Integers, Sequences, FiniteSets, SequencesExt, Functions, Sums

CONSTANTS
    Tokens,             \* YES tokens
    NoToken,            \* the market has no YES token
    Torn,               \* the content of a file whose writing was cut short
    ListedMarkets,      \* market records the listing may hold
    Midpoints,          \* prices get_midpoint may answer
    BuyBelow, SellAbove,
    MaxLosses,          \* max_consecutive_losses
    PageLimit,
    PageSize,           \* bound: markets on a page
    MaxStrategyCrashes  \* bound

\* A torn file is neither a state nor a history.
ASSUME TornAssumption ==
    /\ Torn \notin [open : [Tokens -> {0} \cup Midpoints], losses : Nat, breaker : BOOLEAN]
    /\ Torn \notin [Tokens -> Int]

\* A price is positive, so 0 stands for "no position".
ASSUME StrategyAssumption ==
    /\ IsFiniteSet(Tokens) /\ NoToken \notin Tokens
    /\ Midpoints \subseteq Nat \ {0}
    /\ MaxLosses \in Nat /\ PageLimit \in Nat \ {0} /\ PageSize \in Nat /\ MaxStrategyCrashes \in Nat
    /\ \A m \in ListedMarkets : m.yes \in Tokens \cup {NoToken}

VARIABLES
    mr_pc, mr_pages, mr_queue, mr_trade,
    mr_memory,          \* self.state
    state_file,         \* the state last saved, or Torn
    trades_file,        \* token -> buys less sells recorded, or Torn
    mr_crashes

mr_vars == <<mr_pc, mr_pages, mr_queue, mr_trade, mr_memory, state_file, trades_file, mr_crashes>>

NoTrade == [token |-> NoToken, bought |-> 0]
NewState == [open |-> [t \in Tokens |-> 0], losses |-> 0, breaker |-> FALSE]

StrategyStates == [open : [Tokens -> {0} \cup Midpoints], losses : 0 .. MaxLosses, breaker : BOOLEAN]

StrategyTypeOK ==
    /\ mr_pc \in {"idle", "discover", "evaluate", "record", "recording", "save", "saving"}
    /\ mr_pages \in 0 .. PageLimit
    /\ mr_queue \in Seq(Tokens) /\ Len(mr_queue) <= PageLimit * PageSize
    /\ mr_trade \in [token : Tokens \cup {NoToken}, bought : {-1, 0, 1}]
    /\ mr_memory \in StrategyStates
    /\ state_file \in StrategyStates \cup {Torn}
    /\ trades_file = Torn \/ trades_file \in [Tokens -> Int]
    /\ mr_crashes \in 0 .. MaxStrategyCrashes

StrategyInit ==
    /\ mr_pc = "idle" /\ mr_pages = 0 /\ mr_queue = <<>> /\ mr_trade = NoTrade
    /\ mr_memory = NewState /\ state_file = NewState
    /\ trades_file = [t \in Tokens |-> 0]
    /\ mr_crashes = 0

-----------------------------------------------------------------------------
(* A run: load the state and list the markets *)

\* json.load raises on a torn file and the run does not start.
LoadState ==
    /\ mr_pc = "idle" /\ state_file # Torn
    /\ mr_memory' = state_file
    /\ mr_pc' = "discover" /\ mr_pages' = 0 /\ mr_queue' = <<>>
    /\ UNCHANGED <<mr_trade, state_file, trades_file, mr_crashes>>

IsCandidate(market) == market.active /\ ~market.closed /\ market.upOrDown

YesTokens(page) ==
    LET kept == MembersAt(page, {i \in DOMAIN page : IsCandidate(page[i]) /\ page[i].yes # NoToken})
    IN [i \in DOMAIN kept |-> kept[i].yes]

\* Altered: one page more than the limit.
OnePageMore(page, more) == page # <<>> /\ more /\ mr_pages < PageLimit
MorePages(page, more) == page # <<>> /\ more /\ mr_pages + 1 < PageLimit

ReadPage ==
    /\ mr_pc = "discover"
    /\ \E page \in BoundedSeq(ListedMarkets, PageSize), more \in BOOLEAN :
          /\ mr_queue' = mr_queue \o YesTokens(page)
          /\ mr_pages' = mr_pages + 1
          /\ mr_pc' = IF MorePages(page, more) THEN "discover" ELSE "evaluate"
    /\ UNCHANGED <<mr_trade, mr_memory, state_file, trades_file, mr_crashes>>

RunEnds ==
    /\ mr_pc' = "idle" /\ mr_pages' = 0 /\ mr_queue' = <<>> /\ mr_trade' = NoTrade
    /\ mr_memory' = NewState
    /\ UNCHANGED <<state_file, trades_file>>

RunFinishes == mr_pc = "evaluate" /\ mr_queue = <<>> /\ RunEnds /\ UNCHANGED mr_crashes

\* The listing or the midpoint could not be read: the exception leaves run_once.
RequestFails ==
    /\ mr_pc = "discover" \/ (mr_pc = "evaluate" /\ mr_queue # <<>> /\ ~mr_memory.breaker)
    /\ RunEnds /\ UNCHANGED mr_crashes

-----------------------------------------------------------------------------
(* evaluate_market *)

Token == Head(mr_queue)
Entry == mr_memory.open[Token]

NothingToTrade ==
    /\ mr_pc = "evaluate" /\ mr_queue # <<>>
    /\ ~mr_memory.breaker =>
          \E price \in Midpoints :
             IF Entry = 0 THEN price >= BuyBelow ELSE price <= SellAbove
    /\ mr_queue' = Tail(mr_queue)
    /\ UNCHANGED <<mr_pc, mr_pages, mr_trade, mr_memory, state_file, trades_file, mr_crashes>>

Trade(bought, memory) ==
    /\ mr_memory' = memory
    /\ mr_trade' = [token |-> Token, bought |-> bought]
    /\ mr_queue' = Tail(mr_queue)
    /\ mr_pc' = "record"
    /\ UNCHANGED <<mr_pages, state_file, trades_file, mr_crashes>>

BuyYes ==
    /\ mr_pc = "evaluate" /\ mr_queue # <<>> /\ ~mr_memory.breaker /\ Entry = 0
    /\ \E price \in Midpoints :
          /\ price < BuyBelow
          /\ Trade(1, [mr_memory EXCEPT !.open[Token] = price])

AfterPnl(memory, pnl) ==
    LET losses == IF pnl < 0 THEN memory.losses + 1 ELSE 0
    IN [memory EXCEPT !.losses = losses, !.breaker = @ \/ losses >= MaxLosses]

SellYes ==
    /\ mr_pc = "evaluate" /\ mr_queue # <<>> /\ ~mr_memory.breaker /\ Entry # 0
    /\ \E price \in Midpoints :
          /\ price > SellAbove
          /\ Trade(-1, [AfterPnl(mr_memory, price - Entry) EXCEPT !.open[Token] = 0])

-----------------------------------------------------------------------------
(* _record_trade and _save_state: open("w") truncates, json.dump then writes *)

\* Altered: a history that cannot be read is started again.
RecordTradeAnew ==
    /\ mr_pc = "record" /\ mr_pc' = "recording"
    /\ trades_file' = [(IF trades_file = Torn THEN [t \in Tokens |-> 0] ELSE trades_file)
                          EXCEPT ![mr_trade.token] = @ + mr_trade.bought]
    /\ UNCHANGED <<mr_pages, mr_queue, mr_trade, mr_memory, state_file, mr_crashes>>
\* The history read before the truncation is rewritten with the trade at its end.
RecordTrade ==
    /\ mr_pc = "record"
    /\ IF trades_file = Torn
       THEN RunEnds
       ELSE /\ mr_pc' = "recording"
            /\ trades_file' = [trades_file EXCEPT ![mr_trade.token] = @ + mr_trade.bought]
            /\ UNCHANGED <<mr_pages, mr_queue, mr_trade, mr_memory, state_file>>
    /\ UNCHANGED mr_crashes

TradeRecorded ==
    /\ mr_pc = "recording"
    /\ mr_pc' = "save"
    /\ UNCHANGED <<mr_pages, mr_queue, mr_trade, mr_memory, state_file, trades_file, mr_crashes>>

\* Altered: a sale does not save the state.
SaveStateOfBuysOnly ==
    /\ mr_pc = "save"
    /\ mr_pc' = IF mr_trade.bought = 1 THEN "saving" ELSE "evaluate"
    /\ state_file' = IF mr_trade.bought = 1 THEN mr_memory ELSE state_file
    /\ UNCHANGED <<mr_pages, mr_queue, mr_trade, mr_memory, trades_file, mr_crashes>>
SaveState ==
    /\ mr_pc = "save"
    /\ mr_pc' = "saving" /\ state_file' = mr_memory
    /\ UNCHANGED <<mr_pages, mr_queue, mr_trade, mr_memory, trades_file, mr_crashes>>

StateSaved ==
    /\ mr_pc = "saving"
    /\ mr_pc' = "evaluate" /\ mr_trade' = NoTrade
    /\ UNCHANGED <<mr_pages, mr_queue, mr_memory, state_file, trades_file, mr_crashes>>

\* The process is killed; a file that is being written is left torn.
StrategyCrash ==
    /\ mr_pc # "idle" /\ mr_crashes < MaxStrategyCrashes
    /\ mr_crashes' = mr_crashes + 1
    /\ state_file' = IF mr_pc = "saving" THEN Torn ELSE state_file
    /\ trades_file' = IF mr_pc = "recording" THEN Torn ELSE trades_file
    /\ mr_pc' = "idle" /\ mr_pages' = 0 /\ mr_queue' = <<>> /\ mr_trade' = NoTrade
    /\ mr_memory' = NewState

StrategyNext ==
    \/ LoadState \/ ReadPage \/ RequestFails \/ RunFinishes
    \/ NothingToTrade \/ BuyYes \/ SellYes
    \/ RecordTrade \/ TradeRecorded \/ SaveState \/ StateSaved
    \/ StrategyCrash

-----------------------------------------------------------------------------
(* Properties *)

Distance(a, b) == IF a > b THEN a - b ELSE b - a

Held(state, t) == IF state.open[t] = 0 THEN 0 ELSE 1

\* Between runs the recorded trades and the saved state disagree about at most
\* one position for every crash: only a crash between the two writes of
\* evaluate_market can part them, whatever requests fail and however often a
\* market is listed.
DriftBoundedByCrashes ==
    mr_pc = "idle" /\ Torn \notin {state_file, trades_file} =>
        LET drift == [t \in Tokens |-> Distance(trades_file[t], Held(state_file, t))]
        IN  SumFunctionOnSet(drift, Tokens) <= mr_crashes

\* A crash that leaves either file torn stops the strategy for good: neither
\* file is written again, since loading the state or recording a trade raises
\* first, and the two files keep what they said of each other.
TornFileStopsTrading ==
    [][state_file = Torn \/ trades_file = Torn
          => UNCHANGED <<state_file, trades_file>>]_mr_vars
=============================================================================
