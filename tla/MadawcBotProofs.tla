--------------------------- MODULE MadawcBotProofs ---------------------------
(***************************************************************************)
(* Theorems about the bot's cycle, for every number of markets, every      *)
(* schedule of market ends, every limit and any number of crashes.         *)
(*                                                                         *)
(* Protocol says what the cycle hands from one await to the next; it makes *)
(* every step of the bot a step of the engine.  Finished adds what is true *)
(* of a settled market, and why nothing is ordered in it again.            *)
(***************************************************************************)
EXTENDS MadawcBot, MadawcPaperProofs

Scanning == pc \in {"watch", "exit", "signal", "fill", "expire"}
Settling == pc \in {"settle", "cancel"}

\* The markets that remain to be polled, and the one being settled, have an
\* unresolved position all the while: only settle_position closes one here.
Protocol ==
    /\ universe \subseteq Markets
    /\ to_scan \subseteq universe \X Sides
    /\ resolution \in [Markets -> Sides \cup {Pending, NoWinner}]
    /\ Scanning => cur \in to_scan /\ book.asks \in Depths /\ book.bid \in Bids
    /\ \A m \in to_settle : Unresolved(m)
    /\ ~Settling => to_settle = {}
    /\ pc = "cancel" => /\ Unresolved(polled.market)
                        /\ polled.market \notin to_settle
                        /\ polled.winner \in Sides \cup {NoWinner}
                        /\ resolution[polled.market] # Pending

-----------------------------------------------------------------------------
LEMMA ProtocolInit == BotInit => Protocol
BY DEF BotInit, Protocol, Scanning, Settling

\* The two ways an iteration of the watchlist moves on.
LEMMA GotoKeepsProtocol ==
    ASSUME Protocol, Scanning,
           NEW label \in {"exit", "signal", "fill", "expire"}, Goto(label)
    PROVE  Protocol'
BY DEF Protocol, Scanning, Settling, Goto, env_vars, settle_vars

LEMMA TokenDoneKeepsProtocol ==
    ASSUME Protocol, Scanning, TokenDone
    PROVE  Protocol'
BY DEF Protocol, Scanning, Settling, TokenDone, env_vars, settle_vars

LEMMA VisitKeepsProtocol == Protocol /\ VisitToken => Protocol'
<1> SUFFICES ASSUME Protocol, VisitToken PROVE Protocol'
  OBVIOUS
<1>1. ASSUME NEW t \in to_scan, SkipToken(t) PROVE Protocol'
  BY <1>1 DEF Protocol, Scanning, Settling, SkipToken, AtToken, Unresolved, HasPosition,
              paper_vars, env_vars, settle_vars
<1>2. ASSUME NEW t \in to_scan, NEW a \in Depths, NEW b \in Bids, NEW d \in Depths,
             FetchBook(t, a, b, d)
      PROVE  Protocol'
  BY <1>2 DEF Protocol, Scanning, Settling, FetchBook, AtToken, NextToken, Unresolved,
              HasPosition, paper_vars, env_vars, settle_vars
<1>3. ASSUME NEW o \in DOMAIN open_orders, WatchFill(o) PROVE Protocol'
  BY <1>3, GotoKeepsProtocol DEF WatchFill, Scanning
<1>4. CASE NothingToWatch
  BY <1>4, GotoKeepsProtocol DEF NothingToWatch, Scanning
<1>5. CASE ExitAtFlat \/ KeepPosition
  BY <1>5, GotoKeepsProtocol DEF ExitAtFlat, KeepPosition, Scanning
<1>6. CASE OpenOrder
  BY <1>6, GotoKeepsProtocol DEF OpenOrder, Scanning
<1>7. CASE NoSignal
  BY <1>7, TokenDoneKeepsProtocol DEF NoSignal, Scanning
<1>8. CASE FillNewOrder \/ NewOrderUnfilled
  BY <1>8, GotoKeepsProtocol DEF FillNewOrder, NewOrderUnfilled, Scanning
<1>9. CASE ExpireNewOrder \/ KeepNewOrder
  BY <1>9, TokenDoneKeepsProtocol DEF ExpireNewOrder, KeepNewOrder, Scanning
<1> QED BY <1>1, <1>2, <1>3, <1>4, <1>5, <1>6, <1>7, <1>8, <1>9 DEF VisitToken

\* Settling one market leaves the others unresolved.
LEMMA SettlingKeepsProtocol == TypeOK /\ Protocol /\ SettlePositions => Protocol'
<1> SUFFICES ASSUME TypeOK, Protocol, SettlePositions PROVE Protocol'
  OBVIOUS
<1> USE DEF Protocol, Scanning, Settling, Unresolved, HasPosition,
            paper_vars, env_vars, settle_vars, scan_vars
<1>1. CASE BeginSettlement
  BY <1>1 DEF BeginSettlement
<1>2. ASSUME NEW m \in to_settle, StillUnresolved(m) PROVE Protocol'
  BY <1>2 DEF StillUnresolved
<1>3. ASSUME NEW m \in to_settle, PollResolved(m) PROVE Protocol'
  BY <1>3 DEF PollResolved
<1>4. ASSUME NEW o \in DOMAIN open_orders, CancelOrder(o) PROVE Protocol'
  BY <1>4 DEF CancelOrder, ExpireOrder
<1>5. CASE SettlePolled
  <2>1. \A m \in to_settle : m # polled.market
    BY <1>5 DEF SettlePolled
  <2>2. \A m \in Markets : m # polled.market => positions'[m] = positions[m]
    BY <1>5 DEF SettlePolled, AwaitWinner, SettleMarket, TypeOK
  <2> QED BY <1>5, <2>1, <2>2 DEF SettlePolled
<1> QED BY <1>1, <1>2, <1>3, <1>4, <1>5 DEF SettlePositions

LEMMA ProtocolNext == TypeOK /\ Protocol /\ [BotNext]_bot_vars => Protocol'
<1> SUFFICES ASSUME TypeOK, Protocol, [BotNext]_bot_vars PROVE Protocol'
  OBVIOUS
<1>1. CASE VisitToken \/ SettlePositions
  BY <1>1, VisitKeepsProtocol, SettlingKeepsProtocol
<1> USE DEF Protocol, Scanning, Settling, Unresolved, HasPosition,
            paper_vars, env_vars, settle_vars, scan_vars, disk
<1>2. ASSUME NEW listed \in SUBSET Markets, DiscoverMarkets(listed) PROVE Protocol'
  BY <1>2 DEF DiscoverMarkets
<1>3. CASE GammaFails \/ SaveState \/ Sleep \/ SlowCall
  BY <1>3 DEF GammaFails, SaveState, Sleep, SlowCall
<1>4. ASSUME NEW m \in Markets, NEW w \in Sides \cup {NoWinner}, Resolve(m, w)
      PROVE  Protocol'
  BY <1>4, BotAssumption DEF Resolve, BotAssumption
<1>5. CASE Crash
  BY <1>5 DEF Crash
<1>6. CASE UNCHANGED bot_vars
  BY <1>6 DEF bot_vars
<1> QED BY <1>1, <1>2, <1>3, <1>4, <1>5, <1>6 DEF BotNext, BotStep

-----------------------------------------------------------------------------
(* Every step is a step of the engine *)

LEMMA VisitIsEngineStep == TypeOK /\ Protocol /\ VisitToken => [Next]_paper_vars
<1> SUFFICES ASSUME TypeOK, Protocol, VisitToken PROVE [Next]_paper_vars
  OBVIOUS
<1>1. ASSUME Scanning PROVE cur[1] \in Markets /\ cur[2] \in Sides /\ book.asks \in Depths
  BY <1>1 DEF Protocol
<1>2. ASSUME NEW t \in to_scan, SkipToken(t) PROVE UNCHANGED paper_vars
  BY <1>2 DEF SkipToken
<1>3. ASSUME NEW t \in to_scan, NEW a \in Depths, NEW b \in Bids, NEW d \in Depths,
             FetchBook(t, a, b, d)
      PROVE  UNCHANGED paper_vars
  BY <1>3 DEF FetchBook
<1>4. ASSUME NEW o \in DOMAIN open_orders, WatchFill(o) PROVE Next
  BY <1>1, <1>4 DEF WatchFill, Scanning, Next
<1>5. CASE ExitAtFlat
  <2>1. book.bid \in Prices
    BY <1>5, BotAssumption DEF ExitAtFlat, ExitReached, Protocol, Scanning, BotAssumption
  <2> QED BY <1>1, <1>5, <2>1 DEF ExitAtFlat, Scanning, Next
<1>6. CASE OpenOrder
  BY <1>1, <1>6, BotAssumption DEF OpenOrder, Scanning, Next, BotAssumption
<1>7. CASE FillNewOrder
  <2>1. NewOrder \in DOMAIN open_orders
    BY <1>7 DEF FillNewOrder, TryFill, Open
  <2> QED BY <1>1, <1>7, <2>1 DEF FillNewOrder, Scanning, Next
<1>8. CASE ExpireNewOrder
  <2>1. NewOrder \in DOMAIN open_orders
    BY <1>8 DEF ExpireNewOrder, ExpireOrder, Open
  <2> QED BY <1>8, <2>1 DEF ExpireNewOrder, Next
<1>9. CASE NothingToWatch \/ KeepPosition \/ NoSignal \/ NewOrderUnfilled \/ KeepNewOrder
  BY <1>9 DEF NothingToWatch, KeepPosition, NoSignal, NewOrderUnfilled, KeepNewOrder
<1> QED BY <1>2, <1>3, <1>4, <1>5, <1>6, <1>7, <1>8, <1>9 DEF VisitToken

LEMMA SettlingIsEngineStep == Protocol /\ SettlePositions => [Next]_paper_vars
<1> SUFFICES ASSUME Protocol, SettlePositions PROVE [Next]_paper_vars
  OBVIOUS
<1>1. ASSUME NEW m \in to_settle, StillUnresolved(m) \/ PollResolved(m)
      PROVE  UNCHANGED paper_vars
  BY <1>1 DEF StillUnresolved, PollResolved
<1>2. ASSUME NEW o \in DOMAIN open_orders, CancelOrder(o) PROVE Next
  BY <1>2 DEF CancelOrder, Next
<1>3. CASE SettlePolled
  <2>1. /\ polled.market \in Markets
        /\ Unresolved(polled.market)
        /\ polled.winner \in Sides \cup {NoWinner}
    BY <1>3 DEF SettlePolled, Protocol, Unresolved, HasPosition
  <2> QED BY <1>3, <2>1 DEF SettlePolled, Next
<1> QED BY <1>1, <1>2, <1>3 DEF SettlePositions, BeginSettlement

\* Only a crash is not a step of the engine; it puts the engine back in its
\* initial state.
LEMMA BotStepIsEngineStep ==
    TypeOK /\ Protocol /\ [BotNext]_bot_vars => [Next]_paper_vars \/ Crash
<1> SUFFICES ASSUME TypeOK, Protocol, [BotNext]_bot_vars, ~Crash PROVE [Next]_paper_vars
  OBVIOUS
<1>1. CASE VisitToken \/ SettlePositions
  BY <1>1, VisitIsEngineStep, SettlingIsEngineStep
<1>2. ASSUME NEW listed \in SUBSET Markets, DiscoverMarkets(listed)
      PROVE  UNCHANGED paper_vars
  BY <1>2 DEF DiscoverMarkets
<1>3. CASE GammaFails \/ SaveState \/ Sleep \/ SlowCall
  BY <1>3 DEF GammaFails, SaveState, Sleep, SlowCall
<1>4. ASSUME NEW m \in Markets, NEW w \in Sides \cup {NoWinner}, Resolve(m, w)
      PROVE  UNCHANGED paper_vars
  BY <1>4 DEF Resolve
<1>5. CASE UNCHANGED bot_vars
  BY <1>5 DEF bot_vars
<1> QED BY <1>1, <1>2, <1>3, <1>4, <1>5 DEF BotNext, BotStep

LEMMA CrashRestartsEngine == Crash => Init'
BY DEF Crash, Init

BotInv == IInv /\ Protocol

LEMMA BotInvariance == BotSpec => []BotInv
<1>1. BotInit => Init /\ Protocol
  BY ProtocolInit DEF BotInit
<1>2. IInv => TypeOK
  BY DEF IInv
<1> QED BY <1>1, <1>2, InitInv, NextInv, ProtocolNext, BotStepIsEngineStep,
           CrashRestartsEngine, PTL DEF BotSpec, BotInv

LEMMA OnlyCrashesCount == [BotNext]_bot_vars => Crash \/ UNCHANGED crashes
<1> SUFFICES ASSUME [BotNext]_bot_vars, ~Crash PROVE UNCHANGED crashes
  OBVIOUS
<1>1. CASE VisitToken
  BY <1>1 DEF VisitToken, SkipToken, FetchBook, WatchFill, NothingToWatch, ExitAtFlat,
      KeepPosition, OpenOrder, NoSignal, FillNewOrder, NewOrderUnfilled, ExpireNewOrder,
      KeepNewOrder, Goto, TokenDone
<1>2. CASE SettlePositions
  BY <1>2 DEF SettlePositions, BeginSettlement, StillUnresolved, PollResolved,
      CancelOrder, SettlePolled
<1>3. CASE \E listed \in SUBSET Markets : DiscoverMarkets(listed)
  BY <1>3 DEF DiscoverMarkets
<1>4. CASE GammaFails \/ SaveState \/ Sleep \/ SlowCall
  BY <1>4 DEF GammaFails, SaveState, Sleep, SlowCall
<1>5. CASE \E m \in Markets, w \in Sides \cup {NoWinner} : Resolve(m, w)
  BY <1>5 DEF Resolve
<1> QED BY <1>1, <1>2, <1>3, <1>4, <1>5 DEF BotNext, BotStep, bot_vars

\* The bot uses the engine as its specification allows: with the orders it
\* creates, the books it hands over, the positions it sells and settles, every
\* step of a run without a crash is a step of the engine, which moves money once.
THEOREM BotImplementsEngine == MaxCrashes = 0 /\ BotSpec => Spec
<1> SUFFICES ASSUME MaxCrashes = 0 PROVE BotSpec => Spec
  OBVIOUS
<1>1. crashes = 0 => ~Crash
  BY DEF Crash
<1>2. BotInit => Init /\ crashes = 0
  BY DEF BotInit
<1>3. crashes = 0 /\ [BotNext]_bot_vars => (crashes = 0)'
  BY <1>1, OnlyCrashesCount
<1>4. IInv => TypeOK
  BY DEF IInv
<1> QED BY <1>1, <1>2, <1>3, <1>4, BotInvariance, BotStepIsEngineStep, PTL
        DEF BotSpec, BotInv, Spec

\* Whatever fails and however often the process dies and starts again, the
\* reserved cash is exactly the unused reserve of the orders the bot holds OPEN.
THEOREM BotReserveExact == BotSpec => []ReserveMatchesOpenOrders
<1>1. BotInv => ReserveMatchesOpenOrders
  BY DEF BotInv, IInv
<1> QED BY <1>1, BotInvariance, PTL

-----------------------------------------------------------------------------
(* Settled markets *)

InCycle == pc = "token" \/ Scanning

\* A market is closed only after its end, hence it is in no universe computed
\* from then on; while a watchlist that still lists it is being worked through,
\* nothing is settled.
Finished ==
    /\ now \in 0 .. MaxNow
    /\ \A m \in Markets : resolution[m] # Pending => now >= End[m]
    /\ \A m \in Markets : Closed(m) => now >= End[m]
    /\ InCycle => \A m \in universe : ~Closed(m)
    /\ SettledMarketHasNoOpenOrders

LEMMA FinishedInit == BotInit => Finished
BY BotAssumption DEF BotInit, Init, Finished, BotAssumption, Closed, HasPosition, InCycle,
   Scanning, SettledMarketHasNoOpenOrders

\* A step that leaves clock, listing and outcomes alone and neither closes a
\* market nor opens an order keeps Finished.
LEMMA NothingNew ==
    ASSUME Finished, UNCHANGED <<env_vars, universe>>, InCycle' => InCycle,
           \A m : Closed(m)' => Closed(m),
           \A i, m : OpenInMarket(i, m)' => OpenInMarket(i, m)
    PROVE  Finished'
BY DEF Finished, env_vars, SettledMarketHasNoOpenOrders, OpenInMarket, Open

LEMMA EngineUntouched ==
    ASSUME Finished, UNCHANGED <<env_vars, universe, paper_vars>>, InCycle' => InCycle
    PROVE  Finished'
BY NothingNew DEF paper_vars, OpenInMarket, Open, Closed, Unresolved, HasPosition

\* Closing an order opens none and touches no position.
LEMMA ExpiryEffect ==
    ASSUME IInv, NEW o \in Nat, NEW status \in {"EXPIRED", "CANCELLED_LOCAL"},
           ExpireOrder(o, status)
    PROVE  /\ \A i, m : OpenInMarket(i, m)' => OpenInMarket(i, m)
           /\ UNCHANGED positions
<1> DEFINE expired == [open_orders[o] EXCEPT !.status = status]
<1>1. open_orders \in Seq(PaperOrder) /\ o \in DOMAIN open_orders
  BY DEF IInv, TypeOK, ExpireOrder, Open
<1>2. expired.status = status
  BY <1>1 DEF PaperOrder
<1>3. open_orders' = [open_orders EXCEPT ![o] = expired]
  BY DEF ExpireOrder
<1> HIDE DEF expired
<1>4. \A i, m : OpenInMarket(i, m)' => OpenInMarket(i, m)
  BY <1>1, <1>2, <1>3 DEF OpenInMarket, Open
<1> QED BY <1>4 DEF ExpireOrder

LEMMA ExpiryKeepsFinished ==
    ASSUME IInv, Finished, NEW o \in Nat, NEW status \in {"EXPIRED", "CANCELLED_LOCAL"},
           ExpireOrder(o, status), UNCHANGED <<env_vars, universe>>, InCycle' => InCycle
    PROVE  Finished'
<1>1. \A m : Closed(m)' => Closed(m)
  BY ExpiryEffect DEF Closed, Unresolved, HasPosition
<1> QED BY <1>1, ExpiryEffect, NothingNew

\* A fill belongs to an OPEN order, so its market is not closed; its position
\* stays as unresolved as it was, and the others stay as they are.
LEMMA FillEffect ==
    ASSUME IInv, Finished, NEW o \in Nat, NEW depth \in Nat, NEW end_known \in BOOLEAN,
           TryFill(o, depth, end_known)
    PROVE  /\ \A i, m : OpenInMarket(i, m)' => OpenInMarket(i, m)
           /\ OpenInMarket(o, open_orders[o].market)
           /\ ~Closed(open_orders[o].market)
           /\ \A m : Closed(m)' => Closed(m) /\ positions'[m] = positions[m]
           /\ \A m : Unresolved(m)' => Unresolved(m) \/ OpenInMarket(o, m)
<1> DEFINE order == open_orders[o]
<1>1. /\ open_orders \in Seq(PaperOrder) /\ o \in DOMAIN open_orders /\ order \in PaperOrder
      /\ order.status = "OPEN"
  BY DEF IInv, TypeOK, TryFill, Open
<1>2. order.market \in Markets
  BY <1>1, OrderNat
<1>3. OpenInMarket(o, order.market)
  BY <1>1 DEF OpenInMarket, Open
<1>4. ~Closed(order.market)
  BY <1>1, <1>2, <1>3 DEF Finished, SettledMarketHasNoOpenOrders
<1> DEFINE pos == positions[order.market]
           after == AfterFill(pos, order, Fillable(o, depth), end_known)
<1>5. positions' = [positions EXCEPT ![order.market] = after]
  BY DEF TryFill
<1>6. after.status = IF pos = NoPosition THEN "OPEN" ELSE pos.status
  <2>1. pos \in PaperPosition \cup {NoPosition}
    BY <1>2 DEF IInv, TypeOK
  <2> QED BY <2>1 DEF AfterFill, PaperPosition
<1>7. positions'[order.market] = after
  BY <1>2, <1>5 DEF IInv, TypeOK
<1> HIDE DEF after
<1>8. ASSUME NEW m \in Markets, m # order.market PROVE positions'[m] = positions[m]
  BY <1>5, <1>8 DEF IInv, TypeOK
<1>9. \A m : Closed(m)' => Closed(m) /\ positions'[m] = positions[m]
  <2> SUFFICES ASSUME NEW m \in Markets, Closed(m)' PROVE Closed(m) /\ positions'[m] = positions[m]
    BY DEF Closed, HasPosition
  <2>1. m # order.market
    BY <1>4, <1>6, <1>7 DEF Closed, Unresolved, HasPosition
  <2> QED BY <1>8, <2>1 DEF Closed, Unresolved, HasPosition
<1>10. \A m : Unresolved(m)' => Unresolved(m) \/ OpenInMarket(o, m)
  BY <1>3, <1>8 DEF Unresolved, HasPosition
<1>11. \A i, m : OpenInMarket(i, m)' => OpenInMarket(i, m)
  <2> DEFINE filled == [order EXCEPT
                  !.filled = @ + Fillable(o, depth),
                  !.status = IF Fillable(o, depth) = Remaining(o) THEN "FILLED" ELSE @]
  <2>1. open_orders' = [open_orders EXCEPT ![o] = filled]
    BY DEF TryFill
  <2>2. filled.market = order.market
    BY <1>1 DEF PaperOrder
  <2> HIDE DEF filled
  <2> QED BY <1>1, <2>1, <2>2 DEF OpenInMarket, Open
<1> QED BY <1>3, <1>4, <1>9, <1>10, <1>11

LEMMA FillKeepsFinished ==
    ASSUME IInv, Finished, NEW o \in Nat, NEW depth \in Nat, NEW end_known \in BOOLEAN,
           TryFill(o, depth, end_known),
           UNCHANGED <<env_vars, universe>>, InCycle' => InCycle
    PROVE  Finished'
<1>1. \A m : Closed(m)' => Closed(m)
  BY FillEffect
<1>2. \A i, m : OpenInMarket(i, m)' => OpenInMarket(i, m)
  BY FillEffect
<1> QED BY <1>1, <1>2, NothingNew

LEMMA VisitKeepsFinished ==
    ASSUME ~ExitEnabled, IInv, Protocol, Finished, VisitToken
    PROVE  Finished'
<1>1. ASSUME NEW t \in to_scan, SkipToken(t) PROVE Finished'
  BY <1>1, EngineUntouched DEF SkipToken, AtToken, InCycle
<1>2. ASSUME NEW t \in to_scan, NEW a \in Depths, NEW b \in Bids, NEW d \in Depths,
             FetchBook(t, a, b, d)
      PROVE  Finished'
  BY <1>2, EngineUntouched DEF FetchBook, AtToken, InCycle
<1>3. ASSUME Scanning PROVE InCycle /\ book.asks \in Nat
  BY <1>3, AmountsAssumption DEF InCycle, Protocol, AmountsAssumption
<1>4. ASSUME NEW o \in DOMAIN open_orders, WatchFill(o) PROVE Finished'
  <2>1. o \in Nat
    BY DEF IInv, TypeOK
  <2> QED BY <1>3, <1>4, <2>1, FillKeepsFinished DEF WatchFill, Goto, Scanning, InCycle
<1>5. CASE NothingToWatch \/ KeepPosition \/ NewOrderUnfilled
  BY <1>3, <1>5, EngineUntouched
     DEF NothingToWatch, KeepPosition, NewOrderUnfilled, Goto, Scanning, InCycle
<1>6. CASE NoSignal \/ KeepNewOrder
  BY <1>3, <1>6, EngineUntouched DEF NoSignal, KeepNewOrder, TokenDone, Scanning, InCycle
<1>7. ~ExitAtFlat
  BY DEF ExitAtFlat, ExitReached
<1>8. CASE OpenOrder
  <2>1. cur[1] \in universe
    BY <1>8 DEF OpenOrder, Protocol, Scanning
  <2>2. ~Closed(cur[1])
    BY <1>3, <1>8, <2>1 DEF OpenOrder, Finished, Scanning
  <2>3. \A m : Closed(m)' <=> Closed(m)
    BY <1>8 DEF OpenOrder, CreateOrder, Closed, Unresolved, HasPosition
  <2>4. \A i, m : OpenInMarket(i, m)' => OpenInMarket(i, m) \/ m = cur[1]
    BY <1>8 DEF OpenOrder, CreateOrder, OpenInMarket, Open, IInv, TypeOK
  <2>5. InCycle /\ UNCHANGED <<env_vars, universe>>
    BY <1>3, <1>8 DEF OpenOrder, Scanning, Goto
  <2> QED BY <2>2, <2>3, <2>4, <2>5
          DEF Finished, env_vars, SettledMarketHasNoOpenOrders, OpenInMarket, Open
<1>9. CASE FillNewOrder
  <2>1. NewOrder \in Nat
    BY DEF NewOrder, IInv, TypeOK
  <2> QED BY <1>3, <1>9, <2>1, FillKeepsFinished DEF FillNewOrder, Goto, Scanning, InCycle
<1>10. CASE ExpireNewOrder
  <2>1. NewOrder \in Nat
    BY DEF NewOrder, IInv, TypeOK
  <2> QED BY <1>3, <1>10, <2>1, ExpiryKeepsFinished
          DEF ExpireNewOrder, TokenDone, Scanning, InCycle
<1> QED BY VisitToken, <1>1, <1>2, <1>4, <1>5, <1>6, <1>7, <1>8, <1>9, <1>10 DEF VisitToken

\* settle_position closes a market only once its orders are cancelled.
LEMMA SettlingKeepsFinished ==
    ASSUME IInv, Protocol, Finished, SettlePositions
    PROVE  Finished'
<1>1. CASE BeginSettlement
  BY <1>1, EngineUntouched DEF BeginSettlement, scan_vars, InCycle, Scanning
<1>2. ASSUME NEW m \in to_settle, StillUnresolved(m) \/ PollResolved(m) PROVE Finished'
  BY <1>2, EngineUntouched DEF StillUnresolved, PollResolved, InCycle, Scanning
<1>3. ASSUME NEW o \in DOMAIN open_orders, CancelOrder(o) PROVE Finished'
  <2>1. o \in Nat
    BY DEF IInv, TypeOK
  <2> QED BY <1>3, <2>1, ExpiryKeepsFinished DEF CancelOrder, InCycle, Scanning
<1>4. CASE SettlePolled
  <2> DEFINE market == polled.market
  <2>1. /\ market \in Markets
        /\ now >= End[market]
        /\ \A o \in DOMAIN open_orders : ~OpenInMarket(o, market)
    BY <1>4 DEF SettlePolled, Protocol, Finished, Unresolved, HasPosition
  <2>2. \A m \in Markets : Closed(m)' => Closed(m) \/ m = market
    BY <1>4 DEF SettlePolled, AwaitWinner, SettleMarket, Closed, Unresolved, HasPosition,
                IInv, TypeOK
  <2>3. UNCHANGED <<env_vars, universe, open_orders>> /\ ~InCycle'
    BY <1>4 DEF SettlePolled, AwaitWinner, SettleMarket, InCycle, Scanning
  <2> QED BY <2>1, <2>2, <2>3
          DEF Finished, env_vars, SettledMarketHasNoOpenOrders, OpenInMarket, Open
<1> QED BY <1>1, <1>2, <1>3, <1>4 DEF SettlePositions

LEMMA FinishedNext ==
    ASSUME ~ExitEnabled
    PROVE  IInv /\ Protocol /\ Finished /\ [BotNext]_bot_vars => Finished'
<1> SUFFICES ASSUME IInv, Protocol, Finished, [BotNext]_bot_vars PROVE Finished'
  OBVIOUS
<1>1. CASE VisitToken \/ SettlePositions
  BY <1>1, VisitKeepsFinished, SettlingKeepsFinished
<1>2. ASSUME NEW listed \in SUBSET Markets, DiscoverMarkets(listed) PROVE Finished'
  <2>1. \A m \in universe' : now < End[m] /\ m \in Markets
    <3> SUFFICES ASSUME NEW m \in universe' PROVE now < End[m] /\ m \in Markets
      OBVIOUS
    <3>1. m \in Markets /\ NearExpiry(m)
      BY <1>2 DEF DiscoverMarkets
    <3>2. End[m] \in Nat /\ now \in Int
      BY <3>1, BotAssumption DEF BotAssumption, Finished
    <3> QED BY <3>1, <3>2 DEF NearExpiry, SecondsTo, NonNegative
  <2>2. \A m \in universe' : ~Closed(m)
    BY <2>1, BotAssumption DEF Finished, BotAssumption
  <2> QED BY <1>2, <2>2
          DEF DiscoverMarkets, paper_vars, env_vars, Finished, Closed, Unresolved, HasPosition,
              SettledMarketHasNoOpenOrders, OpenInMarket, Open
<1>3. CASE GammaFails \/ SaveState
  BY <1>3, EngineUntouched DEF GammaFails, SaveState, scan_vars, InCycle, Scanning
<1>4. CASE Sleep \/ SlowCall
  <2>1. now' \in 0 .. MaxNow /\ now' >= now
    BY <1>4, BotAssumption DEF Sleep, SlowCall, Least, Finished, BotAssumption
  <2>2. UNCHANGED <<paper_vars, resolution, universe>> /\ (InCycle' => InCycle)
    BY <1>4 DEF Sleep, SlowCall, InCycle, Scanning
  <2>3. \A m \in Markets : now >= End[m] => now' >= End[m]
    BY <2>1, BotAssumption DEF Finished, BotAssumption
  <2> QED BY <2>1, <2>2, <2>3
          DEF paper_vars, Finished, Closed, Unresolved, HasPosition,
              SettledMarketHasNoOpenOrders, OpenInMarket, Open
<1>5. ASSUME NEW m \in Markets, NEW w \in Sides \cup {NoWinner}, Resolve(m, w)
      PROVE  Finished'
  <2>1. \A n \in Markets : resolution'[n] # Pending => now >= End[n]
    BY <1>5 DEF Resolve, Finished, Protocol
  <2>2. UNCHANGED <<paper_vars, now, universe, pc>>
    BY <1>5 DEF Resolve
  <2> QED BY <2>1, <2>2
          DEF paper_vars, Finished, Closed, Unresolved, HasPosition, InCycle, Scanning,
              SettledMarketHasNoOpenOrders, OpenInMarket, Open
<1>6. CASE Crash
  BY <1>6 DEF Crash, env_vars, Finished, Closed, HasPosition, SettledMarketHasNoOpenOrders
<1>7. CASE UNCHANGED bot_vars
  BY <1>7, EngineUntouched DEF bot_vars, InCycle, Scanning
<1> QED BY <1>1, <1>2, <1>3, <1>4, <1>5, <1>6, <1>7 DEF BotNext, BotStep

\* A settled market has no OPEN order and never gets one again, though slow calls
\* may carry a cycle past a market's end and though the process may die anywhere:
\* nothing is settled while a watchlist is worked through, and no later listing
\* lets an ended market in.  Early exits are off, as by default: a market sold
\* early is still listed.
THEOREM SettledStaysClean ==
    ~ExitEnabled /\ BotSpec => []SettledMarketHasNoOpenOrders
<1> SUFFICES ASSUME ~ExitEnabled PROVE BotSpec => []SettledMarketHasNoOpenOrders
  OBVIOUS
<1>1. IInv /\ Protocol /\ Finished /\ [BotNext]_bot_vars => Finished'
  BY FinishedNext
<1>2. Finished => SettledMarketHasNoOpenOrders
  BY DEF Finished
<1> QED BY <1>1, <1>2, FinishedInit, BotInvariance, PTL DEF BotSpec, BotInv

-----------------------------------------------------------------------------
(* Types *)

\* A token whose order may still come has a trade left in this cycle.
TradeLeft == pc \in {"watch", "exit", "signal"} => trades[cur[1]] < MaxTradesPerMarket

CycleTyped == CycleTypeOK /\ TradeLeft

\* The result settle_market leaves behind.
LEMMA SettledPosition ==
    ASSUME TypeOK, NEW m \in Markets, NEW winner, SettleMarket(m, winner)
    PROVE  /\ positions'[m] # NoPosition
           /\ positions'[m].side = positions[m].side /\ positions[m].side \in Sides
           /\ positions'[m].pnl = PayoutOf(m, winner) - positions[m].cost
           /\ positions'[m].pnl \in Int
           /\ positions'[m].status \in {"WON", "LOST"}
<1> DEFINE pnl == PayoutOf(m, winner) - positions[m].cost
           status == IF PayoutOf(m, winner) > 0 THEN "WON" ELSE "LOST"
           after == [positions[m] EXCEPT !.pnl = pnl, !.status = status]
<1>1. positions[m] \in PaperPosition
  BY DEF TypeOK, SettleMarket, HasPosition
<1>2. pnl \in Int
  <2>1. positions[m].size * Payout \in Int /\ positions[m].cost \in Int
    BY <1>1, AmountsAssumption DEF PaperPosition, AmountsAssumption
  <2> QED BY <2>1 DEF PayoutOf
<1>3. status \in {"WON", "LOST"}
  OBVIOUS
<1> HIDE DEF pnl, status
<1>4. after \in PaperPosition /\ after.side = positions[m].side /\ after.pnl = pnl
      /\ after.status = status
  BY <1>1, <1>2, <1>3, PositionClosedType DEF PaperPosition
<1>5. positions' = [positions EXCEPT ![m] = after]
  BY DEF SettleMarket, pnl, status
<1> HIDE DEF after
<1>6. positions'[m] = after
  BY <1>5 DEF TypeOK
<1>7. after # NoPosition /\ positions[m].side \in Sides
  BY <1>1, <1>4, NoPositionAssumption DEF PaperPosition, NoPositionAssumption
<1> QED BY <1>2, <1>3, <1>4, <1>6, <1>7 DEF pnl

LEMMA CycleTypedInit == BotInit => CycleTyped
BY BotAssumption DEF BotInit, BotAssumption, CycleTyped, CycleTypeOK, TradeLeft, NoRow, PseudoTrade

LEMMA GotoKeepsTypes ==
    ASSUME CycleTyped, pc \in {"watch", "exit", "signal", "fill"},
           NEW label \in {"exit", "signal", "fill", "expire"}, Goto(label),
           dedupe' \subseteq Tokens,
           trades' \in [Markets -> 0 .. MaxTradesPerMarket],
           rows' \in [Tokens -> PseudoTrade],
           label \in {"exit", "signal"} => pc \in {"watch", "exit"} /\ UNCHANGED trades
    PROVE  CycleTyped'
BY DEF CycleTyped, CycleTypeOK, TradeLeft, Goto, env_vars, settle_vars

LEMMA TokenDoneKeepsTypes == CycleTyped /\ TokenDone => CycleTyped'
BY DEF CycleTyped, CycleTypeOK, TradeLeft, TokenDone, env_vars, settle_vars, disk

LEMMA RowTypes ==
    /\ OpenRow \in PseudoTrade
    /\ \A pnl \in Int, won \in BOOLEAN : ClosedRow(pnl, won) \in PseudoTrade
BY DEF OpenRow, ClosedRow, PseudoTrade

LEMMA VisitKeepsTypes ==
    ASSUME TypeOK, TypeOK', Protocol, CycleTyped, VisitToken
    PROVE  CycleTyped'
<1> USE DEF CycleTyped
<1>1. ASSUME NEW t \in to_scan, SkipToken(t) PROVE CycleTyped'
  BY <1>1 DEF CycleTypeOK, TradeLeft, SkipToken, AtToken, paper_vars, env_vars, settle_vars, disk
<1>2. ASSUME NEW t \in to_scan, NEW a \in Depths, NEW b \in Bids, NEW d \in Depths,
             FetchBook(t, a, b, d)
      PROVE  CycleTyped'
  <2>1. t \in Tokens /\ t[1] \in Markets
    BY DEF CycleTypeOK, Tokens
  <2>2. trades[t[1]] < MaxTradesPerMarket
    BY <1>2, <2>1, BotAssumption DEF FetchBook, TradesExhausted, CycleTypeOK, BotAssumption
  <2>3. t # NoToken
    BY <2>1, BotAssumption DEF BotAssumption
  <2> QED BY <1>2, <2>1, <2>2, <2>3
          DEF FetchBook, CycleTypeOK, TradeLeft, paper_vars, env_vars, settle_vars, disk
<1>3. \/ \E o \in DOMAIN open_orders : WatchFill(o)
      \/ NothingToWatch \/ KeepPosition \/ NewOrderUnfilled
      => CycleTyped'
  BY GotoKeepsTypes DEF WatchFill, NothingToWatch, KeepPosition, NewOrderUnfilled, CycleTypeOK
<1>4. ASSUME Scanning PROVE cur \in Tokens /\ cur[1] \in Markets /\ cur[2] \in Sides
  BY <1>4 DEF Protocol, Tokens
<1>5. CASE ExitAtFlat
  <2>1. cur \in Tokens /\ cur[1] \in Markets
    BY <1>4, <1>5 DEF ExitAtFlat, Scanning
  <2>2. positions'[cur[1]].pnl \in Int
    <3> DEFINE m == cur[1]
               proceeds == positions[m].size * book.bid
    <3>1. positions[m] \in PaperPosition
      BY <1>5, <2>1 DEF ExitAtFlat, ClosePositionAtPrice, HasPosition, TypeOK
    <3>2. book.bid \in Int
      <4>1. book.bid \in Bids
        BY <1>5 DEF ExitAtFlat, Protocol, Scanning
      <4>2. Bids \subseteq Int
        BY BotAssumption, AmountsAssumption DEF BotAssumption, AmountsAssumption
      <4> QED BY <4>1, <4>2, Zenon
    <3>3. proceeds - positions[m].cost \in Int
      BY <3>1, <3>2 DEF PaperPosition
    <3>4. positions'[m].pnl = proceeds - positions[m].cost
      BY <1>5, <2>1, <3>1 DEF ExitAtFlat, ClosePositionAtPrice, TypeOK, PaperPosition
    <3> QED BY <3>3, <3>4
  <2>3. ClosedRow(positions'[cur[1]].pnl, positions'[cur[1]].pnl >= 0) \in PseudoTrade
    BY <2>2 DEF ClosedRow, PseudoTrade
  <2>4. rows' \in [Tokens -> PseudoTrade]
    BY <1>5, <2>1, <2>3 DEF ExitAtFlat, CycleTypeOK
  <2> QED BY <1>5, <2>4, GotoKeepsTypes DEF ExitAtFlat, CycleTypeOK
<1>6. CASE OpenOrder
  <2>1. cur \in Tokens /\ cur[1] \in Markets
    BY <1>4, <1>6 DEF OpenOrder, Scanning
  <2>2. trades' \in [Markets -> 0 .. MaxTradesPerMarket]
    <3>1. trades[cur[1]] < MaxTradesPerMarket /\ trades[cur[1]] \in Nat
      BY <1>6, <2>1, BotAssumption DEF OpenOrder, TradeLeft, CycleTypeOK, BotAssumption
    <3>2. trades[cur[1]] + 1 \in 0 .. MaxTradesPerMarket
      BY <3>1, BotAssumption DEF BotAssumption
    <3> QED BY <1>6, <2>1, <3>2 DEF OpenOrder, CycleTypeOK
  <2>3. dedupe' \subseteq Tokens
    BY <1>6, <2>1 DEF OpenOrder, Trimmed, CycleTypeOK
  <2> QED BY <1>6, <2>2, <2>3, GotoKeepsTypes DEF OpenOrder, CycleTypeOK
<1>7. CASE FillNewOrder
  <2>1. cur \in Tokens
    BY <1>4, <1>7 DEF FillNewOrder, Scanning
  <2>2. rows' \in [Tokens -> PseudoTrade]
    BY <1>7, <2>1, RowTypes DEF FillNewOrder, CycleTypeOK
  <2> QED BY <1>7, <2>2, GotoKeepsTypes DEF FillNewOrder, CycleTypeOK
<1>8. CASE NoSignal \/ ExpireNewOrder \/ KeepNewOrder
  BY <1>8, TokenDoneKeepsTypes DEF NoSignal, ExpireNewOrder, KeepNewOrder
<1> QED BY VisitToken, <1>1, <1>2, <1>3, <1>5, <1>6, <1>7, <1>8 DEF VisitToken

LEMMA SettlingKeepsTypes ==
    ASSUME TypeOK, Protocol, CycleTyped, SettlePositions
    PROVE  CycleTyped'
<1> USE DEF CycleTyped, CycleTypeOK, TradeLeft, env_vars, scan_vars, settle_vars, disk
<1>1. CASE BeginSettlement
  BY <1>1 DEF BeginSettlement
<1>2. ASSUME NEW m \in to_settle, StillUnresolved(m) PROVE CycleTyped'
  BY <1>2 DEF StillUnresolved
<1>3. ASSUME NEW m \in to_settle, PollResolved(m) PROVE CycleTyped'
  BY <1>3 DEF PollResolved
<1>4. ASSUME NEW o \in DOMAIN open_orders, CancelOrder(o) PROVE CycleTyped'
  BY <1>4 DEF CancelOrder
<1>5. CASE SettlePolled
  <2> DEFINE m == polled.market
  <2>1. m \in Markets
    BY <1>5 DEF SettlePolled, Protocol, Unresolved, HasPosition
  <2>2. rows' \in [Tokens -> PseudoTrade]
    <3>1. CASE polled.winner = NoWinner
      BY <1>5, <3>1 DEF SettlePolled
    <3>2. CASE polled.winner # NoWinner
      <4>1. SettleMarket(m, polled.winner)
        BY <1>5, <3>2 DEF SettlePolled
      <4>2. positions'[m].pnl \in Int /\ positions[m].side \in Sides
        BY <2>1, <4>1, SettledPosition
      <4>3. /\ ClosedRow(positions'[m].pnl, positions'[m].status = "WON") \in PseudoTrade
            /\ <<m, positions[m].side>> \in Tokens
        BY <2>1, <4>2, RowTypes DEF Tokens
      <4> QED BY <1>5, <3>2, <4>3 DEF SettlePolled
    <3> QED BY <3>1, <3>2
  <2> QED BY <1>5, <2>2 DEF SettlePolled
<1> QED BY SettlePositions, <1>1, <1>2, <1>3, <1>4, <1>5 DEF SettlePositions

LEMMA CycleTypedNext ==
    TypeOK /\ TypeOK' /\ Protocol /\ CycleTyped /\ [BotNext]_bot_vars => CycleTyped'
<1> SUFFICES ASSUME TypeOK, TypeOK', Protocol, CycleTyped, [BotNext]_bot_vars
             PROVE  CycleTyped'
  OBVIOUS
<1>1. CASE VisitToken \/ SettlePositions
  BY <1>1, VisitKeepsTypes, SettlingKeepsTypes
<1> USE DEF CycleTyped, CycleTypeOK, TradeLeft, env_vars, scan_vars, settle_vars, disk
<1>2. ASSUME NEW listed \in SUBSET Markets, DiscoverMarkets(listed) PROVE CycleTyped'
  BY <1>2, BotAssumption DEF DiscoverMarkets, Pruned, Trimmed, BotAssumption
<1>3. CASE GammaFails \/ SaveState
  BY <1>3 DEF GammaFails, SaveState
<1>4. CASE Sleep \/ SlowCall
  BY <1>4, BotAssumption DEF Sleep, SlowCall, Least, BotAssumption
<1>5. ASSUME NEW m \in Markets, NEW w \in Sides \cup {NoWinner}, Resolve(m, w)
      PROVE  CycleTyped'
  BY <1>5 DEF Resolve
<1>6. CASE Crash
  BY <1>6, BotAssumption DEF Crash, BotAssumption
<1>7. CASE UNCHANGED bot_vars
  BY <1>7 DEF bot_vars
<1> QED BY <1>1, <1>2, <1>3, <1>4, <1>5, <1>6, <1>7 DEF BotNext, BotStep

\* The cycle's own variables keep their types: no token takes a trade more than
\* its market has left, a watchlist is about the universe it was computed from,
\* and a token is being visited exactly while the cycle is at one.
THEOREM BotTypeCorrect == BotSpec => []BotTypeOK
<1>1. BotInv => TypeOK /\ Protocol
  BY DEF BotInv, IInv
<1>2. TypeOK /\ CycleTyped => BotTypeOK
  BY DEF BotTypeOK, CycleTyped
<1> QED BY <1>1, <1>2, CycleTypedInit, CycleTypedNext, BotInvariance, PTL DEF BotSpec

-----------------------------------------------------------------------------
(* Rows and snapshots *)

\* A market something can still be written about: a watchlist being worked
\* through lists it, or the engine holds an unresolved position or an OPEN order.
Live(m) ==
    \/ InCycle /\ m \in universe
    \/ Unresolved(m)
    \/ \E o \in DOMAIN open_orders : OpenInMarket(o, m)

ResultOf(m) == ClosedRow(positions[m].pnl, positions[m].status = "WON")

\* The positions of the saved state are about tokens, as the engine's are.
SnapshotOfTokens ==
    snapshot # NoSnapshot =>
        \A m \in Markets : snapshot.positions[m] # NoPosition =>
                               <<m, snapshot.positions[m].side>> \in Tokens

\* A row with a result is about a market that has ended and is live no more,
\* in this process or a later one; the engine's closed positions all have theirs.
RowsSound ==
    /\ \A t \in Tokens : Settled(rows[t]) => now >= End[t[1]] /\ ~Live(t[1])
    /\ \A t \in Tokens : ~Settled(rows[t]) => rows[t].pnl = 0
    /\ \A m \in Markets : Closed(m) => rows[<<m, positions[m].side>>] = ResultOf(m)
    /\ SnapshotBackedByRows
    /\ SnapshotOfTokens

Grounds == IInv /\ Protocol /\ CycleTyped /\ Finished

\* A step that keeps every result already written.
KeepsResults == \A t \in Tokens : Settled(rows[t]) => rows'[t] = rows[t]

LEMMA RowsSoundInit == BotInit => RowsSound
BY DEF BotInit, Init, RowsSound, NoRow, Settled, Closed, HasPosition, SnapshotBackedByRows,
   SnapshotOfTokens, Tokens

\* The engine's position has a side, so its row is that of a token.
LEMMA RowOfPosition ==
    ASSUME TypeOK, NEW m \in Markets, HasPosition(m)
    PROVE  <<m, positions[m].side>> \in Tokens
<1>1. positions[m] \in PaperPosition
  BY DEF TypeOK, HasPosition
<1> QED BY <1>1 DEF PaperPosition, Tokens

\* A step that writes no row and saves nothing, makes no market live but one that
\* has not ended, and closes none.
LEMMA NothingWritten ==
    ASSUME Grounds, Grounds', RowsSound, UNCHANGED disk, now' >= now,
           \A m \in Markets : Live(m)' => Live(m) \/ now < End[m],
           \A m \in Markets : Closed(m)' => Closed(m) /\ positions'[m] = positions[m]
    PROVE  RowsSound' /\ KeepsResults
<1>1. now \in Nat /\ now' \in Nat /\ End \in [Markets -> Nat]
  BY BotAssumption DEF Grounds, Finished, BotAssumption
<1>2. ASSUME NEW t \in Tokens, Settled(rows[t]) PROVE now' >= End[t[1]] /\ ~Live(t[1])'
  <2>1. t[1] \in Markets /\ End[t[1]] \in Nat
    BY <1>1 DEF Tokens
  <2>2. now >= End[t[1]] /\ ~Live(t[1])
    BY <1>2 DEF RowsSound
  <2> QED BY <1>1, <2>1, <2>2
<1>3. \A m \in Markets : Closed(m)' => rows[<<m, positions'[m].side>>] = ResultOf(m)'
  BY DEF RowsSound, ResultOf
<1> QED BY <1>2, <1>3 DEF RowsSound, KeepsResults, disk, SnapshotBackedByRows, SnapshotOfTokens

\* A step that writes the row of one token that has no result yet.
LEMMA RowWritten ==
    ASSUME Grounds, Grounds', RowsSound, UNCHANGED snapshot, now' >= now,
           NEW t \in Tokens, ~Settled(rows[t]), NEW row, rows' = [rows EXCEPT ![t] = row],
           Settled(row) => now' >= End[t[1]] /\ ~Live(t[1])',
           ~Settled(row) => row.pnl = 0,
           \A m \in Markets : Live(m)' => Live(m) \/ now < End[m],
           \A m \in Markets : Closed(m)' =>
               \/ Closed(m) /\ positions'[m] = positions[m]
               \/ t = <<m, positions'[m].side>> /\ row = ResultOf(m)'
    PROVE  RowsSound' /\ KeepsResults
<1>1. /\ now \in Nat /\ now' \in Nat /\ End \in [Markets -> Nat]
      /\ rows \in [Tokens -> PseudoTrade]
  BY BotAssumption DEF Grounds, Finished, BotAssumption, CycleTyped, CycleTypeOK
<1>2. rows'[t] = row /\ \A u \in Tokens : u # t => rows'[u] = rows[u]
  BY <1>1
<1>3. \A u \in Tokens : Settled(rows[u]) => rows'[u] = rows[u]
  BY <1>2
<1>4. ASSUME NEW u \in Tokens, Settled(rows'[u]) PROVE now' >= End[u[1]] /\ ~Live(u[1])'
  <2>1. CASE u = t
    BY <1>2, <1>4, <2>1
  <2>2. CASE u # t
    <3>1. u[1] \in Markets /\ End[u[1]] \in Nat
      BY <1>1 DEF Tokens
    <3>2. now >= End[u[1]] /\ ~Live(u[1])
      BY <1>2, <1>4, <2>2 DEF RowsSound
    <3> QED BY <1>1, <3>1, <3>2
  <2> QED BY <2>1, <2>2
<1>5. \A m \in Markets : Closed(m) =>
         <<m, positions[m].side>> \in Tokens /\ Settled(rows[<<m, positions[m].side>>])
  <2> SUFFICES ASSUME NEW m \in Markets, Closed(m)
               PROVE  /\ <<m, positions[m].side>> \in Tokens
                      /\ Settled(rows[<<m, positions[m].side>>])
    OBVIOUS
  <2>1. TypeOK /\ HasPosition(m)
    BY DEF Grounds, IInv, Closed
  <2>2. <<m, positions[m].side>> \in Tokens
    BY <2>1, RowOfPosition
  <2>3. rows[<<m, positions[m].side>>] = ResultOf(m)
    BY DEF RowsSound
  <2> QED BY <2>2, <2>3 DEF ResultOf, ClosedRow, Settled
<1>6. ASSUME NEW m \in Markets, Closed(m)' PROVE rows'[<<m, positions'[m].side>>] = ResultOf(m)'
  <2>1. CASE Closed(m) /\ positions'[m] = positions[m]
    BY <1>3, <1>5, <2>1 DEF RowsSound, ResultOf
  <2>2. CASE t = <<m, positions'[m].side>> /\ row = ResultOf(m)'
    BY <1>2, <2>2
  <2> QED BY <1>6, <2>1, <2>2
<1>7. SnapshotBackedByRows'
  <2> SUFFICES ASSUME snapshot # NoSnapshot, NEW m \in Markets,
                      snapshot.positions[m] # NoPosition,
                      snapshot.positions[m].status \in {"WON", "LOST"}
               PROVE  LET pos == snapshot.positions[m]
                      IN  rows'[<<m, pos.side>>] = ClosedRow(pos.pnl, pos.status = "WON")
    BY DEF SnapshotBackedByRows
  <2> DEFINE pos == snapshot.positions[m]
             u == <<m, pos.side>>
  <2>1. u \in Tokens
    BY DEF RowsSound, SnapshotOfTokens
  <2>2. rows[u] = ClosedRow(pos.pnl, pos.status = "WON")
    BY DEF RowsSound, SnapshotBackedByRows
  <2>3. Settled(rows[u])
    BY <2>2 DEF ClosedRow, Settled
  <2> QED BY <1>3, <2>1, <2>2, <2>3
<1>8. \A u \in Tokens : ~Settled(rows'[u]) => rows'[u].pnl = 0
  BY <1>2 DEF RowsSound
<1>9. SnapshotOfTokens'
  BY DEF RowsSound, SnapshotOfTokens
<1> QED BY <1>3, <1>4, <1>6, <1>7, <1>8, <1>9 DEF RowsSound, KeepsResults

LEMMA EngineUnread ==
    ASSUME Grounds, Grounds', RowsSound, UNCHANGED <<disk, paper_vars, universe>>, now' >= now,
           InCycle' => InCycle
    PROVE  RowsSound' /\ KeepsResults
<1>1. \A m \in Markets : Live(m)' => Live(m)
  BY DEF paper_vars, Live, Unresolved, HasPosition, OpenInMarket, Open
<1>2. \A m \in Markets : Closed(m)' => Closed(m) /\ positions'[m] = positions[m]
  BY DEF paper_vars, Closed, Unresolved, HasPosition
<1> QED BY <1>1, <1>2, NothingWritten

\* While a watchlist is worked through, the rows of its markets have no result.
LEMMA ScannedRowsUnsettled ==
    ASSUME Grounds, RowsSound, Scanning
    PROVE  cur \in Tokens /\ ~Settled(rows[cur]) /\ rows[cur].pnl = 0
<1>1. cur \in to_scan /\ cur \in universe \X Sides /\ universe \subseteq Markets
  BY DEF Grounds, Protocol
<1>2. cur \in Tokens /\ cur[1] \in universe
  BY <1>1 DEF Tokens
<1> QED BY <1>2 DEF RowsSound, Live, InCycle

LEMMA PolledRowUnsettled ==
    ASSUME Grounds, RowsSound, pc = "cancel"
    PROVE  LET t == <<polled.market, positions[polled.market].side>>
           IN  t \in Tokens /\ ~Settled(rows[t]) /\ rows[t].pnl = 0
<1>1. Unresolved(polled.market)
  BY DEF Grounds, Protocol
<1>2. polled.market \in Markets /\ Live(polled.market)
  BY <1>1 DEF Live, Unresolved, HasPosition
<1>3. <<polled.market, positions[polled.market].side>> \in Tokens
  BY <1>1, <1>2, RowOfPosition DEF Grounds, IInv, Unresolved
<1> QED BY <1>2, <1>3 DEF RowsSound

LEMMA VisitKeepsRows ==
    ASSUME ~ExitEnabled, Grounds, Grounds', RowsSound, VisitToken
    PROVE  RowsSound' /\ KeepsResults
<1> USE DEF Grounds
<1>1. now \in Nat /\ (now' = now => now' >= now)
  BY BotAssumption DEF Finished, BotAssumption
<1>2. ASSUME NEW t \in to_scan,
             \/ SkipToken(t)
             \/ \E a \in Depths, b \in Bids, d \in Depths : FetchBook(t, a, b, d)
      PROVE  RowsSound' /\ KeepsResults
  BY <1>1, <1>2, EngineUnread DEF SkipToken, FetchBook, AtToken, InCycle, env_vars
<1>3. ASSUME Scanning
      PROVE  /\ InCycle /\ book.asks \in Nat
             /\ cur[1] \in universe /\ cur[1] \in Markets /\ Live(cur[1])
  BY <1>3, AmountsAssumption DEF InCycle, Protocol, AmountsAssumption, Live
<1>4. CASE NothingToWatch \/ KeepPosition \/ NewOrderUnfilled
  BY <1>1, <1>3, <1>4, EngineUnread
     DEF NothingToWatch, KeepPosition, NewOrderUnfilled, Goto, Scanning, InCycle, env_vars, disk
<1>5. CASE NoSignal \/ KeepNewOrder
  BY <1>1, <1>3, <1>5, EngineUnread
     DEF NoSignal, KeepNewOrder, TokenDone, Scanning, InCycle, env_vars, disk
<1>6. ~ExitAtFlat
  BY DEF ExitAtFlat, ExitReached
<1>7. ASSUME NEW o \in Nat, NEW end_known \in BOOLEAN, TryFill(o, book.asks, end_known),
             Scanning, UNCHANGED <<universe, env_vars>>
      PROVE  /\ \A m \in Markets : Live(m)' => Live(m)
             /\ \A m \in Markets : Closed(m)' => Closed(m) /\ positions'[m] = positions[m]
  <2>1. /\ \A i, m : OpenInMarket(i, m)' => OpenInMarket(i, m)
        /\ \A m : Closed(m)' => Closed(m) /\ positions'[m] = positions[m]
        /\ \A m : Unresolved(m)' => Unresolved(m) \/ OpenInMarket(o, m)
    <3>1. book.asks \in Nat /\ IInv /\ Finished
      BY <1>3, <1>7
    <3> QED BY <1>7, <3>1, FillEffect
  <2>2. \A i, m : OpenInMarket(i, m) => i \in DOMAIN open_orders
    BY DEF OpenInMarket, Open
  <2> QED BY <1>3, <1>7, <2>1, <2>2 DEF Live
<1>8. ASSUME NEW o \in DOMAIN open_orders, WatchFill(o) PROVE RowsSound' /\ KeepsResults
  <2>1. o \in Nat
    BY DEF IInv, TypeOK
  <2>2. Scanning /\ UNCHANGED <<universe, env_vars, disk>>
    BY <1>8 DEF WatchFill, Scanning, Goto, disk
  <2> QED BY <1>1, <1>7, <1>8, <2>1, <2>2, NothingWritten DEF WatchFill, env_vars
<1>9. CASE OpenOrder
  <2>1. Scanning /\ UNCHANGED <<universe, now, disk, positions>>
    BY <1>9 DEF OpenOrder, Scanning, Goto, disk, env_vars, CreateOrder
  <2>2. \A i, m : OpenInMarket(i, m)' => OpenInMarket(i, m) \/ m = cur[1]
    BY <1>9 DEF OpenOrder, CreateOrder, OpenInMarket, Open, IInv, TypeOK
  <2>3. \A i, m : OpenInMarket(i, m) => i \in DOMAIN open_orders
    BY DEF OpenInMarket, Open
  <2>4. \A m \in Markets : Live(m)' => Live(m)
    BY <1>3, <2>1, <2>2, <2>3 DEF Live, Unresolved, HasPosition
  <2>5. \A m \in Markets : Closed(m)' => Closed(m) /\ positions'[m] = positions[m]
    BY <2>1 DEF Closed, Unresolved, HasPosition
  <2> QED BY <1>1, <2>1, <2>4, <2>5, NothingWritten
<1>10. CASE ExpireNewOrder
  <2>1. NewOrder \in Nat
    BY DEF NewOrder, IInv, TypeOK
  <2>2. Scanning /\ InCycle /\ UNCHANGED <<universe, now, disk>>
    BY <1>10 DEF ExpireNewOrder, TokenDone, Scanning, InCycle, env_vars
  <2>3. /\ \A i, m : OpenInMarket(i, m)' => OpenInMarket(i, m)
        /\ UNCHANGED positions
    BY <1>10, <2>1, ExpiryEffect DEF ExpireNewOrder
  <2>4. \A i, m : OpenInMarket(i, m) => i \in DOMAIN open_orders
    BY DEF OpenInMarket, Open
  <2>5. \A m \in Markets : Live(m)' => Live(m)
    BY <2>2, <2>3, <2>4 DEF Live, Unresolved, HasPosition
  <2>6. \A m \in Markets : Closed(m)' => Closed(m) /\ positions'[m] = positions[m]
    BY <2>3 DEF Closed, Unresolved, HasPosition
  <2> QED BY <1>1, <2>2, <2>5, <2>6, NothingWritten
<1>11. CASE FillNewOrder
  <2>1. NewOrder \in Nat
    BY DEF NewOrder, IInv, TypeOK
  <2>2. Scanning /\ UNCHANGED <<universe, env_vars, snapshot>>
    BY <1>11 DEF FillNewOrder, Scanning, Goto
  <2>3. /\ \A m \in Markets : Live(m)' => Live(m)
        /\ \A m \in Markets : Closed(m)' => Closed(m) /\ positions'[m] = positions[m]
    BY <1>7, <1>11, <2>1, <2>2 DEF FillNewOrder
  <2>4. cur \in Tokens /\ ~Settled(rows[cur])
    BY <2>2, ScannedRowsUnsettled
  <2>5. rows' = [rows EXCEPT ![cur] = OpenRow]
    BY <1>11 DEF FillNewOrder
  <2>6. ~Settled(OpenRow) /\ OpenRow.pnl = 0
    BY DEF OpenRow, Settled
  <2> QED BY <1>1, <2>2, <2>3, <2>4, <2>5, <2>6, RowWritten DEF env_vars
<1> QED BY VisitToken, <1>2, <1>4, <1>5, <1>6, <1>8, <1>9, <1>10, <1>11 DEF VisitToken

\* A market is settled when it has ended, has no order left and is not visited;
\* its row, still without a result, gets the result the engine booked.
LEMMA SettlementWritesResult ==
    ASSUME Grounds, Grounds', RowsSound, SettlePolled, polled.winner # NoWinner
    PROVE  RowsSound' /\ KeepsResults
<1>1. PICK m \in Markets : m = polled.market
  BY DEF Grounds, Protocol, SettlePolled, Unresolved, HasPosition
<1>2. PICK t \in Tokens : t = <<m, positions[m].side>> /\ ~Settled(rows[t])
  BY <1>1, PolledRowUnsettled DEF SettlePolled
<1> DEFINE row == ClosedRow(positions'[m].pnl, positions'[m].status = "WON")
<1>3. /\ pc = "cancel" /\ pc' = "settle"
      /\ UNCHANGED <<env_vars, universe, snapshot>>
      /\ SettleMarket(m, polled.winner)
      /\ rows' = [rows EXCEPT ![t] = row]
      /\ \A o \in DOMAIN open_orders : ~OpenInMarket(o, m)
  BY <1>1, <1>2 DEF SettlePolled
<1>4. Unresolved(m) /\ now >= End[m]
  BY <1>1, <1>3 DEF Grounds, Protocol, Finished, Unresolved, HasPosition
<1>5. /\ positions'[m] # NoPosition
      /\ positions'[m].side = positions[m].side
      /\ positions'[m].status \in {"WON", "LOST"}
  BY <1>3, <1>4, SettledPosition DEF Grounds, IInv
<1>6. /\ \A n \in Markets : n # m => positions'[n] = positions[n]
      /\ UNCHANGED open_orders
  BY <1>3 DEF SettleMarket, Grounds, IInv, TypeOK
<1>7. \A i, n : OpenInMarket(i, n)' <=> OpenInMarket(i, n)
  BY <1>6 DEF OpenInMarket, Open
<1>8. ~InCycle' /\ ~Unresolved(m)'
  BY <1>3, <1>5 DEF InCycle, Scanning, Unresolved
<1>9. \A n \in Markets : n # m => (Unresolved(n)' => Unresolved(n)) /\ (Closed(n)' => Closed(n))
  BY <1>6 DEF Closed, Unresolved, HasPosition
<1>10. \A i, n : OpenInMarket(i, n) => i \in DOMAIN open_orders
  BY DEF OpenInMarket, Open
<1>11. ~Live(m)'
  BY <1>3, <1>6, <1>7, <1>8, <1>10 DEF Live
<1>12. \A n \in Markets : Live(n)' => Live(n)
  BY <1>6, <1>7, <1>8, <1>9, <1>11 DEF Live
<1>13. row = ResultOf(m)' /\ t = <<m, positions'[m].side>> /\ t[1] = m
  BY <1>2, <1>3, <1>5 DEF ResultOf, ClosedRow, Settled
<1>14. \A n \in Markets : Closed(n)' =>
          \/ Closed(n) /\ positions'[n] = positions[n]
          \/ t = <<n, positions'[n].side>> /\ row = ResultOf(n)'
  BY <1>6, <1>9, <1>13
<1>15. now' = now /\ now \in Nat
  BY <1>3, BotAssumption DEF env_vars, Grounds, Finished, BotAssumption
<1>16. now' >= now /\ now' >= End[t[1]] /\ ~Live(t[1])'
  BY <1>4, <1>11, <1>13, <1>15
<1>17. Settled(row)
  BY DEF ClosedRow, Settled
<1>18. rows' = [rows EXCEPT ![t] = row] /\ UNCHANGED snapshot
  BY <1>3
<1> HIDE DEF row
<1> QED BY <1>2, <1>12, <1>13, <1>14, <1>16, <1>17, <1>18, RowWritten

LEMMA SettlingKeepsRows ==
    ASSUME Grounds, Grounds', RowsSound, SettlePositions
    PROVE  RowsSound' /\ KeepsResults
<1>1. now \in Nat /\ (now' = now => now' >= now)
  BY BotAssumption DEF Grounds, Finished, BotAssumption
<1>2. CASE \/ BeginSettlement
           \/ \E m \in to_settle : StillUnresolved(m) \/ PollResolved(m)
  BY <1>1, <1>2, EngineUnread
     DEF BeginSettlement, StillUnresolved, PollResolved, InCycle, Scanning, env_vars
<1>3. ASSUME NEW o \in DOMAIN open_orders, CancelOrder(o) PROVE RowsSound' /\ KeepsResults
  <2>1. o \in Nat /\ IInv
    BY DEF Grounds, IInv, TypeOK
  <2>2. ~InCycle' /\ UNCHANGED <<now, disk>>
    BY <1>3 DEF CancelOrder, InCycle, Scanning, env_vars
  <2>3. /\ \A i, m : OpenInMarket(i, m)' => OpenInMarket(i, m)
        /\ UNCHANGED positions
    BY <1>3, <2>1, ExpiryEffect DEF CancelOrder
  <2>4. \A i, m : OpenInMarket(i, m) => i \in DOMAIN open_orders
    BY DEF OpenInMarket, Open
  <2>5. \A m \in Markets : Live(m)' => Live(m)
    BY <2>2, <2>3, <2>4 DEF Live, Unresolved, HasPosition
  <2>6. \A m \in Markets : Closed(m)' => Closed(m) /\ positions'[m] = positions[m]
    BY <2>3 DEF Closed, Unresolved, HasPosition
  <2> QED BY <1>1, <2>2, <2>5, <2>6, NothingWritten
<1>4. CASE SettlePolled /\ polled.winner = NoWinner
  <2>1. PICK m \in Markets : m = polled.market /\ Unresolved(m)
    BY <1>4 DEF Grounds, Protocol, SettlePolled, Unresolved, HasPosition
  <2>2. /\ ~InCycle' /\ UNCHANGED <<now, disk, open_orders>>
        /\ positions' = [positions EXCEPT ![m].status = "PENDING_RESOLUTION"]
    BY <1>4, <2>1 DEF SettlePolled, AwaitWinner, InCycle, Scanning, env_vars, disk
  <2>3. positions[m] \in PaperPosition /\ positions \in [Markets -> PaperPosition \cup {NoPosition}]
    BY <2>1 DEF Grounds, IInv, TypeOK, Unresolved, HasPosition
  <2>4. /\ positions'[m].status = "PENDING_RESOLUTION"
        /\ \A n \in Markets : n # m => positions'[n] = positions[n]
    BY <2>2, <2>3 DEF PaperPosition
  <2>5. \A n \in Markets : Closed(n)' => Closed(n) /\ positions'[n] = positions[n]
    BY <2>4 DEF Closed, Unresolved, HasPosition
  <2>6. \A i, n : OpenInMarket(i, n)' <=> OpenInMarket(i, n)
    BY <2>2 DEF OpenInMarket, Open
  <2>7. \A n \in Markets : Live(n)' => Live(n)
    BY <2>1, <2>2, <2>4, <2>6 DEF Live, Unresolved, HasPosition
  <2> QED BY <1>1, <2>2, <2>5, <2>7, NothingWritten
<1>5. CASE SettlePolled /\ polled.winner # NoWinner
  BY <1>5, SettlementWritesResult
<1> QED BY SettlePositions, <1>2, <1>3, <1>4, <1>5 DEF SettlePositions

LEMMA RowsSoundNext ==
    ASSUME ~ExitEnabled, Grounds, Grounds', RowsSound, [BotNext]_bot_vars
    PROVE  RowsSound' /\ KeepsResults
<1>1. /\ now \in Nat /\ (now' = now => now' >= now)
      /\ End \in [Markets -> Nat] /\ MaxNow \in Nat
  BY BotAssumption DEF Grounds, Finished, BotAssumption
<1>2. CASE VisitToken \/ SettlePositions
  BY <1>2, VisitKeepsRows, SettlingKeepsRows
<1>3. ASSUME NEW listed \in SUBSET Markets, DiscoverMarkets(listed)
      PROVE  RowsSound' /\ KeepsResults
  <2>1. UNCHANGED <<paper_vars, now, disk>>
    BY <1>3 DEF DiscoverMarkets, env_vars
  <2>2. \A m \in Markets : m \in universe' => now < End[m]
    BY <1>1, <1>3 DEF DiscoverMarkets, NearExpiry, SecondsTo, NonNegative
  <2>3. \A m \in Markets : Live(m)' => Live(m) \/ now < End[m]
    BY <2>1, <2>2 DEF paper_vars, Live, Unresolved, HasPosition, OpenInMarket, Open
  <2>4. \A m \in Markets : Closed(m)' => Closed(m) /\ positions'[m] = positions[m]
    BY <2>1 DEF paper_vars, Closed, Unresolved, HasPosition
  <2> QED BY <1>1, <2>1, <2>3, <2>4, NothingWritten
<1>4. CASE GammaFails
  BY <1>1, <1>4, EngineUnread DEF GammaFails, InCycle, Scanning, env_vars
<1>5. CASE SaveState
  <2>1. UNCHANGED <<paper_vars, now, rows, universe>> /\ ~InCycle'
    BY <1>5 DEF SaveState, InCycle, Scanning, env_vars
  <2>2. snapshot'.positions = positions
    BY <1>5 DEF SaveState
  <2>3. \A m \in Markets : Live(m)' => Live(m)
    BY <2>1 DEF paper_vars, Live, Unresolved, HasPosition, OpenInMarket, Open
  <2>4. SnapshotBackedByRows'
    BY <2>1, <2>2 DEF SnapshotBackedByRows, RowsSound, ResultOf, Closed, Unresolved, HasPosition
  <2>5. SnapshotOfTokens'
    BY <2>2, RowOfPosition DEF SnapshotOfTokens, HasPosition, Grounds, IInv
  <2>6. \A m \in Markets : Closed(m)' => rows'[<<m, positions'[m].side>>] = ResultOf(m)'
    BY <2>1 DEF paper_vars, RowsSound, ResultOf, Closed, Unresolved, HasPosition
  <2>7. \A t \in Tokens : t[1] \in Markets
    BY DEF Tokens
  <2> QED BY <2>1, <2>3, <2>4, <2>5, <2>6, <2>7 DEF RowsSound, KeepsResults
<1>6. CASE Sleep \/ SlowCall
  <2>1. now' >= now
    BY <1>1, <1>6 DEF Sleep, SlowCall, Least, Grounds, Finished
  <2>2. UNCHANGED <<disk, paper_vars, universe>> /\ (InCycle' => InCycle)
    BY <1>6 DEF Sleep, SlowCall, InCycle, Scanning
  <2> QED BY <2>1, <2>2, EngineUnread
<1>7. ASSUME NEW m \in Markets, NEW w \in Sides \cup {NoWinner}, Resolve(m, w)
      PROVE  RowsSound' /\ KeepsResults
  BY <1>1, <1>7, EngineUnread DEF Resolve, InCycle, Scanning
<1>8. CASE Crash
  <2>1. /\ \A m \in Markets : ~Live(m)' /\ ~Closed(m)'
        /\ UNCHANGED <<now, disk>>
    BY <1>8 DEF Crash, Live, InCycle, Scanning, Closed, Unresolved, HasPosition,
                OpenInMarket, Open, env_vars
  <2> QED BY <1>1, <2>1, NothingWritten
<1>9. CASE UNCHANGED bot_vars
  BY <1>1, <1>9, EngineUnread DEF bot_vars, InCycle, Scanning, env_vars
<1> QED BY <1>2, <1>3, <1>4, <1>5, <1>6, <1>7, <1>8, <1>9 DEF BotNext, BotStep

LEMMA GroundsHold == ~ExitEnabled /\ BotSpec => []Grounds
<1> SUFFICES ASSUME ~ExitEnabled PROVE BotSpec => []Grounds
  OBVIOUS
<1>1. IInv /\ Protocol /\ Finished /\ [BotNext]_bot_vars => Finished'
  BY FinishedNext
<1>2. BotInv => IInv /\ Protocol /\ TypeOK
  BY DEF BotInv, IInv
<1> QED BY <1>1, <1>2, FinishedInit, CycleTypedInit, CycleTypedNext, BotInvariance, PTL
        DEF BotSpec, Grounds

\* What the saved state shows as closed is in pseudo_trades with the same
\* result, after any number of crashes: settle_position writes the row before
\* save_runtime_state can show the position, and the row then stays.
THEOREM SnapshotsBacked == ~ExitEnabled /\ BotSpec => []SnapshotBackedByRows
<1> SUFFICES ASSUME ~ExitEnabled PROVE BotSpec => []SnapshotBackedByRows
  OBVIOUS
<1>1. Grounds /\ Grounds' /\ RowsSound /\ [BotNext]_bot_vars => RowsSound'
  BY RowsSoundNext
<1>2. RowsSound => SnapshotBackedByRows
  BY DEF RowsSound
<1> QED BY <1>1, <1>2, RowsSoundInit, GroundsHold, PTL DEF BotSpec

\* A result once written is never rewritten: no row is written about a market
\* that is neither watched, held nor ordered in, and a market with a result is
\* none of these, in the process that wrote it and in those started after it.
THEOREM ResultsFinal == ~ExitEnabled /\ BotSpec => SettledRowsAreFinal
<1> SUFFICES ASSUME ~ExitEnabled PROVE BotSpec => SettledRowsAreFinal
  OBVIOUS
<1>1. Grounds /\ Grounds' /\ RowsSound /\ [BotNext]_bot_vars => RowsSound' /\ KeepsResults
  BY RowsSoundNext
<1>2. KeepsResults <=> \A t \in Tokens : Settled(rows[t]) => rows'[t] = rows[t]
  BY DEF KeepsResults
<1> QED BY <1>1, <1>2, RowsSoundInit, GroundsHold, PTL DEF BotSpec, SettledRowsAreFinal

-----------------------------------------------------------------------------
(* The report *)

Costs == [m \in Nat |-> CostOfUnresolved(m)]
Cost == Total(Costs, NumMarkets)
Reported == [t \in Tokens |-> rows[t].pnl]

LEMMA CostsType == ASSUME TypeOK PROVE Costs \in [Nat -> Int]
<1>1. ASSUME NEW m \in Nat PROVE CostOfUnresolved(m) \in Int
  <2>1. HasPosition(m) => positions[m].cost \in Int
    BY DEF HasPosition, TypeOK, PaperPosition
  <2> QED BY <2>1 DEF CostOfUnresolved, Unresolved
<1> QED BY <1>1 DEF Costs

LEMMA CostType == ASSUME TypeOK PROVE Cost \in Int
<1>1. Costs \in [Nat -> Int] /\ NumMarkets \in Nat
  BY CostsType, AmountsAssumption DEF AmountsAssumption
<1> HIDE DEF Costs
<1> QED BY <1>1, PrefixSumDef DEF Cost, Total

LEMMA CostUpdate ==
    ASSUME TypeOK, TypeOK', NEW m \in Markets, NEW after,
           positions' = [positions EXCEPT ![m] = after]
    PROVE  Cost' = Cost + CostOfUnresolved(m)' - CostOfUnresolved(m)
<1>1. NumMarkets \in Nat /\ m \in Nat /\ m \in 1 .. NumMarkets
  BY AmountsAssumption DEF AmountsAssumption, Markets
<1>2. Costs \in [Nat -> Int] /\ Costs' \in [Nat -> Int]
  <2>1. (TypeOK => Costs \in [Nat -> Int])'
    BY CostsType, PTL
  <2> QED BY <2>1, CostsType
<1>3. ASSUME NEW i \in Nat, i > 0, i # m PROVE Costs'[i] = Costs[i]
  <2>1. i \in Markets => positions'[i] = positions[i]
    BY <1>3 DEF TypeOK
  <2> QED BY <2>1 DEF Costs, CostOfUnresolved, Unresolved, HasPosition
<1>4. Total(Costs', NumMarkets) = Total(Costs, NumMarkets) + Costs'[m] - Costs[m]
  BY <1>1, <1>2, <1>3, TotalUpdate
<1>5. Costs'[m] = CostOfUnresolved(m)' /\ Costs[m] = CostOfUnresolved(m)
  BY <1>1 DEF Costs
<1> QED BY <1>4, <1>5 DEF Cost

LEMMA CostUnchanged ==
    ASSUME UNCHANGED positions
    PROVE  Cost' = Cost
BY DEF Cost, Costs, CostOfUnresolved, Unresolved, HasPosition

\* The rows are as many as the tokens, so their profits can be summed.
LEMMA ReportedSummable == ASSUME CycleTyped PROVE Summable(Reported, Tokens)
<1>1. IsFiniteSet(Markets) /\ IsFiniteSet(Sides)
  BY FS_Interval, AmountsAssumption, BotAssumption DEF Markets, AmountsAssumption, BotAssumption
<1>2. IsFiniteSet(Tokens)
  BY <1>1, FS_Product DEF Tokens
<1>3. \A t \in Tokens : Reported[t] \in Int
  BY DEF Reported, CycleTyped, CycleTypeOK, PseudoTrade
<1> QED BY <1>2, <1>3 DEF Summable

LEMMA ReportUpdate ==
    ASSUME CycleTyped, CycleTyped', NEW t \in Tokens, rows[t].pnl = 0,
           NEW row, rows' = [rows EXCEPT ![t] = row]
    PROVE  ReportedPnl \in Int /\ row.pnl \in Int /\ ReportedPnl' = ReportedPnl + row.pnl
<1>1. Summable(Reported, Tokens) /\ Summable(Reported', Tokens)
  <2>1. (CycleTyped => Summable(Reported, Tokens))'
    BY ReportedSummable, PTL
  <2> QED BY <2>1, ReportedSummable
<1>2. /\ \A u \in Tokens : u # t => Reported'[u] = Reported[u]
      /\ Reported[t] = 0 /\ Reported'[t] = row.pnl
  BY DEF Reported, CycleTyped, CycleTypeOK
<1>3. SumFunctionOnSet(Reported', Tokens)
        = SumFunctionOnSet(Reported, Tokens) + Reported'[t] - Reported[t]
  BY <1>1, <1>2, SetSumUpdate
<1>4. SumFunctionOnSet(Reported, Tokens) \in Int
  BY <1>1, SetSumDef
<1>5. Reported'[t] \in Int
  BY <1>1 DEF Summable
<1> QED BY <1>2, <1>3, <1>4, <1>5 DEF ReportedPnl, Reported

LEMMA EquityIsHeld ==
    /\ Equity = cash_available + cash_reserved + Cost
    /\ Equity' = cash_available' + cash_reserved' + Cost'
BY DEF Equity, Cost, Costs

\* No call but a settlement changes the equity.
LEMMA CreateOrderKeepsEquity ==
    ASSUME IInv, NEW m \in Markets, NEW s \in Sides, NEW p \in Prices, NEW q \in Sizes,
           CreateOrder(m, s, p, q)
    PROVE  Equity' = Equity
<1>1. p * q \in Nat
  BY AmountsAssumption, ProductNat DEF AmountsAssumption
<1> DEFINE x == p * q
<1>2. cash_available' = cash_available - x /\ cash_reserved' = cash_reserved + x
  BY DEF CreateOrder
<1>3. Cost' = Cost
  BY CostUnchanged DEF CreateOrder
<1>4. cash_available \in Int /\ cash_reserved \in Int /\ Cost \in Int
  BY CostType DEF IInv, TypeOK
<1> HIDE DEF x
<1>5. x \in Int
  BY <1>1 DEF x
<1> QED BY <1>2, <1>3, <1>4, <1>5, EquityIsHeld

LEMMA ExpiryKeepsEquity ==
    ASSUME IInv, NEW o \in Nat, NEW status, ExpireOrder(o, status), IInv'
    PROVE  Equity' = Equity
<1>1. Account!Release
  BY ExpireOrderReleases
<1>2. cash_available' = cash_available + (cash_reserved - cash_reserved')
  BY <1>1 DEF Account!Release
<1>3. Cost' = Cost
  BY CostUnchanged DEF ExpireOrder
<1>4. /\ cash_available \in Int /\ cash_reserved \in Int /\ Cost \in Int
      /\ cash_reserved' \in Int
  BY CostType DEF IInv, TypeOK
<1>5. cash_available' + cash_reserved' = cash_available + cash_reserved
  <2>1. \A a, b, c \in Int : (a + (b - c)) + c = a + b
    OBVIOUS
  <2> QED BY <1>2, <1>4, <2>1
<1> QED BY <1>3, <1>5, EquityIsHeld

\* What a fill takes from the reserve is what it adds to the position's cost: in
\* a run without early exits the market of an OPEN order is never closed.
LEMMA FillKeepsEquity ==
    ASSUME IInv, IInv', Finished, NEW o \in Nat, NEW depth \in Nat, NEW end_known \in BOOLEAN,
           TryFill(o, depth, end_known)
    PROVE  Equity' = Equity
<1> DEFINE order == open_orders[o]
           lots == Fillable(o, depth)
           paid == lots * order.limit_price
<1>1. /\ order \in PaperOrder /\ order.filled <= order.requested
      /\ order.limit_price \in Nat /\ order.requested \in Nat /\ order.filled \in Nat
      /\ order.market \in Markets
  <2>1. order \in PaperOrder /\ order.filled <= order.requested
    BY DEF IInv, TypeOK, OrdersSound, TryFill, Open
  <2> QED BY <2>1, OrderNat
<1>2. PICK m \in Markets : m = order.market /\ ~Closed(m)
  BY <1>1, FillEffect
<1> DEFINE pos == positions[m]
           after == AfterFill(pos, order, lots, end_known)
<1>3. lots \in Nat
  BY <1>1 DEF TryFill, Fillable, Least, Remaining
<1>4. paid \in Nat
  BY <1>1, <1>3, ProductNat
<1>5. /\ cash_available' = cash_available
      /\ cash_reserved' = cash_reserved - paid
      /\ positions' = [positions EXCEPT ![m] = after]
  BY <1>2 DEF TryFill
<1>6. pos \in PaperPosition \cup {NoPosition}
  BY DEF IInv, TypeOK
<1>7. after \in PaperPosition
  BY <1>1, <1>3, <1>6, AfterFillType
<1>8. positions'[m] = after /\ after # NoPosition
  <2> HIDE DEF after
  <2> QED BY <1>5, <1>7, NoPositionAssumption DEF IInv, TypeOK, NoPositionAssumption
<1>9. CostOfUnresolved(m)' = CostOfUnresolved(m) + paid /\ CostOfUnresolved(m) \in Int
  <2>1. CASE pos = NoPosition
    <3>1. after.status = "OPEN" /\ after.cost = paid
      BY <2>1 DEF AfterFill
    <3> HIDE DEF after, paid
    <3> QED BY <1>4, <1>8, <2>1, <3>1 DEF CostOfUnresolved, Unresolved, HasPosition
  <2>2. CASE pos # NoPosition
    <3>1. pos \in PaperPosition /\ pos.cost \in Int
      BY <1>6, <2>2 DEF PaperPosition
    <3>2. after.status = pos.status /\ after.cost = pos.cost + paid
      BY <2>2, <3>1 DEF AfterFill, PaperPosition
    <3>3. Unresolved(m)
      BY <1>2, <2>2 DEF Closed, HasPosition
    <3> HIDE DEF after, paid
    <3> QED BY <1>4, <1>8, <2>2, <3>1, <3>2, <3>3 DEF CostOfUnresolved, Unresolved, HasPosition
  <2> QED BY <2>1, <2>2
<1>10. Cost' = Cost + CostOfUnresolved(m)' - CostOfUnresolved(m) /\ Cost \in Int
  <2> HIDE DEF after
  <2> QED BY <1>5, CostUpdate, CostType DEF IInv
<1>11. cash_available \in Int /\ cash_reserved \in Int
  BY DEF IInv, TypeOK
<1> HIDE DEF paid
<1> QED BY <1>4, <1>5, <1>9, <1>10, <1>11, EquityIsHeld

LEMMA AwaitKeepsEquity ==
    ASSUME TypeOK, TypeOK', NEW m \in Markets, Unresolved(m), AwaitWinner(m)
    PROVE  Equity' = Equity
<1> DEFINE after == [positions[m] EXCEPT !.status = "PENDING_RESOLUTION"]
<1>1. positions[m] \in PaperPosition
  BY DEF TypeOK, AwaitWinner, HasPosition
<1>2. after \in PaperPosition /\ after.cost = positions[m].cost
      /\ after.status = "PENDING_RESOLUTION"
  BY <1>1 DEF PaperPosition, PositionStatus
<1>3. positions' = [positions EXCEPT ![m] = after]
  BY DEF AwaitWinner
<1> HIDE DEF after
<1>4. positions'[m] = after /\ after # NoPosition
  BY <1>2, <1>3, NoPositionAssumption DEF TypeOK, NoPositionAssumption
<1>5. CostOfUnresolved(m)' = CostOfUnresolved(m) /\ CostOfUnresolved(m) \in Int
  BY <1>1, <1>2, <1>4 DEF CostOfUnresolved, Unresolved, HasPosition, PaperPosition
<1>6. Cost' = Cost
  <2>1. Cost' = Cost + CostOfUnresolved(m)' - CostOfUnresolved(m)
    BY <1>3, CostUpdate
  <2> QED BY <1>5, <2>1, CostType
<1> QED BY <1>6, EquityIsHeld DEF AwaitWinner, ledger

\* A settlement changes the equity by the profit it books.
LEMMA SettlementBooksProfit ==
    ASSUME TypeOK, TypeOK', NEW m \in Markets, NEW w, Unresolved(m), SettleMarket(m, w)
    PROVE  Equity' = Equity + positions'[m].pnl /\ positions'[m].pnl \in Int
<1>1. positions[m] \in PaperPosition /\ positions[m].cost \in Int
  <2>1. positions[m] \in PaperPosition
    BY DEF TypeOK, SettleMarket, HasPosition
  <2> QED BY <2>1 DEF PaperPosition
<1> DEFINE p == PayoutOf(m, w)
<1>2. p \in Int
  BY <1>1, AmountsAssumption, ProductNat DEF PayoutOf, PaperPosition, AmountsAssumption
<1>3. /\ cash_available' = cash_available + p /\ cash_reserved' = cash_reserved
      /\ positions' = [positions EXCEPT ![m] =
             [@ EXCEPT !.pnl = p - positions[m].cost, !.status = IF p > 0 THEN "WON" ELSE "LOST"]]
  BY DEF SettleMarket
<1>4. /\ positions'[m].pnl = p - positions[m].cost
      /\ positions'[m].status \in {"WON", "LOST"}
  BY SettledPosition
<1> HIDE DEF p
<1>5. CostOfUnresolved(m)' = 0 /\ CostOfUnresolved(m) = positions[m].cost
  BY <1>4 DEF CostOfUnresolved, Unresolved
<1>6. Cost' = Cost - positions[m].cost /\ Cost \in Int
  <2>1. Cost' = Cost + CostOfUnresolved(m)' - CostOfUnresolved(m)
    BY <1>3, CostUpdate
  <2> QED BY <1>1, <1>5, <2>1, CostType
<1>7. cash_available \in Int /\ cash_reserved \in Int
  BY DEF TypeOK
<1> QED BY <1>1, <1>2, <1>3, <1>4, <1>6, <1>7, EquityIsHeld

LEMMA ReportMatchesInit == BotInit => ReportMatchesLedger
<1> SUFFICES ASSUME BotInit PROVE ReportMatchesLedger
  OBVIOUS
<1>1. TypeOK /\ CycleTyped
  BY InitInv, CycleTypedInit DEF BotInit, IInv
<1>2. Cost = 0
  <2>1. Costs \in [Nat -> Int] /\ NumMarkets \in Nat
    BY <1>1, CostsType, AmountsAssumption DEF AmountsAssumption
  <2>2. \A m \in 1 .. NumMarkets : Costs[m] = 0
    BY DEF BotInit, Init, Costs, CostOfUnresolved, Unresolved, HasPosition, Markets
  <2> HIDE DEF Costs
  <2> QED BY <2>1, <2>2, TotalEmpty DEF Cost
<1>3. ReportedPnl = 0
  <2>1. \A t \in Tokens : Reported[t] = 0
    BY DEF BotInit, Reported, NoRow
  <2>2. Summable(Reported, Tokens)
    BY <1>1, ReportedSummable
  <2> QED BY <2>1, <2>2, SetSumZero DEF ReportedPnl, Reported
<1>4. InitialCash \in Int
  BY AmountsAssumption DEF AmountsAssumption
<1> QED BY <1>2, <1>3, <1>4, EquityIsHeld DEF ReportMatchesLedger, BotInit, Init

LEMMA RowsUnread == ASSUME UNCHANGED rows PROVE ReportedPnl' = ReportedPnl
BY DEF ReportedPnl

LEMMA VisitKeepsReport ==
    ASSUME ~ExitEnabled, Grounds, Grounds', RowsSound, ReportMatchesLedger, VisitToken
    PROVE  ReportMatchesLedger'
<1> SUFFICES Equity' = Equity /\ ReportedPnl' = ReportedPnl
  BY DEF ReportMatchesLedger
<1> USE DEF Grounds
<1>1. IInv => TypeOK
  BY DEF IInv
<1>2. ASSUME UNCHANGED paper_vars PROVE Equity' = Equity
  BY <1>2, CostUnchanged, EquityIsHeld DEF paper_vars
<1>3. ASSUME NEW t \in to_scan,
             \/ SkipToken(t)
             \/ \E a \in Depths, b \in Bids, d \in Depths : FetchBook(t, a, b, d)
      PROVE  Equity' = Equity /\ ReportedPnl' = ReportedPnl
  BY <1>2, <1>3, RowsUnread DEF SkipToken, FetchBook, disk
<1>4. CASE \/ NothingToWatch \/ KeepPosition \/ NewOrderUnfilled \/ NoSignal \/ KeepNewOrder
  BY <1>2, <1>4, RowsUnread
     DEF NothingToWatch, KeepPosition, NewOrderUnfilled, NoSignal, KeepNewOrder, TokenDone, disk
<1>5. ~ExitAtFlat
  BY DEF ExitAtFlat, ExitReached
<1>6. ASSUME Scanning
      PROVE  book.asks \in Nat /\ cur[1] \in Markets /\ cur[2] \in Sides
  BY <1>6, AmountsAssumption DEF Protocol, AmountsAssumption
<1>7. ASSUME NEW o \in DOMAIN open_orders, WatchFill(o)
      PROVE  Equity' = Equity /\ ReportedPnl' = ReportedPnl
  <2>1. o \in Nat /\ book.asks \in Nat
    BY <1>6, <1>7 DEF IInv, TypeOK, WatchFill, Scanning
  <2> QED BY <1>7, <2>1, FillKeepsEquity, RowsUnread DEF WatchFill
<1>8. CASE OpenOrder
  <2>1. cur[1] \in Markets /\ cur[2] \in Sides /\ EntryPrice \in Prices /\ StakeSize \in Sizes
    BY <1>6, <1>8, BotAssumption DEF OpenOrder, Scanning, BotAssumption
  <2> QED BY <1>8, <2>1, CreateOrderKeepsEquity, RowsUnread DEF OpenOrder
<1>9. CASE FillNewOrder
  <2>1. NewOrder \in Nat /\ book.asks \in Nat
    BY <1>6, <1>9 DEF NewOrder, IInv, TypeOK, FillNewOrder, Scanning
  <2>2. Equity' = Equity
    BY <1>9, <2>1, FillKeepsEquity DEF FillNewOrder
  <2>3. cur \in Tokens /\ rows[cur].pnl = 0
    BY <1>9, ScannedRowsUnsettled DEF FillNewOrder, Scanning
  <2>4. ReportedPnl \in Int /\ ReportedPnl' = ReportedPnl + OpenRow.pnl
    BY <1>9, <2>3, ReportUpdate DEF FillNewOrder
  <2>5. OpenRow.pnl = 0
    BY DEF OpenRow
  <2> QED BY <2>2, <2>4, <2>5
<1>10. CASE ExpireNewOrder
  <2>1. NewOrder \in Nat
    BY DEF NewOrder, IInv, TypeOK
  <2> QED BY <1>10, <2>1, ExpiryKeepsEquity, RowsUnread DEF ExpireNewOrder, TokenDone, disk
<1> QED BY VisitToken, <1>3, <1>4, <1>5, <1>7, <1>8, <1>9, <1>10 DEF VisitToken

LEMMA SettlingKeepsReport ==
    ASSUME Grounds, Grounds', RowsSound, ReportMatchesLedger, SettlePositions
    PROVE  ReportMatchesLedger'
<1>1. TypeOK /\ TypeOK' /\ IInv /\ IInv' /\ CycleTyped /\ CycleTyped'
  BY DEF Grounds, IInv
<1>2. CASE \/ BeginSettlement
           \/ \E m \in to_settle : StillUnresolved(m) \/ PollResolved(m)
  BY <1>2, CostUnchanged, EquityIsHeld, RowsUnread
     DEF BeginSettlement, StillUnresolved, PollResolved, paper_vars, disk, ReportMatchesLedger
<1>3. ASSUME NEW o \in DOMAIN open_orders, CancelOrder(o) PROVE ReportMatchesLedger'
  <2>1. o \in Nat
    BY <1>1 DEF TypeOK
  <2> QED BY <1>1, <1>3, <2>1, ExpiryKeepsEquity, RowsUnread
          DEF CancelOrder, disk, ReportMatchesLedger
<1>4. CASE SettlePolled
  <2>1. PICK m \in Markets : m = polled.market /\ Unresolved(m)
    BY <1>4 DEF Grounds, Protocol, SettlePolled, Unresolved, HasPosition
  <2>2. CASE polled.winner = NoWinner
    <3>1. AwaitWinner(m) /\ UNCHANGED rows
      BY <1>4, <2>1, <2>2 DEF SettlePolled
    <3> QED BY <1>1, <2>1, <3>1, AwaitKeepsEquity, RowsUnread DEF ReportMatchesLedger
  <2>3. CASE polled.winner # NoWinner
    <3>1. PICK t \in Tokens : t = <<m, positions[m].side>> /\ rows[t].pnl = 0
      BY <1>4, <2>1, PolledRowUnsettled DEF SettlePolled
    <3> DEFINE row == ClosedRow(positions'[m].pnl, positions'[m].status = "WON")
    <3>2. SettleMarket(m, polled.winner) /\ rows' = [rows EXCEPT ![t] = row]
      BY <1>4, <2>1, <2>3, <3>1 DEF SettlePolled
    <3>3. row.pnl = positions'[m].pnl
      BY DEF ClosedRow
    <3> HIDE DEF row
    <3>4. ReportedPnl \in Int /\ ReportedPnl' = ReportedPnl + row.pnl
      BY <1>1, <3>1, <3>2, ReportUpdate
    <3>5. Equity' = Equity + row.pnl /\ row.pnl \in Int
      BY <1>1, <2>1, <3>2, <3>3, SettlementBooksProfit
    <3>6. InitialCash \in Int
      BY AmountsAssumption DEF AmountsAssumption
    <3> QED BY <3>4, <3>5, <3>6 DEF ReportMatchesLedger
  <2> QED BY <2>2, <2>3
<1> QED BY SettlePositions, <1>2, <1>3, <1>4 DEF SettlePositions

LEMMA ReportNext ==
    ASSUME ~ExitEnabled, Grounds, Grounds', RowsSound, ReportMatchesLedger,
           [BotNext]_bot_vars, ~Crash
    PROVE  ReportMatchesLedger'
<1>1. CASE VisitToken \/ SettlePositions
  BY <1>1, VisitKeepsReport, SettlingKeepsReport
<1>2. ASSUME UNCHANGED <<paper_vars, rows>> PROVE ReportMatchesLedger'
  BY <1>2, CostUnchanged, EquityIsHeld, RowsUnread DEF paper_vars, ReportMatchesLedger
<1>3. CASE \/ \E listed \in SUBSET Markets : DiscoverMarkets(listed)
           \/ GammaFails \/ SaveState \/ Sleep \/ SlowCall
           \/ \E m \in Markets, w \in Sides \cup {NoWinner} : Resolve(m, w)
           \/ UNCHANGED bot_vars
  BY <1>2, <1>3 DEF DiscoverMarkets, GammaFails, SaveState, Sleep, SlowCall, Resolve, bot_vars,
                    disk
<1> QED BY <1>1, <1>3 DEF BotNext, BotStep

\* The profit the bot reports is the profit in its ledger: rows and positions
\* are written with the same amounts, no settled market can be filled, settled
\* or reported twice, and every token has at most one result.
THEOREM ReportIsLedger == ~ExitEnabled /\ MaxCrashes = 0 /\ BotSpec => []ReportMatchesLedger
<1> SUFFICES ASSUME ~ExitEnabled, MaxCrashes = 0 PROVE BotSpec => []ReportMatchesLedger
  OBVIOUS
<1>1. crashes = 0 => ~Crash
  BY DEF Crash
<1>2. BotInit => crashes = 0
  BY DEF BotInit
<1>3. crashes = 0 /\ [BotNext]_bot_vars => (crashes = 0)'
  BY <1>1, OnlyCrashesCount
<1>4. Grounds /\ Grounds' /\ RowsSound /\ [BotNext]_bot_vars => RowsSound'
  BY RowsSoundNext
<1>5. Grounds /\ Grounds' /\ RowsSound /\ ReportMatchesLedger /\ [BotNext]_bot_vars /\ ~Crash
        => ReportMatchesLedger'
  BY ReportNext
<1> QED BY <1>1, <1>2, <1>3, <1>4, <1>5, RowsSoundInit, ReportMatchesInit, GroundsHold, PTL
        DEF BotSpec
=============================================================================
