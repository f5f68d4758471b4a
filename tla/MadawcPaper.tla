---------------------------- MODULE MadawcPaper ----------------------------
(***************************************************************************)
(* The paper-trading engine of the Madawc bot (Madawc_v2/paper.py) and the *)
(* ledger it moves money in (Ledger in Madawc_v2/models.py).               *)
(*                                                                         *)
(* Money is counted in integer ticks and shares in integer lots, so an     *)
(* order of 20 shares at 0.05 whose shares pay 1.0 is, for example,        *)
(* requested = 2, limit_price = 1 and Payout = 20.  The code's tolerance   *)
(* of 1e-9 on "nothing remains" is exact equality here, and the float      *)
(* avg_price is represented by cost = avg_price * size, which try_fill     *)
(* accumulates exactly.                                                    *)
(*                                                                         *)
(* One action per engine method.  Next calls them the way Madawc_v2/bot.py *)
(* does: only an unresolved position is settled (bot.py:993-997).          *)
(***************************************************************************)
EXTENDS Integers, Sequences, Sums

CONSTANTS
    NumMarkets,         \* markets are numbered 1 .. NumMarkets
    Sides,              \* outcomes of a market; <<m, s>> is a token id
    Prices,             \* prices of an order or of a best bid, in ticks
    Sizes,              \* requested sizes, in lots
    Depths,             \* ask depths a book can show, in lots
    Payout,             \* what one winning lot pays
    InitialCash,        \* Ledger(cash_available=...)
    AllowNegativeCash,  \* PaperExecutionEngine.allow_negative_cash
    MaxOrders,          \* bound: orders created in one behaviour
    NoPosition          \* positions.get(m) is None

\* Prices, sizes and depths are amounts; only a depth may be zero.
ASSUME AmountsAssumption ==
    /\ NumMarkets \in Nat
    /\ Prices \subseteq Nat \ {0}
    /\ Sizes \subseteq Nat \ {0}
    /\ Depths \subseteq Nat
    /\ Payout \in Nat
    /\ InitialCash \in Nat
    /\ AllowNegativeCash \in BOOLEAN
    /\ MaxOrders \in Nat

VARIABLES
    cash_available,     \* Ledger.cash_available
    cash_reserved,      \* Ledger.cash_reserved
    holdings,           \* Ledger.holdings, 0 where the dict has no key
    open_orders,        \* every order ever created, in creation order
    positions           \* the one position of each market

ledger == <<cash_available, cash_reserved, holdings>>
paper_vars == <<cash_available, cash_reserved, holdings, open_orders, positions>>

Markets == 1 .. NumMarkets
Tokens == Markets \X Sides

OrderStatus == {"OPEN", "FILLED", "EXPIRED", "CANCELLED_LOCAL"}
PositionStatus == {"OPEN", "PENDING_RESOLUTION", "WON", "LOST"}

PaperOrder ==
    [market : Markets, side : Sides, limit_price : Prices, requested : Sizes,
     filled : Nat, status : OrderStatus]

\* end_known: expected_end_utc is set.
PaperPosition ==
    [side : Sides, size : Nat, cost : Nat, end_known : BOOLEAN,
     status : PositionStatus, pnl : Int]

ASSUME NoPositionAssumption == NoPosition \notin PaperPosition

TypeOK ==
    /\ cash_available \in Int
    /\ cash_reserved \in Int
    /\ holdings \in [Tokens -> Nat]
    /\ open_orders \in Seq(PaperOrder)
    /\ positions \in [Markets -> PaperPosition \cup {NoPosition}]

Init ==
    /\ cash_available = InitialCash
    /\ cash_reserved = 0
    /\ holdings = [t \in Tokens |-> 0]
    /\ open_orders = <<>>
    /\ positions = [m \in Markets |-> NoPosition]

-----------------------------------------------------------------------------
(* Orders *)

Least(a, b) == IF a <= b THEN a ELSE b
\* Altered: no floor at zero.
Unfloored(a) == a
NonNegative(a) == IF a >= 0 THEN a ELSE 0

Open(o) == o \in DOMAIN open_orders /\ open_orders[o].status = "OPEN"
Remaining(o) == open_orders[o].requested - open_orders[o].filled
Fillable(o, depth) == Least(Remaining(o), depth)

\* The part of an order's reserve that its fills have not used.
Unused(order) == order.limit_price * (order.requested - order.filled)

\* create_order: reserve limit_price * size, then register the order.
CreateOrder(m, s, price, size) ==
    /\ Len(open_orders) < MaxOrders
    /\ AllowNegativeCash \/ price * size <= cash_available
    /\ cash_available' = cash_available - price * size
    /\ cash_reserved' = cash_reserved + price * size
    /\ open_orders' = Append(open_orders,
            [market |-> m, side |-> s, limit_price |-> price,
             requested |-> size, filled |-> 0, status |-> "OPEN"])
    /\ UNCHANGED <<holdings, positions>>

\* Altered: a merge keeps only the last fill's lots.
AfterFillReplacing(pos, order, lots, end_known) ==
    [side |-> order.side, size |-> lots,
     cost |-> lots * order.limit_price + (IF pos = NoPosition THEN 0 ELSE pos.cost),
     end_known |-> end_known,
     status |-> IF pos = NoPosition THEN "OPEN" ELSE pos.status,
     pnl |-> IF pos = NoPosition THEN 0 ELSE pos.pnl]

\* A fill opens the market's position or is merged into it, whatever the
\* position's side and status.  end_known is the caller's expected_end_utc.
AfterFill(pos, order, lots, end_known) ==
    IF pos = NoPosition
    THEN [side |-> order.side, size |-> lots, cost |-> lots * order.limit_price,
          end_known |-> end_known, status |-> "OPEN", pnl |-> 0]
    ELSE [pos EXCEPT !.size = @ + lots,
                     !.cost = @ + lots * order.limit_price,
                     !.end_known = @ \/ end_known]

\* try_fill against a book that shows `depth' lots at the limit or better.
\* A complete fill leaves no unused reserve to release: the whole size was
\* bought at the limit price.
TryFill(o, depth, end_known) ==
    /\ Open(o)
    /\ LET order == open_orders[o]
           lots == Fillable(o, depth)
       IN /\ lots > 0
          /\ cash_reserved' = cash_reserved - lots * order.limit_price
          /\ holdings' = [holdings EXCEPT ![<<order.market, order.side>>] = @ + lots]
          /\ positions' = [positions EXCEPT
                ![order.market] = AfterFill(@, order, lots, end_known)]
          /\ open_orders' = [open_orders EXCEPT
                ![o].filled = @ + lots,
                ![o].status = IF lots = Remaining(o) THEN "FILLED" ELSE @]
    /\ UNCHANGED cash_available

\* Altered: the reserve of a closed order is credited but not released.
ExpireOrderKeepingReserve(o, status) ==
    /\ Open(o)
    /\ open_orders' = [open_orders EXCEPT ![o].status = status]
    /\ cash_available' = cash_available + Unused(open_orders[o])
    /\ UNCHANGED <<cash_reserved, holdings, positions>>

\* Altered: the early return for an order that is not OPEN is missing.
ExpireOrderTwice(o, status) ==
    /\ o \in DOMAIN open_orders
    /\ open_orders' = [open_orders EXCEPT ![o].status = status]
    /\ cash_reserved' = NonNegative(cash_reserved - Unused(open_orders[o]))
    /\ cash_available' = cash_available + Unused(open_orders[o])
    /\ UNCHANGED <<holdings, positions>>

\* expire_order: "EXPIRED", or "CANCELLED_LOCAL" when cancelled=True.  The
\* ledger's release never takes cash_reserved below zero.
ExpireOrder(o, status) ==
    /\ Open(o)
    /\ open_orders' = [open_orders EXCEPT ![o].status = status]
    /\ cash_reserved' = NonNegative(cash_reserved - Unused(open_orders[o]))
    /\ cash_available' = cash_available + Unused(open_orders[o])
    /\ UNCHANGED <<holdings, positions>>

-----------------------------------------------------------------------------
(* Positions *)

HasPosition(m) == m \in Markets /\ positions[m] # NoPosition
Unresolved(m) ==
    HasPosition(m) /\ positions[m].status \in {"OPEN", "PENDING_RESOLUTION"}
Closed(m) == HasPosition(m) /\ ~Unresolved(m)

\* settle_market with no winner yet.
AwaitWinner(m) ==
    /\ HasPosition(m)
    /\ positions' = [positions EXCEPT ![m].status = "PENDING_RESOLUTION"]
    /\ UNCHANGED <<ledger, open_orders>>

\* settle_market: the whole position pays if its side won.  The holdings are
\* left as they are.
PayoutOf(m, winner) ==
    IF positions[m].side = winner THEN positions[m].size * Payout ELSE 0

SettleMarket(m, winner) ==
    /\ HasPosition(m)
    /\ cash_available' = cash_available + PayoutOf(m, winner)
    /\ positions' = [positions EXCEPT
            ![m].pnl = PayoutOf(m, winner) - positions[m].cost,
            ![m].status = IF PayoutOf(m, winner) > 0 THEN "WON" ELSE "LOST"]
    /\ UNCHANGED <<cash_reserved, holdings, open_orders>>

\* Altered: a position that is already closed can be sold.
CloseAnyPositionAtPrice(m, price) ==
    /\ HasPosition(m)
    /\ cash_available' = cash_available + positions[m].size * price
    /\ positions' = [positions EXCEPT
            ![m].pnl = positions[m].size * price - positions[m].cost,
            ![m].status = "WON"]
    /\ UNCHANGED <<cash_reserved, holdings, open_orders>>

\* close_position_at_price: sell the whole position at a bid.
ClosePositionAtPrice(m, price) ==
    /\ HasPosition(m)
    /\ positions[m].status = "OPEN"
    /\ LET pos == positions[m]
           proceeds == pos.size * price
       IN /\ cash_available' = cash_available + proceeds
          /\ holdings' = [holdings EXCEPT ![<<m, pos.side>>] = NonNegative(@ - pos.size)]
          /\ positions' = [positions EXCEPT
                ![m].pnl = proceeds - pos.cost,
                ![m].status = IF proceeds >= pos.cost THEN "WON" ELSE "LOST"]
    /\ UNCHANGED <<cash_reserved, open_orders>>

-----------------------------------------------------------------------------
Next ==
    \/ \E m \in Markets, s \in Sides, p \in Prices, q \in Sizes : CreateOrder(m, s, p, q)
    \/ \E o \in DOMAIN open_orders :
          \/ \E d \in Depths, e \in BOOLEAN : TryFill(o, d, e)
          \/ \E st \in {"EXPIRED", "CANCELLED_LOCAL"} : ExpireOrder(o, st)
    \/ \E m \in Markets :
          \/ Unresolved(m) /\ AwaitWinner(m)
          \/ \E w \in Sides : Unresolved(m) /\ SettleMarket(m, w)
          \/ \E p \in Prices : ClosePositionAtPrice(m, p)

Spec == Init /\ [][Next]_paper_vars

-----------------------------------------------------------------------------
(* What the engine promises *)

OutstandingOf(o) == IF Open(o) THEN Unused(open_orders[o]) ELSE 0

\* The ledger's reserved cash is exactly what the OPEN orders have not used:
\* nothing stays locked behind a closed order and release's floor at zero
\* (models.py:145) never hides a missing reserve.
ReserveMatchesOpenOrders ==
    cash_reserved = Total([o \in Nat |-> OutstandingOf(o)], Len(open_orders))

InMarket(o, m) == o \in DOMAIN open_orders /\ open_orders[o].market = m
LotsIn(o, m) == IF InMarket(o, m) THEN open_orders[o].filled ELSE 0
PaidIn(o, m) ==
    IF InMarket(o, m) THEN open_orders[o].filled * open_orders[o].limit_price ELSE 0

SizeOf(m) == IF HasPosition(m) THEN positions[m].size ELSE 0
CostOf(m) == IF HasPosition(m) THEN positions[m].cost ELSE 0

\* A position accounts for every fill of its market's orders, on both sides:
\* merging (paper.py:66-72) loses no lot and no tick of cost.
PositionsAccountForFills ==
    \A m \in Markets :
        /\ SizeOf(m) = Total([o \in Nat |-> LotsIn(o, m)], Len(open_orders))
        /\ CostOf(m) = Total([o \in Nat |-> PaidIn(o, m)], Len(open_orders))

\* What a market ties up while its position is unresolved, less what its
\* closed position reports as earned.
StakeOf(m) ==
    IF Unresolved(m) THEN positions[m].cost
    ELSE IF Closed(m) THEN -positions[m].pnl
    ELSE 0

\* The paper account never shows money that no closed position earned: its cash
\* plus the cost of what is still held is at most the initial cash plus the
\* profit reported for the closed positions.
NoMoneyCreated ==
    cash_available + cash_reserved + Total([m \in Nat |-> StakeOf(m)], NumMarkets)
        <= InitialCash

\* The engine implements the account of PaperAccount: whatever the orders, books
\* and markets, every call moves an amount between cash, reserve and stake, never
\* below zero where the account forbids it, or leaves all three alone.
Account == INSTANCE PaperAccount WITH
    cash <- cash_available, reserved <- cash_reserved,
    stake <- Total([m \in Nat |-> StakeOf(m)], NumMarkets),
    Deposit <- InitialCash, Overdraft <- AllowNegativeCash

ImplementsAccount == Account!Spec

\* An order that left OPEN (filled, expired or cancelled) never changes again,
\* and an order is never filled beyond its size.
ClosedOrdersAreFinal ==
    [][\A o \in DOMAIN open_orders :
          /\ o \in DOMAIN open_orders'
          /\ ~Open(o) => open_orders'[o] = open_orders[o]
          /\ open_orders'[o].filled \in open_orders[o].filled .. open_orders[o].requested]_paper_vars
=============================================================================
