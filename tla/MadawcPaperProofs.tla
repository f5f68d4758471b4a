-------------------------- MODULE MadawcPaperProofs --------------------------
(***************************************************************************)
(* Theorems about the paper engine, for every number of markets, every set *)
(* of sides, prices, sizes and depths and every bound on the orders.       *)
(*                                                                         *)
(* The inductive invariant IInv adds to the reserve identity that no order *)
(* is filled beyond its size: without it an order's unused reserve could   *)
(* be negative and release's floor at zero could bite.                     *)
(***************************************************************************)
EXTENDS MadawcPaper, SumsProofs

OrdersSound ==
    \A o \in DOMAIN open_orders : open_orders[o].filled <= open_orders[o].requested

IInv == TypeOK /\ OrdersSound /\ ReserveMatchesOpenOrders

Outstanding == [o \in Nat |-> OutstandingOf(o)]

-----------------------------------------------------------------------------
LEMMA ProductNat == \A a, b \in Nat : a * b \in Nat
OBVIOUS

LEMMA Distribute == \A a, b, c \in Int : a * (b - c) = a * b - c * a
OBVIOUS

\* An order's fields are natural numbers.
LEMMA OrderNat ==
    ASSUME NEW order \in PaperOrder
    PROVE  /\ order.limit_price \in Nat
           /\ order.requested \in Nat
           /\ order.filled \in Nat
           /\ order.market \in Markets
           /\ order.side \in Sides
<1>1. Prices \subseteq Nat /\ Sizes \subseteq Nat
  BY AmountsAssumption DEF AmountsAssumption
<1> QED BY <1>1 DEF PaperOrder

\* An order filled at most up to its size has a nonnegative unused reserve.
LEMMA UnusedNat ==
    ASSUME NEW order \in PaperOrder, order.filled <= order.requested
    PROVE  Unused(order) \in Nat
<1>1. order.limit_price \in Nat /\ order.requested \in Nat /\ order.filled \in Nat
  BY OrderNat
<1>2. order.requested - order.filled \in Nat
  BY <1>1
<1> QED BY <1>1, <1>2, ProductNat DEF Unused

\* What the orders still hold is a nonnegative amount for each of them.
LEMMA OutstandingType ==
    ASSUME TypeOK, OrdersSound
    PROVE  /\ Outstanding \in [Nat -> Int]
           /\ \A o \in Nat : Outstanding[o] >= 0
<1>1. ASSUME NEW o \in Nat PROVE OutstandingOf(o) \in Nat
  <2>1. CASE Open(o)
    <3>1. o \in DOMAIN open_orders /\ open_orders[o] \in PaperOrder
      BY <2>1 DEF Open, TypeOK
    <3>2. open_orders[o].filled <= open_orders[o].requested
      BY <3>1 DEF OrdersSound
    <3>3. Unused(open_orders[o]) \in Nat
      BY <3>1, <3>2, UnusedNat
    <3> QED BY <2>1, <3>3 DEF OutstandingOf
  <2>2. CASE ~ Open(o)
    BY <2>2 DEF OutstandingOf
  <2> QED BY <2>1, <2>2
<1> QED BY <1>1 DEF Outstanding

LEMMA InitInv == Init => IInv
<1> SUFFICES ASSUME Init PROVE IInv
  OBVIOUS
<1>1. TypeOK
  BY AmountsAssumption DEF Init, TypeOK
<1>2. OrdersSound
  BY DEF Init, OrdersSound
<1>3. ReserveMatchesOpenOrders
  <2>1. Len(open_orders) = 0
    BY DEF Init
  <2>2. \A i \in 1 .. 0 : Outstanding[i] = 0
    OBVIOUS
  <2>3. Total(Outstanding, 0) = 0
    BY <1>1, <1>2, <2>2, OutstandingType, TotalEmpty
  <2> QED BY <2>1, <2>3 DEF Init, ReserveMatchesOpenOrders, Outstanding
<1> QED BY <1>1, <1>2, <1>3 DEF IInv

-----------------------------------------------------------------------------
(* One lemma per engine method: it preserves IInv. *)

LEMMA CreateOrderInv ==
    ASSUME IInv, NEW m \in Markets, NEW s \in Sides, NEW p \in Prices, NEW q \in Sizes,
           CreateOrder(m, s, p, q)
    PROVE  IInv'
<1> DEFINE new == [market |-> m, side |-> s, limit_price |-> p, requested |-> q,
                   filled |-> 0, status |-> "OPEN"]
           n == Len(open_orders)
<1> USE DEF IInv
<1>1. p \in Nat /\ q \in Nat /\ p * q \in Nat
  BY AmountsAssumption, ProductNat
<1>2. new \in PaperOrder
  BY DEF PaperOrder, OrderStatus
<1>3. open_orders \in Seq(PaperOrder) /\ n \in Nat /\ open_orders' = Append(open_orders, new)
  BY DEF TypeOK, CreateOrder
<1>4. TypeOK'
  BY <1>1, <1>2, <1>3 DEF TypeOK, CreateOrder
<1>5. /\ DOMAIN open_orders' = 1 .. n + 1
      /\ DOMAIN open_orders = 1 .. n
      /\ Len(open_orders') = n + 1
      /\ open_orders'[n + 1] = new
      /\ \A o \in 1 .. n : open_orders'[o] = open_orders[o]
  BY <1>2, <1>3
<1>6. OrdersSound'
  BY <1>1, <1>5 DEF OrdersSound
<1>7. /\ Outstanding \in [Nat -> Int]
      /\ Outstanding' \in [Nat -> Int]
  <2>1. Outstanding \in [Nat -> Int]
    BY OutstandingType
  <2>2. (TypeOK /\ OrdersSound => Outstanding \in [Nat -> Int])'
    BY OutstandingType, PTL
  <2> QED BY <1>4, <1>6, <2>1, <2>2
<1>8. ASSUME NEW i \in Nat, i > 0, i # n + 1 PROVE Outstanding'[i] = Outstanding[i]
  <2>1. CASE i \in 1 .. n
    BY <1>5, <2>1 DEF Outstanding, OutstandingOf, Open
  <2>2. CASE i \notin 1 .. n + 1
    BY <1>3, <1>5, <2>2 DEF Outstanding, OutstandingOf, Open
  <2> QED BY <1>3, <1>8, <2>1, <2>2
<1>9. Outstanding'[n + 1] = p * q
  <2>1. SUFFICES ASSUME NEW k \in Nat, k = n + 1 PROVE Outstanding'[k] = p * q
    BY <1>3
  <2>2. Open(k)'
    BY <1>3, <1>5, <2>1 DEF Open
  <2>3. Unused(new) = p * q
    BY <1>1, q - 0 = q DEF Unused
  <2>4. OutstandingOf(k)' = Unused(new)
    BY <1>5, <2>1, <2>2 DEF OutstandingOf
  <2> QED BY <2>1, <2>3, <2>4 DEF Outstanding
<1>10. Total(Outstanding', n + 1) = Total(Outstanding, n) + p * q
  BY <1>3, <1>7, <1>8, <1>9, TotalExtend
<1>11. ReserveMatchesOpenOrders'
  <2>1. cash_reserved' = cash_reserved + p * q
    BY DEF CreateOrder
  <2> QED BY <1>5, <1>10, <2>1 DEF ReserveMatchesOpenOrders, Outstanding
<1> QED BY <1>4, <1>6, <1>11

\* Replacing one order by a sound one keeps the orders sound, and changes the
\* reserve they need by what that order's own reserve changes.
LEMMA OneOrderChanged ==
    ASSUME IInv, NEW o \in DOMAIN open_orders, NEW order \in PaperOrder,
           order.filled <= order.requested,
           open_orders' = [open_orders EXCEPT ![o] = order], TypeOK',
           cash_reserved' = cash_reserved
               + (IF order.status = "OPEN" THEN Unused(order) ELSE 0) - OutstandingOf(o)
    PROVE  IInv'
<1> DEFINE n == Len(open_orders)
<1> USE DEF IInv
<1>1. open_orders \in Seq(PaperOrder) /\ n \in Nat /\ o \in 1 .. n /\ o \in Nat
  BY DEF TypeOK
<1>2. /\ Len(open_orders') = n
      /\ DOMAIN open_orders' = DOMAIN open_orders
      /\ open_orders'[o] = order
      /\ \A i \in DOMAIN open_orders : i # o => open_orders'[i] = open_orders[i]
  BY <1>1
<1>3. OrdersSound'
  BY <1>2 DEF OrdersSound
<1>4. /\ Outstanding \in [Nat -> Int]
      /\ Outstanding' \in [Nat -> Int]
  <2>1. Outstanding \in [Nat -> Int]
    BY OutstandingType
  <2>2. (TypeOK /\ OrdersSound => Outstanding \in [Nat -> Int])'
    BY OutstandingType, PTL
  <2> QED BY <1>3, <2>1, <2>2
<1>5. ASSUME NEW i \in Nat, i > 0, i # o PROVE Outstanding'[i] = Outstanding[i]
  BY <1>2, <1>5 DEF Outstanding, OutstandingOf, Open
<1>6. Outstanding'[o] = IF order.status = "OPEN" THEN Unused(order) ELSE 0
  BY <1>1, <1>2 DEF Outstanding, OutstandingOf, Open
<1>7. Outstanding[o] = OutstandingOf(o)
  BY <1>1 DEF Outstanding
<1>8. Total(Outstanding', n) = Total(Outstanding, n) + Outstanding'[o] - Outstanding[o]
  BY <1>1, <1>4, <1>5, TotalUpdate
<1>9. cash_reserved = Total(Outstanding, n)
  BY DEF ReserveMatchesOpenOrders, Outstanding
<1>10. cash_reserved' = Total(Outstanding', n)
  <2> DEFINE T == Total(Outstanding, n)
             A == Outstanding'[o]
             B == Outstanding[o]
  <2>1. A \in Int /\ B \in Int /\ cash_reserved \in Int /\ T \in Int
    BY <1>1, <1>4, <1>9 DEF TypeOK
  <2>2. cash_reserved' = T + A - B
    BY <1>6, <1>7, <1>9
  <2> QED BY <1>8, <2>2
<1>11. ReserveMatchesOpenOrders'
  BY <1>2, <1>10 DEF ReserveMatchesOpenOrders, Outstanding
<1> QED BY <1>3, <1>11

\* A step that leaves the orders and the reserved cash alone.
LEMMA OrdersUntouched ==
    ASSUME IInv, TypeOK', UNCHANGED <<open_orders, cash_reserved>>
    PROVE  IInv'
BY DEF IInv, OrdersSound, ReserveMatchesOpenOrders, OutstandingOf, Open

\* A fill makes or extends a position.
LEMMA AfterFillType ==
    ASSUME NEW pos \in PaperPosition \cup {NoPosition}, NEW order \in PaperOrder,
           NEW lots \in Nat, NEW end_known \in BOOLEAN
    PROVE  AfterFill(pos, order, lots, end_known) \in PaperPosition
<1>1. order.limit_price \in Nat /\ order.side \in Sides
  BY OrderNat
<1>2. lots * order.limit_price \in Nat
  BY <1>1, ProductNat
<1>3. CASE pos = NoPosition
  <2>1. 0 \in Int /\ "OPEN" \in PositionStatus
    BY DEF PositionStatus
  <2> QED BY <1>1, <1>2, <1>3, <2>1 DEF AfterFill, PaperPosition
<1>4. CASE pos # NoPosition
  <2>1. pos \in PaperPosition
    BY <1>4
  <2> DEFINE size == pos.size + lots
             cost == pos.cost + lots * order.limit_price
             known == pos.end_known \/ end_known
  <2>2. size \in Nat /\ cost \in Nat
    BY <1>2, <2>1 DEF PaperPosition
  <2>3. known \in BOOLEAN
    OBVIOUS
  <2>4. AfterFill(pos, order, lots, end_known)
            = [pos EXCEPT !.size = size, !.cost = cost, !.end_known = known]
    BY <1>4 DEF AfterFill
  <2> HIDE DEF size, cost, known
  <2> QED BY <2>1, <2>2, <2>3, <2>4 DEF PaperPosition
<1> QED BY <1>3, <1>4

LEMMA TryFillInv ==
    ASSUME IInv, NEW o \in Nat, NEW depth \in Nat, NEW end_known \in BOOLEAN,
           TryFill(o, depth, end_known)
    PROVE  IInv'
<1> DEFINE order == open_orders[o]
           lots == Fillable(o, depth)
           price == order.limit_price
           filled == [order EXCEPT !.filled = @ + lots,
                                   !.status = IF lots = Remaining(o) THEN "FILLED" ELSE @]
<1>1. /\ o \in DOMAIN open_orders
      /\ order \in PaperOrder
      /\ order.status = "OPEN"
      /\ order.filled <= order.requested
  BY DEF IInv, TypeOK, OrdersSound, TryFill, Open
<1>2. /\ price \in Nat
      /\ order.requested \in Nat
      /\ order.filled \in Nat
      /\ order.market \in Markets
      /\ order.side \in Sides
  BY <1>1, OrderNat
<1>3. Remaining(o) \in Nat /\ Remaining(o) = order.requested - order.filled
  BY <1>1, <1>2 DEF Remaining
<1>4. lots \in Nat /\ lots > 0 /\ lots <= Remaining(o)
  <2>1. lots \in Int /\ lots <= Remaining(o)
    BY <1>3 DEF Fillable, Least
  <2>2. lots > 0
    BY DEF TryFill
  <2> QED BY <2>1, <2>2
<1>5. filled \in PaperOrder /\ filled.filled = order.filled + lots /\ filled.filled <= order.requested
  <2> DEFINE count == order.filled + lots
             status == IF lots = Remaining(o) THEN "FILLED" ELSE order.status
  <2>1. count \in Nat /\ count <= order.requested
    BY <1>2, <1>3, <1>4
  <2>2. status \in OrderStatus
    BY <1>1 DEF OrderStatus
  <2>3. filled = [order EXCEPT !.filled = count, !.status = status]
    OBVIOUS
  <2> HIDE DEF count, status, filled, lots
  <2>4. filled \in PaperOrder /\ filled.filled = count
    BY <1>1, <2>1, <2>2, <2>3 DEF PaperOrder
  <2> QED BY <2>1, <2>4 DEF count
<1>6. lots * price \in Nat
  BY <1>2, <1>4, ProductNat
<1>7. TypeOK'
  <2>1. cash_available' \in Int /\ cash_reserved' \in Int
    BY <1>6 DEF TryFill, IInv, TypeOK
  <2>2. holdings' \in [Tokens -> Nat]
    <3>1. <<order.market, order.side>> \in Tokens
      BY <1>2 DEF Tokens
    <3> QED BY <1>4, <3>1 DEF TryFill, IInv, TypeOK
  <2>3. open_orders' \in Seq(PaperOrder)
    <3>1. open_orders' = [open_orders EXCEPT ![o] = filled]
      BY DEF TryFill
    <3> HIDE DEF filled
    <3> QED BY <1>1, <1>5, <3>1 DEF IInv, TypeOK
  <2>4. ASSUME NEW pos \in PaperPosition \cup {NoPosition}
        PROVE  AfterFill(pos, order, lots, end_known) \in PaperPosition
    BY <1>1, <1>4, AfterFillType
  <2>5. positions' \in [Markets -> PaperPosition \cup {NoPosition}]
    <3> DEFINE after == AfterFill(positions[order.market], order, lots, end_known)
    <3>1. positions \in [Markets -> PaperPosition \cup {NoPosition}]
      BY DEF IInv, TypeOK
    <3>2. after \in PaperPosition
      BY <1>2, <2>4, <3>1
    <3>3. positions' = [positions EXCEPT ![order.market] = after]
      BY DEF TryFill
    <3> HIDE DEF after
    <3> QED BY <3>1, <3>2, <3>3
  <2> QED BY <2>1, <2>2, <2>3, <2>5 DEF TypeOK
<1>8. open_orders' = [open_orders EXCEPT ![o] = filled]
  BY DEF TryFill
<1>9. OutstandingOf(o) = price * Remaining(o)
  BY <1>1, <1>3 DEF OutstandingOf, Open, Unused
<1>10. (IF filled.status = "OPEN" THEN Unused(filled) ELSE 0)
          = price * Remaining(o) - lots * price
  <2>1. CASE lots = Remaining(o)
    BY <1>1, <1>2, <1>3, <1>4, <2>1 DEF PaperOrder
  <2>2. CASE lots # Remaining(o)
    <3>1. filled.status = "OPEN" /\ filled.limit_price = price
          /\ filled.requested = order.requested
      BY <1>1, <2>2 DEF PaperOrder
    <3>2. filled.requested - filled.filled = Remaining(o) - lots
      BY <1>2, <1>3, <1>4, <1>5, <3>1
    <3>3. Unused(filled) = price * (Remaining(o) - lots)
      BY <3>1, <3>2 DEF Unused
    <3>4. price * (Remaining(o) - lots) = price * Remaining(o) - lots * price
      BY <1>2, <1>3, <1>4, Distribute
    <3> QED BY <3>1, <3>3, <3>4
  <2> QED BY <2>1, <2>2
<1>11. cash_reserved' = cash_reserved
           + (IF filled.status = "OPEN" THEN Unused(filled) ELSE 0) - OutstandingOf(o)
  <2>1. price * Remaining(o) \in Nat /\ cash_reserved \in Int
    BY <1>2, <1>3, ProductNat DEF IInv, TypeOK
  <2>2. cash_reserved' = cash_reserved - lots * price
    BY DEF TryFill
  <2> HIDE DEF order, lots, price, filled
  <2> QED BY <1>6, <1>9, <1>10, <2>1, <2>2
<1>12. filled.requested = order.requested
  BY <1>1 DEF PaperOrder
<1> HIDE DEF filled
<1> QED BY <1>1, <1>5, <1>7, <1>8, <1>11, <1>12, OneOrderChanged

LEMMA ExpireOrderInv ==
    ASSUME IInv, NEW o \in Nat, NEW status \in {"EXPIRED", "CANCELLED_LOCAL"},
           ExpireOrder(o, status)
    PROVE  IInv'
<1> DEFINE n == Len(open_orders)
           order == open_orders[o]
           closed == [order EXCEPT !.status = status]
<1>1. /\ o \in DOMAIN open_orders
      /\ order \in PaperOrder
      /\ order.status = "OPEN"
      /\ order.filled <= order.requested
  BY DEF IInv, TypeOK, OrdersSound, ExpireOrder, Open
<1>2. Unused(order) \in Nat /\ OutstandingOf(o) = Unused(order)
  BY <1>1, UnusedNat DEF OutstandingOf, Open
<1>3. cash_reserved >= Unused(order)
  <2>1. /\ Outstanding \in [Nat -> Int]
        /\ \A i \in Nat : Outstanding[i] >= 0
    BY OutstandingType DEF IInv
  <2>2. n \in Nat /\ o \in 1 .. n
    BY <1>1 DEF IInv, TypeOK
  <2>3. Outstanding[o] <= Total(Outstanding, n)
    <3>1. \A i \in 1 .. n : Outstanding[i] >= 0
      BY <2>1, <2>2
    <3> HIDE DEF n
    <3> QED BY <2>1, <2>2, <3>1, TotalBounds
  <2>4. Outstanding[o] = Unused(order)
    BY <1>2 DEF Outstanding
  <2> QED BY <2>3, <2>4 DEF IInv, ReserveMatchesOpenOrders, Outstanding
<1>4. /\ cash_reserved' = cash_reserved - Unused(order)
      /\ cash_available' = cash_available + Unused(order)
      /\ open_orders' = [open_orders EXCEPT ![o] = closed]
  <2>1. cash_reserved - Unused(order) >= 0
    BY <1>2, <1>3 DEF IInv, TypeOK
  <2>2. NonNegative(cash_reserved - Unused(order)) = cash_reserved - Unused(order)
    BY <2>1 DEF NonNegative
  <2> QED BY <2>2 DEF ExpireOrder
<1>5. /\ closed \in PaperOrder
      /\ closed.status # "OPEN"
      /\ closed.filled <= closed.requested
  BY <1>1 DEF PaperOrder, OrderStatus
<1>6. TypeOK'
  <2>1. cash_available' \in Int /\ cash_reserved' \in Int
    BY <1>2, <1>4 DEF IInv, TypeOK
  <2>2. open_orders' \in Seq(PaperOrder)
    <3> HIDE DEF closed
    <3> QED BY <1>1, <1>4, <1>5 DEF IInv, TypeOK
  <2> QED BY <2>1, <2>2 DEF IInv, TypeOK, ExpireOrder
<1>7. cash_reserved' = cash_reserved
         + (IF closed.status = "OPEN" THEN Unused(closed) ELSE 0) - OutstandingOf(o)
  <2>1. (IF closed.status = "OPEN" THEN Unused(closed) ELSE 0) = 0
    BY <1>5
  <2> HIDE DEF closed
  <2> QED BY <1>2, <1>4, <2>1 DEF IInv, TypeOK
<1> HIDE DEF closed
<1> QED BY <1>1, <1>4, <1>5, <1>6, <1>7, OneOrderChanged

LEMMA AwaitWinnerInv ==
    ASSUME IInv, NEW m \in Markets, AwaitWinner(m)
    PROVE  IInv'
<1>1. positions[m] \in PaperPosition
  BY DEF IInv, TypeOK, AwaitWinner, HasPosition
<1>2. [positions[m] EXCEPT !.status = "PENDING_RESOLUTION"] \in PaperPosition
  BY <1>1 DEF PaperPosition, PositionStatus
<1>3. positions' \in [Markets -> PaperPosition \cup {NoPosition}]
  BY <1>2 DEF IInv, TypeOK, AwaitWinner
<1>4. TypeOK'
  BY <1>3 DEF IInv, TypeOK, AwaitWinner, ledger
<1> QED BY <1>4, OrdersUntouched DEF AwaitWinner, ledger

\* Closing a position, whatever it pays and earns.
LEMMA PositionClosedType ==
    ASSUME NEW pos \in PaperPosition, NEW pnl \in Int, NEW status \in {"WON", "LOST"}
    PROVE  [pos EXCEPT !.pnl = pnl, !.status = status] \in PaperPosition
BY DEF PaperPosition, PositionStatus

LEMMA SettleMarketInv ==
    ASSUME IInv, NEW m \in Markets, NEW winner, SettleMarket(m, winner)
    PROVE  IInv'
<1> DEFINE pnl == PayoutOf(m, winner) - positions[m].cost
           status == IF PayoutOf(m, winner) > 0 THEN "WON" ELSE "LOST"
<1>1. positions[m] \in PaperPosition
  BY DEF IInv, TypeOK, SettleMarket, HasPosition
<1>2. positions[m].size \in Nat /\ positions[m].cost \in Nat
  BY <1>1 DEF PaperPosition
<1>3. PayoutOf(m, winner) \in Nat
  <2>1. positions[m].size * Payout \in Nat
    BY <1>2, ProductNat, AmountsAssumption DEF AmountsAssumption
  <2> QED BY <2>1 DEF PayoutOf
<1>4. pnl \in Int /\ status \in {"WON", "LOST"}
  BY <1>2, <1>3
<1>5. positions' \in [Markets -> PaperPosition \cup {NoPosition}]
  <2> DEFINE after == [positions[m] EXCEPT !.pnl = pnl, !.status = status]
  <2>1. positions' = [positions EXCEPT ![m] = after]
    BY DEF SettleMarket
  <2>2. after \in PaperPosition
    BY <1>1, <1>4, PositionClosedType
  <2> HIDE DEF after
  <2> QED BY <2>1, <2>2 DEF IInv, TypeOK
<1>6. TypeOK'
  BY <1>3, <1>5 DEF IInv, TypeOK, SettleMarket
<1> QED BY <1>6, OrdersUntouched DEF SettleMarket

LEMMA ClosePositionInv ==
    ASSUME IInv, NEW m \in Markets, NEW price \in Nat, ClosePositionAtPrice(m, price)
    PROVE  IInv'
<1> DEFINE pos == positions[m]
           proceeds == pos.size * price
           pnl == proceeds - pos.cost
           status == IF proceeds >= pos.cost THEN "WON" ELSE "LOST"
           held == holdings[<<m, pos.side>>]
<1>1. pos \in PaperPosition
  BY DEF IInv, TypeOK, ClosePositionAtPrice, HasPosition
<1>2. pos.size \in Nat /\ pos.cost \in Nat /\ <<m, pos.side>> \in Tokens
  BY <1>1 DEF PaperPosition, Tokens
<1>3. proceeds \in Nat
  BY <1>2, ProductNat
<1>4. pnl \in Int /\ status \in {"WON", "LOST"}
  BY <1>2, <1>3
<1>5. positions' \in [Markets -> PaperPosition \cup {NoPosition}]
  <2> DEFINE after == [pos EXCEPT !.pnl = pnl, !.status = status]
  <2>1. positions' = [positions EXCEPT ![m] = after]
    BY DEF ClosePositionAtPrice
  <2>2. after \in PaperPosition
    BY <1>1, <1>4, PositionClosedType
  <2> HIDE DEF after
  <2> QED BY <2>1, <2>2 DEF IInv, TypeOK
<1>6. holdings' \in [Tokens -> Nat]
  <2>1. held \in Nat /\ holdings \in [Tokens -> Nat]
    BY <1>2 DEF IInv, TypeOK
  <2>2. NonNegative(held - pos.size) \in Nat
    BY <1>2, <2>1 DEF NonNegative
  <2>3. holdings' = [holdings EXCEPT ![<<m, pos.side>>] = NonNegative(held - pos.size)]
    BY DEF ClosePositionAtPrice
  <2> HIDE DEF held, pos
  <2> QED BY <2>1, <2>2, <2>3
<1>7. cash_available' \in Int
  BY <1>3 DEF IInv, TypeOK, ClosePositionAtPrice
<1>8. TypeOK'
  BY <1>5, <1>6, <1>7 DEF IInv, TypeOK, ClosePositionAtPrice
<1> QED BY <1>8, OrdersUntouched DEF ClosePositionAtPrice

-----------------------------------------------------------------------------
LEMMA NextInv == IInv /\ [Next]_paper_vars => IInv'
<1> SUFFICES ASSUME IInv, [Next]_paper_vars PROVE IInv'
  OBVIOUS
<1> USE DEF IInv
<1>1. ASSUME NEW m \in Markets, NEW s \in Sides, NEW p \in Prices, NEW q \in Sizes,
             CreateOrder(m, s, p, q)
      PROVE  IInv'
  BY <1>1, CreateOrderInv
<1>2. ASSUME NEW o \in DOMAIN open_orders, NEW d \in Depths, NEW e \in BOOLEAN,
             TryFill(o, d, e)
      PROVE  IInv'
  <2>1. o \in Nat /\ d \in Nat
    BY AmountsAssumption DEF AmountsAssumption, TypeOK
  <2> QED BY <1>2, <2>1, TryFillInv
<1>3. ASSUME NEW o \in DOMAIN open_orders, NEW st \in {"EXPIRED", "CANCELLED_LOCAL"},
             ExpireOrder(o, st)
      PROVE  IInv'
  <2>1. o \in Nat
    BY DEF TypeOK
  <2> QED BY <1>3, <2>1, ExpireOrderInv
<1>4. ASSUME NEW m \in Markets, AwaitWinner(m) PROVE IInv'
  BY <1>4, AwaitWinnerInv
<1>5. ASSUME NEW m \in Markets, NEW w \in Sides, SettleMarket(m, w) PROVE IInv'
  BY <1>5, SettleMarketInv
<1>6. ASSUME NEW m \in Markets, NEW p \in Prices, ClosePositionAtPrice(m, p) PROVE IInv'
  <2>1. p \in Nat
    BY AmountsAssumption DEF AmountsAssumption
  <2> QED BY <1>6, <2>1, ClosePositionInv
<1>7. CASE UNCHANGED paper_vars
  BY <1>7 DEF paper_vars, TypeOK, OrdersSound, ReserveMatchesOpenOrders, OutstandingOf, Open
<1> QED BY <1>1, <1>2, <1>3, <1>4, <1>5, <1>6, <1>7 DEF Next

LEMMA Invariance == Spec => []IInv
<1> QED BY InitInv, NextInv, PTL DEF Spec

\* The engine's ledger, orders and positions keep their types, whatever calls
\* the bot makes: amounts stay integers, sizes and costs nonnegative.
THEOREM TypeCorrect == Spec => []TypeOK
<1>1. IInv => TypeOK
  BY DEF IInv
<1> QED BY <1>1, Invariance, PTL

\* The reserved cash is always exactly the unused reserve of the OPEN orders:
\* no call of create_order, try_fill, expire_order, settle_market or
\* close_position_at_price locks cash behind a closed order or frees it twice.
THEOREM ReserveExact == Spec => []ReserveMatchesOpenOrders
<1>1. IInv => ReserveMatchesOpenOrders
  BY DEF IInv
<1> QED BY <1>1, Invariance, PTL

\* An order that is filled, expired or cancelled is never touched again, and a
\* fill only ever adds lots, up to the requested size.
THEOREM ClosedOrdersFinal == Spec => ClosedOrdersAreFinal
<1> DEFINE Fin(o) == /\ o \in DOMAIN open_orders'
                     /\ ~Open(o) => open_orders'[o] = open_orders[o]
                     /\ open_orders'[o].filled
                           \in open_orders[o].filled .. open_orders[o].requested
           A == \A o \in DOMAIN open_orders : Fin(o)
<1>1. ASSUME IInv, Next PROVE A
  <2> SUFFICES ASSUME NEW i \in DOMAIN open_orders PROVE Fin(i)
    OBVIOUS
  <2> USE <1>1 DEF IInv
  <2>1. /\ open_orders \in Seq(PaperOrder)
        /\ i \in 1 .. Len(open_orders)
        /\ open_orders[i] \in PaperOrder
        /\ open_orders[i].filled \in Nat
        /\ open_orders[i].requested \in Nat
        /\ open_orders[i].filled <= open_orders[i].requested
    <3>1. open_orders[i] \in PaperOrder
      BY DEF TypeOK
    <3> QED BY <3>1, OrderNat DEF TypeOK, OrdersSound
  <2>2. ASSUME UNCHANGED open_orders PROVE Fin(i)
    BY <2>1, <2>2
  <2>3. ASSUME NEW m \in Markets, NEW s \in Sides, NEW p \in Prices, NEW q \in Sizes,
               CreateOrder(m, s, p, q)
        PROVE  Fin(i)
    BY <2>1, <2>3 DEF CreateOrder
  <2>4. ASSUME NEW o \in DOMAIN open_orders, NEW d \in Depths, NEW e \in BOOLEAN,
               TryFill(o, d, e)
        PROVE  Fin(i)
    <3> DEFINE lots == Fillable(o, d)
    <3>1. CASE i = o
      <4>1. d \in Nat
        BY AmountsAssumption DEF AmountsAssumption
      <4>2. /\ Open(i) /\ i \in DOMAIN open_orders'
            /\ open_orders'[i].filled = open_orders[i].filled + lots
        <5> DEFINE after == [open_orders[i] EXCEPT
                      !.filled = @ + lots,
                      !.status = IF lots = Remaining(i) THEN "FILLED" ELSE @]
        <5>1. open_orders' = [open_orders EXCEPT ![i] = after]
          BY <2>4, <3>1 DEF TryFill
        <5>2. Open(i)
          BY <2>4, <3>1 DEF TryFill
        <5> HIDE DEF lots
        <5> QED BY <2>1, <5>1, <5>2 DEF PaperOrder
      <4>3. lots \in Nat /\ lots <= open_orders[i].requested - open_orders[i].filled
        BY <2>1, <2>4, <3>1, <4>1 DEF TryFill, Fillable, Least, Remaining
      <4> QED BY <2>1, <4>2, <4>3
    <3>2. CASE i # o
      BY <2>1, <2>4, <3>2 DEF TryFill
    <3> QED BY <3>1, <3>2
  <2>5. ASSUME NEW o \in DOMAIN open_orders, NEW st \in {"EXPIRED", "CANCELLED_LOCAL"},
               ExpireOrder(o, st)
        PROVE  Fin(i)
    <3>1. CASE i = o
      <4>1. open_orders'[i].filled = open_orders[i].filled /\ i \in DOMAIN open_orders'
        <5>1. open_orders' = [open_orders EXCEPT ![i] = [@ EXCEPT !.status = st]]
          BY <2>5, <3>1 DEF ExpireOrder
        <5> QED BY <2>1, <5>1 DEF PaperOrder
      <4>2. Open(i)
        BY <2>5, <3>1 DEF ExpireOrder
      <4> QED BY <2>1, <4>1, <4>2
    <3>2. CASE i # o
      BY <2>1, <2>5, <3>2 DEF ExpireOrder
    <3> QED BY <3>1, <3>2
  <2> QED BY <1>1, <2>2, <2>3, <2>4, <2>5
          DEF Next, AwaitWinner, SettleMarket, ClosePositionAtPrice, ledger
<1> QED BY <1>1, Invariance, PTL DEF Spec, ClosedOrdersAreFinal

-----------------------------------------------------------------------------
(* The engine implements the account of PaperAccount: it never shows money *)
(* that no closed position earned, and every lot and tick of a position     *)
(* comes from a fill.                                                      *)

Stakes == [m \in Nat |-> StakeOf(m)]
Stake == Total(Stakes, NumMarkets)

LEMMA StakesType == ASSUME TypeOK PROVE Stakes \in [Nat -> Int]
<1>1. ASSUME NEW m \in Nat PROVE StakeOf(m) \in Int
  <2>1. CASE HasPosition(m)
    <3>1. positions[m] \in PaperPosition
      BY <2>1 DEF HasPosition, TypeOK
    <3>2. positions[m].cost \in Int /\ positions[m].pnl \in Int
      BY <3>1 DEF PaperPosition
    <3> QED BY <3>2 DEF StakeOf
  <2>2. CASE ~HasPosition(m)
    BY <2>2 DEF StakeOf, Unresolved, Closed
  <2> QED BY <2>1, <2>2
<1> QED BY <1>1 DEF Stakes

LEMMA StakeType == ASSUME TypeOK PROVE Stake \in Int
<1>1. Stakes \in [Nat -> Int] /\ NumMarkets \in Nat
  BY StakesType, AmountsAssumption DEF AmountsAssumption
<1> HIDE DEF Stakes
<1> QED BY <1>1, PrefixSumDef DEF Stake, Total

\* When one market's position changes, the stake changes by what that market
\* ties up.
LEMMA StakeUpdate ==
    ASSUME TypeOK, TypeOK', NEW m \in Markets, NEW after,
           positions' = [positions EXCEPT ![m] = after]
    PROVE  Stake' = Stake + StakeOf(m)' - StakeOf(m)
<1>1. NumMarkets \in Nat /\ m \in Nat /\ m \in 1 .. NumMarkets
  BY AmountsAssumption DEF AmountsAssumption, Markets
<1>2. Stakes \in [Nat -> Int] /\ Stakes' \in [Nat -> Int]
  <2>1. (TypeOK => Stakes \in [Nat -> Int])'
    BY StakesType, PTL
  <2> QED BY <2>1, StakesType
<1>3. ASSUME NEW i \in Nat, i > 0, i # m PROVE Stakes'[i] = Stakes[i]
  <2>1. i \in Markets => positions'[i] = positions[i]
    BY <1>3 DEF TypeOK
  <2> QED BY <2>1 DEF Stakes, StakeOf, Unresolved, Closed, HasPosition
<1>4. Total(Stakes', NumMarkets) = Total(Stakes, NumMarkets) + Stakes'[m] - Stakes[m]
  BY <1>1, <1>2, <1>3, TotalUpdate
<1>5. Stakes'[m] = StakeOf(m)' /\ Stakes[m] = StakeOf(m)
  BY <1>1 DEF Stakes
<1> QED BY <1>4, <1>5 DEF Stake

LEMMA StakeUnchanged ==
    ASSUME UNCHANGED positions
    PROVE  Stake' = Stake
BY DEF Stake, Stakes, StakeOf, Unresolved, Closed, HasPosition

-----------------------------------------------------------------------------
(* Every call of the engine is a move of the account. *)

LEMMA CreateOrderReserves ==
    ASSUME IInv, NEW m \in Markets, NEW s \in Sides, NEW p \in Prices, NEW q \in Sizes,
           CreateOrder(m, s, p, q)
    PROVE  Account!Reserve
<1>1. p * q \in Nat /\ cash_available \in Int /\ cash_reserved \in Int
  BY AmountsAssumption, ProductNat DEF AmountsAssumption, IInv, TypeOK
<1>2. Stake' = Stake
  BY StakeUnchanged DEF CreateOrder
<1> DEFINE x == p * q
<1>3. /\ cash_available' = cash_available - x
      /\ cash_reserved' = cash_reserved + x
      /\ AllowNegativeCash \/ x <= cash_available
  BY DEF CreateOrder
<1> HIDE DEF x
<1>4. x \in Nat
  BY <1>1 DEF x
<1> QED BY <1>1, <1>2, <1>3, <1>4 DEF Account!Reserve, Stake, Stakes

LEMMA TryFillFillsOrLapses ==
    ASSUME IInv, TypeOK', NEW o \in Nat, NEW depth \in Nat, NEW end_known \in BOOLEAN,
           TryFill(o, depth, end_known)
    PROVE  Account!Fill \/ Account!Lapse
<1> DEFINE order == open_orders[o]
           lots == Fillable(o, depth)
           paid == lots * order.limit_price
           n == Len(open_orders)
<1>1. /\ o \in DOMAIN open_orders
      /\ order \in PaperOrder /\ order.status = "OPEN"
      /\ order.filled <= order.requested
  BY DEF IInv, TypeOK, OrdersSound, TryFill, Open
<1>2. /\ order.limit_price \in Nat /\ order.requested \in Nat /\ order.filled \in Nat
      /\ order.market \in Markets
  BY <1>1, OrderNat
<1> PICK m \in Markets : m = order.market
  BY <1>2
<1> DEFINE pos == positions[m]
           after == AfterFill(pos, order, lots, end_known)
<1>3. lots \in Nat /\ lots <= Remaining(o) /\ Remaining(o) \in Nat
  BY <1>1, <1>2 DEF TryFill, Fillable, Least, Remaining
<1>4. paid \in Nat /\ paid <= Unused(order) /\ Unused(order) \in Nat
  <2>1. \A a, b, c \in Nat : a <= b => a * c \in Nat /\ a * c <= c * b
    OBVIOUS
  <2>2. Unused(order) = order.limit_price * Remaining(o)
    BY DEF Unused, Remaining
  <2> QED BY <1>1, <1>2, <1>3, <2>1, <2>2, UnusedNat
<1>5. Unused(order) <= cash_reserved
  <2>1. /\ Outstanding \in [Nat -> Int]
        /\ \A i \in Nat : Outstanding[i] >= 0
    BY OutstandingType DEF IInv
  <2>2. o \in 1 .. n /\ n \in Nat
    BY <1>1 DEF IInv, TypeOK
  <2>3. Outstanding[o] <= Total(Outstanding, n)
    <3>1. \A i \in 1 .. n : Outstanding[i] >= 0
      BY <2>1, <2>2
    <3> HIDE DEF n
    <3> QED BY <2>1, <2>2, <3>1, TotalBounds
  <2>4. Outstanding[o] = Unused(order)
    BY <1>1 DEF Outstanding, OutstandingOf, Open
  <2> QED BY <2>3, <2>4 DEF IInv, ReserveMatchesOpenOrders, Outstanding
<1>6. /\ cash_available' = cash_available
      /\ cash_reserved' = cash_reserved - paid
      /\ positions' = [positions EXCEPT ![m] = after]
  BY DEF TryFill
<1>7. Stake' = Stake + StakeOf(m)' - StakeOf(m)
  <2> HIDE DEF after
  <2> QED BY <1>2, <1>6, StakeUpdate DEF IInv
<1>8. cash_reserved \in Int /\ Stake \in Int /\ pos \in PaperPosition \cup {NoPosition}
  BY <1>2, StakeType DEF IInv, TypeOK
<1>9. positions'[m] = after /\ after # NoPosition
  <2>1. after \in PaperPosition
    BY <1>1, <1>3, <1>8, AfterFillType
  <2> HIDE DEF after
  <2> QED BY <1>2, <1>6, <2>1, NoPositionAssumption DEF IInv, TypeOK, NoPositionAssumption
<1>10. CASE Closed(m)
  <2>1. pos # NoPosition /\ pos \in PaperPosition
    BY <1>8, <1>10 DEF Closed, HasPosition
  <2>2. after.status = pos.status /\ after.pnl = pos.pnl
    BY <2>1 DEF AfterFill, PaperPosition
  <2>3. StakeOf(m)' = StakeOf(m) /\ StakeOf(m) \in Int
    <3>1. pos.pnl \in Int
      BY <2>1 DEF PaperPosition
    <3> HIDE DEF after
    <3> QED BY <1>2, <1>9, <1>10, <2>1, <2>2, <3>1 DEF StakeOf, Closed, Unresolved, HasPosition
  <2>4. Stake' = Stake
    BY <1>7, <1>8, <2>3
  <2> HIDE DEF paid
  <2> QED BY <1>4, <1>5, <1>6, <1>8, <2>4 DEF Account!Lapse, Stake, Stakes, IInv, TypeOK
<1>11. CASE ~Closed(m)
  <2>1. StakeOf(m)' = StakeOf(m) + paid /\ StakeOf(m) \in Int
    <3>1. CASE pos = NoPosition
      <4>1. after.status = "OPEN" /\ after.cost = paid
        BY <3>1 DEF AfterFill
      <4> HIDE DEF after, paid
      <4> QED BY <1>2, <1>4, <1>9, <3>1, <4>1 DEF StakeOf, Closed, Unresolved, HasPosition
    <3>2. CASE pos # NoPosition
      <4>1. pos \in PaperPosition /\ pos.cost \in Int
        BY <1>8, <3>2 DEF PaperPosition
      <4>2. after.status = pos.status /\ after.cost = pos.cost + paid
        BY <3>2, <4>1 DEF AfterFill, PaperPosition
      <4>3. pos.status \in {"OPEN", "PENDING_RESOLUTION"}
        BY <1>2, <1>11, <3>2 DEF Closed, Unresolved, HasPosition
      <4> HIDE DEF after, paid
      <4> QED BY <1>2, <1>4, <1>9, <3>2, <4>1, <4>2, <4>3 DEF StakeOf, Unresolved, HasPosition
    <3> QED BY <3>1, <3>2
  <2>2. Stake' = Stake + paid
    <3> HIDE DEF paid
    <3> QED BY <1>4, <1>7, <1>8, <2>1
  <2> HIDE DEF paid
  <2> QED BY <1>4, <1>5, <1>6, <1>8, <2>2 DEF Account!Fill, Stake, Stakes, IInv, TypeOK
<1> QED BY <1>10, <1>11

LEMMA ExpireOrderReleases ==
    ASSUME IInv, NEW o \in Nat, NEW status, ExpireOrder(o, status)
    PROVE  Account!Release
<1> DEFINE x == Unused(open_orders[o])
           n == Len(open_orders)
<1>1. /\ o \in DOMAIN open_orders /\ open_orders[o] \in PaperOrder
      /\ open_orders[o].status = "OPEN"
      /\ open_orders[o].filled <= open_orders[o].requested
  BY DEF IInv, TypeOK, OrdersSound, ExpireOrder, Open
<1>2. x \in Nat /\ x <= cash_reserved
  <2>1. /\ Outstanding \in [Nat -> Int]
        /\ \A i \in Nat : Outstanding[i] >= 0
    BY OutstandingType DEF IInv
  <2>2. o \in 1 .. n /\ n \in Nat
    BY <1>1 DEF IInv, TypeOK
  <2>3. Outstanding[o] <= Total(Outstanding, n)
    <3>1. \A i \in 1 .. n : Outstanding[i] >= 0
      BY <2>1, <2>2
    <3> HIDE DEF n
    <3> QED BY <2>1, <2>2, <3>1, TotalBounds
  <2>4. Outstanding[o] = x
    BY <1>1 DEF Outstanding, OutstandingOf, Open
  <2> QED BY <1>1, <2>3, <2>4, UnusedNat DEF IInv, ReserveMatchesOpenOrders, Outstanding
<1>3. cash_available \in Int /\ cash_reserved \in Int
  BY DEF IInv, TypeOK
<1>4. cash_available' = cash_available + x /\ cash_reserved' = cash_reserved - x
  <2>1. NonNegative(cash_reserved - x) = cash_reserved - x
    <3> HIDE DEF x
    <3> QED BY <1>2, <1>3 DEF NonNegative
  <2> QED BY <2>1 DEF ExpireOrder
<1>5. Stake' = Stake
  BY StakeUnchanged DEF ExpireOrder
<1> HIDE DEF x
<1> QED BY <1>2, <1>3, <1>4, <1>5 DEF Account!Release, Stake, Stakes

LEMMA AwaitWinnerStutters ==
    ASSUME IInv, TypeOK', NEW m \in Markets, Unresolved(m), AwaitWinner(m)
    PROVE  UNCHANGED Account!account
<1> DEFINE after == [positions[m] EXCEPT !.status = "PENDING_RESOLUTION"]
<1>1. positions[m] \in PaperPosition
  BY DEF IInv, TypeOK, AwaitWinner, HasPosition
<1>2. after \in PaperPosition /\ after.cost = positions[m].cost
      /\ after.status = "PENDING_RESOLUTION"
  BY <1>1 DEF PaperPosition, PositionStatus
<1>3. positions' = [positions EXCEPT ![m] = after]
  BY DEF AwaitWinner
<1>4. positions'[m] = after /\ after # NoPosition
  <2> HIDE DEF after
  <2> QED BY <1>2, <1>3, NoPositionAssumption DEF IInv, TypeOK, NoPositionAssumption
<1>5. StakeOf(m)' = StakeOf(m) /\ StakeOf(m) \in Int
  <2>1. positions[m].cost \in Int
    BY <1>1 DEF PaperPosition
  <2> HIDE DEF after
  <2> QED BY <1>2, <1>4, <2>1 DEF StakeOf, Unresolved, HasPosition
<1>6. Stake' = Stake
  <2> HIDE DEF after
  <2>1. Stake' = Stake + StakeOf(m)' - StakeOf(m)
    BY <1>3, StakeUpdate DEF IInv
  <2>2. Stake \in Int
    BY StakeType DEF IInv
  <2> QED BY <1>5, <2>1, <2>2
<1> QED BY <1>6 DEF AwaitWinner, ledger, Account!account, Stake, Stakes

\* Closing an unresolved position pays p and books p - cost.
LEMMA PositionCloses ==
    ASSUME IInv, TypeOK', NEW m \in Markets, Unresolved(m), NEW p \in Nat,
           NEW status \in {"WON", "LOST"},
           cash_available' = cash_available + p,
           cash_reserved' = cash_reserved,
           positions' = [positions EXCEPT ![m].pnl = p - positions[m].cost,
                                          ![m].status = status]
    PROVE  Account!Close
<1> DEFINE pnl == p - positions[m].cost
           after == [positions[m] EXCEPT !.pnl = pnl, !.status = status]
<1>1. positions[m] \in PaperPosition /\ positions[m].cost \in Nat
  <2>1. positions[m] \in PaperPosition
    BY DEF IInv, TypeOK, Unresolved, HasPosition
  <2> QED BY <2>1 DEF PaperPosition
<1>2. after \in PaperPosition /\ after.pnl = pnl /\ after.status = status
  <2>1. pnl \in Int
    BY <1>1
  <2> HIDE DEF pnl
  <2> QED BY <1>1, <2>1, PositionClosedType DEF PaperPosition
<1>3. positions' = [positions EXCEPT ![m] = after]
  OBVIOUS
<1>4. positions'[m] = after /\ after # NoPosition
  <2> HIDE DEF after
  <2> QED BY <1>2, <1>3, NoPositionAssumption DEF IInv, TypeOK, NoPositionAssumption
<1>5. StakeOf(m)' = -pnl /\ StakeOf(m) = positions[m].cost
  <2> HIDE DEF after, pnl
  <2> QED BY <1>2, <1>4 DEF StakeOf, Closed, Unresolved, HasPosition
<1>6. Stake' = Stake - p
  <2> HIDE DEF after
  <2>1. Stake' = Stake + StakeOf(m)' - StakeOf(m)
    BY <1>3, StakeUpdate DEF IInv
  <2>2. Stake \in Int
    BY StakeType DEF IInv
  <2> QED BY <1>1, <1>5, <2>1, <2>2
<1>7. Stake \in Int /\ cash_available \in Int
  BY StakeType DEF IInv, TypeOK
<1> QED BY <1>6, <1>7 DEF Account!Close, Stake, Stakes

LEMMA SettleMarketCloses ==
    ASSUME IInv, TypeOK', NEW m \in Markets, NEW w, Unresolved(m), SettleMarket(m, w)
    PROVE  Account!Close
<1> DEFINE p == PayoutOf(m, w)
           status == IF p > 0 THEN "WON" ELSE "LOST"
<1>1. p \in Nat
  <2>1. positions[m] \in PaperPosition
    BY DEF IInv, TypeOK, Unresolved, HasPosition
  <2>2. positions[m].size * Payout \in Nat
    BY <2>1, ProductNat, AmountsAssumption DEF AmountsAssumption, PaperPosition
  <2> QED BY <2>2 DEF PayoutOf
<1>2. /\ cash_available' = cash_available + p
      /\ cash_reserved' = cash_reserved
      /\ positions' = [positions EXCEPT ![m].pnl = p - positions[m].cost,
                                        ![m].status = status]
  BY DEF SettleMarket
<1>3. status \in {"WON", "LOST"}
  OBVIOUS
<1> HIDE DEF p, status
<1> QED BY <1>1, <1>2, <1>3, PositionCloses

LEMMA SaleCloses ==
    ASSUME IInv, TypeOK', NEW m \in Markets, NEW price \in Nat,
           ClosePositionAtPrice(m, price)
    PROVE  Account!Close
<1> DEFINE p == positions[m].size * price
           status == IF p >= positions[m].cost THEN "WON" ELSE "LOST"
<1>1. Unresolved(m)
  BY DEF ClosePositionAtPrice, Unresolved
<1>2. p \in Nat
  <2>1. positions[m] \in PaperPosition
    BY DEF IInv, TypeOK, ClosePositionAtPrice, HasPosition
  <2> QED BY <2>1, ProductNat DEF PaperPosition
<1>3. /\ cash_available' = cash_available + p
      /\ cash_reserved' = cash_reserved
      /\ positions' = [positions EXCEPT ![m].pnl = p - positions[m].cost,
                                        ![m].status = status]
  BY DEF ClosePositionAtPrice
<1>4. status \in {"WON", "LOST"}
  OBVIOUS
<1> HIDE DEF p, status
<1> QED BY <1>1, <1>2, <1>3, <1>4, PositionCloses

-----------------------------------------------------------------------------
LEMMA StepIsMove ==
    ASSUME IInv, TypeOK', Next
    PROVE  [Account!Next]_(Account!account)
<1>1. ASSUME NEW m \in Markets, NEW s \in Sides, NEW p \in Prices, NEW q \in Sizes,
             CreateOrder(m, s, p, q)
      PROVE  Account!Next
  BY <1>1, CreateOrderReserves DEF Account!Next
<1>2. ASSUME NEW o \in DOMAIN open_orders, NEW d \in Depths, NEW e \in BOOLEAN,
             TryFill(o, d, e)
      PROVE  Account!Next
  <2>1. o \in Nat /\ d \in Nat
    BY AmountsAssumption DEF AmountsAssumption, IInv, TypeOK
  <2> QED BY <1>2, <2>1, TryFillFillsOrLapses DEF Account!Next
<1>3. ASSUME NEW o \in DOMAIN open_orders, NEW st \in {"EXPIRED", "CANCELLED_LOCAL"},
             ExpireOrder(o, st)
      PROVE  Account!Next
  <2>1. o \in Nat
    BY DEF IInv, TypeOK
  <2> QED BY <1>3, <2>1, ExpireOrderReleases DEF Account!Next
<1>4. ASSUME NEW m \in Markets, Unresolved(m), AwaitWinner(m)
      PROVE  UNCHANGED Account!account
  BY <1>4, AwaitWinnerStutters
<1>5. ASSUME NEW m \in Markets, NEW w \in Sides, Unresolved(m), SettleMarket(m, w)
      PROVE  Account!Next
  BY <1>5, SettleMarketCloses DEF Account!Next
<1>6. ASSUME NEW m \in Markets, NEW p \in Prices, ClosePositionAtPrice(m, p)
      PROVE  Account!Next
  <2>1. p \in Nat
    BY AmountsAssumption DEF AmountsAssumption
  <2> QED BY <1>6, <2>1, SaleCloses DEF Account!Next
<1> QED BY <1>1, <1>2, <1>3, <1>4, <1>5, <1>6 DEF Next

LEMMA EmptyAccount == Init => Account!Init
<1> SUFFICES ASSUME Init PROVE Account!Init
  OBVIOUS
<1>1. Stakes \in [Nat -> Int] /\ NumMarkets \in Nat
  BY InitInv, StakesType, AmountsAssumption DEF AmountsAssumption, IInv
<1>2. \A m \in 1 .. NumMarkets : Stakes[m] = 0
  BY <1>1 DEF Init, Stakes, StakeOf, Unresolved, Closed, HasPosition, Markets
<1>3. Stake = 0
  BY <1>1, <1>2, TotalEmpty DEF Stake
<1> QED BY <1>3 DEF Init, Account!Init, Stake, Stakes

\* The engine of paper.py implements the account: create_order reserves,
\* try_fill fills or lapses, expire_order releases, settle_market and
\* close_position_at_price close, for any markets, prices, sizes and payout.
THEOREM AccountImplemented == Spec => ImplementsAccount
<1>1. IInv /\ IInv' /\ [Next]_paper_vars => [Account!Next]_(Account!account)
  <2> SUFFICES ASSUME IInv, IInv', [Next]_paper_vars
               PROVE  [Account!Next]_(Account!account)
    OBVIOUS
  <2>1. CASE Next
    BY <2>1, StepIsMove DEF IInv
  <2>2. CASE UNCHANGED paper_vars
    <3>1. Stake' = Stake
      BY <2>2, StakeUnchanged DEF paper_vars
    <3> QED BY <2>2, <3>1 DEF paper_vars, Account!account, Stake, Stakes
  <2> QED BY <2>1, <2>2
<1> QED BY <1>1, EmptyAccount, Invariance, PTL DEF Spec, ImplementsAccount, Account!Spec

LEMMA SumKept ==
    ASSUME NEW a \in Int, NEW b \in Int, NEW c \in Int,
           NEW x \in Int, NEW y \in Int, NEW z \in Int,
           \/ x = a - (y - b) /\ z = c
           \/ x = a /\ z = c + (b - y)
           \/ x = a + (c - z) /\ y = b
           \/ x = a /\ z = c /\ y <= b
    PROVE  x + y + z <= a + b + c
OBVIOUS

LEMMA WorthType == IInv => cash_available + cash_reserved + Stake \in Int
BY StakeType DEF IInv, TypeOK

\* What a move of the account can do to its three amounts together.
LEMMA MoveCreatesNothing ==
    ASSUME IInv, IInv', [Account!Next]_(Account!account)
    PROVE  cash_available' + cash_reserved' + Stake'
               <= cash_available + cash_reserved + Stake
<1>1. /\ cash_available \in Int /\ cash_reserved \in Int /\ Stake \in Int
      /\ cash_available' \in Int /\ cash_reserved' \in Int
  BY StakeType DEF IInv, TypeOK
<1>2. Stake' \in Int
  <2>1. (TypeOK => Stake \in Int)'
    BY StakeType, PTL
  <2> QED BY <2>1 DEF IInv
<1>3. CASE Account!Reserve
  <2>1. /\ cash_available' = cash_available - (cash_reserved' - cash_reserved)
        /\ Stake' = Stake
    BY <1>3 DEF Account!Reserve, Stake, Stakes
  <2> QED BY <1>1, <1>2, <2>1, SumKept
<1>4. CASE Account!Fill
  <2>1. cash_available' = cash_available /\ Stake' = Stake + (cash_reserved - cash_reserved')
    BY <1>4 DEF Account!Fill, Stake, Stakes
  <2> QED BY <1>1, <1>2, <2>1, SumKept
<1>5. CASE Account!Lapse
  <2>1. /\ cash_available' = cash_available /\ Stake' = Stake
        /\ cash_reserved' <= cash_reserved
    BY <1>5 DEF Account!Lapse, Stake, Stakes
  <2> QED BY <1>1, <1>2, <2>1, SumKept
<1>6. CASE Account!Release
  <2>1. /\ cash_available' = cash_available - (cash_reserved' - cash_reserved)
        /\ Stake' = Stake
    BY <1>1, <1>6 DEF Account!Release, Stake, Stakes
  <2> QED BY <1>1, <1>2, <2>1, SumKept
<1>7. CASE Account!Close
  <2>1. cash_available' = cash_available + (Stake - Stake') /\ cash_reserved' = cash_reserved
    BY <1>7 DEF Account!Close, Stake, Stakes
  <2> QED BY <1>1, <1>2, <2>1, SumKept
<1>8. CASE UNCHANGED Account!account
  <2>1. /\ cash_available' = cash_available /\ cash_reserved' = cash_reserved
        /\ Stake' = Stake
    BY <1>8 DEF Account!account, Stake, Stakes
  <2> QED BY <1>1, <1>2, <2>1, SumKept
<1> QED BY <1>3, <1>4, <1>5, <1>6, <1>7, <1>8 DEF Account!Next

\* The paper account never shows money that no closed position earned.
THEOREM NoMoneyFromNowhere == Spec => []NoMoneyCreated
<1> DEFINE Worth == cash_available + cash_reserved + Stake
<1>1. Init => NoMoneyCreated
  <2> SUFFICES ASSUME Init PROVE NoMoneyCreated
    OBVIOUS
  <2>1. Stake = 0
    BY EmptyAccount DEF Account!Init, Stake, Stakes
  <2> QED BY <2>1, AmountsAssumption
          DEF Init, AmountsAssumption, NoMoneyCreated, Stake, Stakes
<1>2. NoMoneyCreated /\ IInv /\ IInv' /\ [Account!Next]_(Account!account)
        => NoMoneyCreated'
  <2> SUFFICES ASSUME NoMoneyCreated, IInv, IInv', [Account!Next]_(Account!account)
               PROVE  NoMoneyCreated'
    OBVIOUS
  <2>1. Worth' <= Worth
    BY MoveCreatesNothing
  <2>2. Worth \in Int /\ Worth' \in Int /\ InitialCash \in Int
    <3>1. (IInv => Worth \in Int)'
      BY WorthType, PTL
    <3> QED BY <3>1, WorthType, AmountsAssumption DEF AmountsAssumption
  <2>3. Worth <= InitialCash
    BY DEF NoMoneyCreated, Stake, Stakes
  <2>4. Worth' <= InitialCash
    <3> HIDE DEF Worth
    <3> QED BY <2>1, <2>2, <2>3
  <2> QED BY <2>4 DEF NoMoneyCreated, Stake, Stakes
<1> QED BY <1>1, <1>2, AccountImplemented, Invariance, PTL
        DEF Spec, ImplementsAccount, Account!Spec

-----------------------------------------------------------------------------
(* Positions and fills *)

Lots(m) == [o \in Nat |-> LotsIn(o, m)]
Paid(m) == [o \in Nat |-> PaidIn(o, m)]

LEMMA FillsType ==
    ASSUME TypeOK, NEW m \in Markets
    PROVE  Lots(m) \in [Nat -> Int] /\ Paid(m) \in [Nat -> Int]
<1>1. ASSUME NEW o \in Nat PROVE LotsIn(o, m) \in Int /\ PaidIn(o, m) \in Int
  <2>1. CASE InMarket(o, m)
    <3>1. open_orders[o] \in PaperOrder
      BY <2>1 DEF InMarket, TypeOK
    <3>2. open_orders[o].filled \in Nat /\ open_orders[o].limit_price \in Nat
      BY <3>1, OrderNat
    <3> QED BY <2>1, <3>2, ProductNat DEF LotsIn, PaidIn
  <2>2. CASE ~InMarket(o, m)
    BY <2>2 DEF LotsIn, PaidIn
  <2> QED BY <2>1, <2>2
<1> QED BY <1>1 DEF Lots, Paid

LEMMA FillsTypes ==
    IInv => \A m \in Markets : Lots(m) \in [Nat -> Int] /\ Paid(m) \in [Nat -> Int]
BY FillsType DEF IInv

LEMMA FillsTypesNext ==
    IInv' => \A m \in Markets : Lots(m)' \in [Nat -> Int] /\ Paid(m)' \in [Nat -> Int]
<1>1. (IInv => \A m \in Markets : Lots(m) \in [Nat -> Int] /\ Paid(m) \in [Nat -> Int])'
  BY FillsTypes, PTL
<1> QED BY <1>1

\* What an order's market, price and fills, and a market's position, decide.
LEMMA FillsUntouched ==
    ASSUME TypeOK, PositionsAccountForFills,
           DOMAIN open_orders' = DOMAIN open_orders,
           Len(open_orders') = Len(open_orders),
           \A o \in DOMAIN open_orders :
              /\ open_orders'[o].market = open_orders[o].market
              /\ open_orders'[o].filled = open_orders[o].filled
              /\ open_orders'[o].limit_price = open_orders[o].limit_price,
           \A m \in Markets : SizeOf(m)' = SizeOf(m) /\ CostOf(m)' = CostOf(m)
    PROVE  PositionsAccountForFills'
<1>1. ASSUME NEW m \in Markets, NEW o \in Nat
      PROVE  LotsIn(o, m)' = LotsIn(o, m) /\ PaidIn(o, m)' = PaidIn(o, m)
  BY DEF LotsIn, PaidIn, InMarket
<1>2. ASSUME NEW m \in Markets
      PROVE  /\ [o \in Nat |-> LotsIn(o, m)]' = [o \in Nat |-> LotsIn(o, m)]
             /\ [o \in Nat |-> PaidIn(o, m)]' = [o \in Nat |-> PaidIn(o, m)]
  BY <1>1
<1> QED BY <1>2 DEF PositionsAccountForFills

\* A new order has no fills yet.
LEMMA CreateOrderFills ==
    ASSUME IInv, IInv', PositionsAccountForFills,
           NEW m \in Markets, NEW s \in Sides, NEW p \in Prices, NEW q \in Sizes,
           CreateOrder(m, s, p, q)
    PROVE  PositionsAccountForFills'
<1> DEFINE n == Len(open_orders)
<1>1. /\ n \in Nat /\ DOMAIN open_orders = 1 .. n
      /\ DOMAIN open_orders' = 1 .. n + 1 /\ Len(open_orders') = n + 1
      /\ open_orders'[n + 1].filled = 0
      /\ \A o \in 1 .. n : open_orders'[o] = open_orders[o]
      /\ \A k \in Markets : SizeOf(k)' = SizeOf(k) /\ CostOf(k)' = CostOf(k)
  BY DEF IInv, TypeOK, CreateOrder, SizeOf, CostOf, HasPosition
<1>2. p \in Nat /\ open_orders'[n + 1].limit_price = p
  BY AmountsAssumption DEF AmountsAssumption, IInv, TypeOK, CreateOrder
<1>3. ASSUME NEW k \in Markets
      PROVE  /\ Total(Lots(k)', n + 1) = Total(Lots(k), n)
             /\ Total(Paid(k)', n + 1) = Total(Paid(k), n)
  <2>1. /\ Lots(k) \in [Nat -> Int] /\ Paid(k) \in [Nat -> Int]
        /\ Lots(k)' \in [Nat -> Int] /\ Paid(k)' \in [Nat -> Int]
    BY FillsTypes, FillsTypesNext
  <2>2. \A o \in Nat : o > 0 /\ o # n + 1 =>
            Lots(k)'[o] = Lots(k)[o] /\ Paid(k)'[o] = Paid(k)[o]
    BY <1>1 DEF Lots, Paid, LotsIn, PaidIn, InMarket
  <2>3. n + 1 \in Nat /\ Lots(k)'[n + 1] = 0 /\ Paid(k)'[n + 1] = 0
    BY <1>1, <1>2 DEF Lots, Paid, LotsIn, PaidIn, InMarket
  <2>4. Total(Lots(k)', n + 1) = Total(Lots(k), n) + Lots(k)'[n + 1]
    BY <1>1, <2>1, <2>2, TotalExtend
  <2>5. Total(Paid(k)', n + 1) = Total(Paid(k), n) + Paid(k)'[n + 1]
    BY <1>1, <2>1, <2>2, TotalExtend
  <2>6. Total(Lots(k), n) \in Int /\ Total(Paid(k), n) \in Int
    BY <1>1, <2>1, PrefixSumDef DEF Total
  <2> QED BY <2>3, <2>4, <2>5, <2>6
<1> QED BY <1>1, <1>3 DEF PositionsAccountForFills, Lots, Paid

LEMMA TryFillFills ==
    ASSUME IInv, IInv', PositionsAccountForFills,
           NEW o \in Nat, NEW depth \in Nat, NEW end_known \in BOOLEAN,
           TryFill(o, depth, end_known)
    PROVE  PositionsAccountForFills'
<1> DEFINE order == open_orders[o]
           n == Len(open_orders)
           lots == Fillable(o, depth)
           price == order.limit_price
<1>1. /\ o \in DOMAIN open_orders /\ o \in 1 .. n /\ n \in Nat
      /\ order \in PaperOrder /\ order.filled <= order.requested
  BY DEF IInv, TypeOK, OrdersSound, TryFill, Open
<1>2. /\ price \in Nat /\ order.requested \in Nat /\ order.filled \in Nat
      /\ order.market \in Markets
  BY <1>1, OrderNat
<1>3. lots \in Nat
  BY <1>1, <1>2 DEF TryFill, Fillable, Least, Remaining
<1> PICK f : f = lots
  OBVIOUS
<1> PICK m \in Markets : m = order.market
  BY <1>2
<1> PICK c : c = price
  OBVIOUS
<1>4. /\ DOMAIN open_orders' = DOMAIN open_orders /\ Len(open_orders') = n
      /\ open_orders'[o].market = m /\ open_orders'[o].limit_price = c
      /\ open_orders'[o].filled = order.filled + f
      /\ \A i \in DOMAIN open_orders : i # o => open_orders'[i] = open_orders[i]
  <2> DEFINE after == [order EXCEPT !.filled = @ + lots,
                            !.status = IF lots = Remaining(o) THEN "FILLED" ELSE @]
  <2>1. open_orders' = [open_orders EXCEPT ![o] = after]
    BY DEF TryFill
  <2>2. after.market = m /\ after.limit_price = c /\ after.filled = order.filled + f
    BY <1>1 DEF PaperOrder
  <2> HIDE DEF after, lots, order
  <2> QED BY <1>1, <2>1, <2>2 DEF IInv, TypeOK
<1>5. /\ SizeOf(m)' = SizeOf(m) + f /\ CostOf(m)' = CostOf(m) + f * c
      /\ \A k \in Markets : k # m => SizeOf(k)' = SizeOf(k) /\ CostOf(k)' = CostOf(k)
  <2> DEFINE pos == positions[m]
             after == AfterFill(pos, order, f, end_known)
  <2>1. pos \in PaperPosition \cup {NoPosition} /\ positions' = [positions EXCEPT ![m] = after]
    BY DEF IInv, TypeOK, TryFill
  <2>2. after \in PaperPosition
    BY <1>1, <1>3, <2>1, AfterFillType
  <2>3. positions'[m] = after /\ after # NoPosition
    <3> HIDE DEF after
    <3> QED BY <2>1, <2>2, NoPositionAssumption DEF IInv, TypeOK, NoPositionAssumption
  <2>4. after.size = SizeOf(m) + f /\ after.cost = CostOf(m) + f * c
    <3>1. CASE pos = NoPosition
      <4>1. f * c \in Nat
        BY <1>2, <1>3, ProductNat
      <4> QED BY <1>3, <3>1, <4>1 DEF AfterFill, SizeOf, CostOf, HasPosition
    <3>2. CASE pos # NoPosition
      BY <2>1, <3>2 DEF AfterFill, SizeOf, CostOf, HasPosition, PaperPosition
    <3> QED BY <3>1, <3>2
  <2>5. \A k \in Markets : k # m => positions'[k] = positions[k]
    <3> HIDE DEF after
    <3> QED BY <2>1 DEF IInv, TypeOK
  <2> HIDE DEF after, pos
  <2> QED BY <2>3, <2>4, <2>5 DEF SizeOf, CostOf, HasPosition
<1>6. ASSUME NEW k \in Markets
      PROVE  /\ k = m => /\ Total(Lots(k)', n) = Total(Lots(k), n) + f
                         /\ Total(Paid(k)', n) = Total(Paid(k), n) + f * c
             /\ k # m => /\ Total(Lots(k)', n) = Total(Lots(k), n)
                         /\ Total(Paid(k)', n) = Total(Paid(k), n)
  <2>1. /\ Lots(k) \in [Nat -> Int] /\ Paid(k) \in [Nat -> Int]
        /\ Lots(k)' \in [Nat -> Int] /\ Paid(k)' \in [Nat -> Int]
    BY FillsTypes, FillsTypesNext
  <2>2. \A i \in Nat : i > 0 /\ i # o =>
            Lots(k)'[i] = Lots(k)[i] /\ Paid(k)'[i] = Paid(k)[i]
    BY <1>4 DEF Lots, Paid, LotsIn, PaidIn, InMarket
  <2>3. /\ Lots(k)'[o] = (IF m = k THEN order.filled + f ELSE 0)
        /\ Lots(k)[o] = (IF m = k THEN order.filled ELSE 0)
    BY <1>1, <1>4 DEF Lots, LotsIn, InMarket
  <2>4. /\ Paid(k)'[o] = (IF m = k THEN (order.filled + f) * c ELSE 0)
        /\ Paid(k)[o] = (IF m = k THEN order.filled * c ELSE 0)
    BY <1>1, <1>4 DEF Paid, PaidIn, InMarket
  <2>5. (order.filled + f) * c = order.filled * c + f * c
    <3>1. \A x, y, z \in Nat : (x + y) * z = x * z + y * z
      OBVIOUS
    <3> QED BY <1>2, <1>3, <3>1
  <2>6. Total(Lots(k)', n) = Total(Lots(k), n) + Lots(k)'[o] - Lots(k)[o]
    BY <1>1, <2>1, <2>2, TotalUpdate
  <2>7. Total(Paid(k)', n) = Total(Paid(k), n) + Paid(k)'[o] - Paid(k)[o]
    BY <1>1, <2>1, <2>2, TotalUpdate
  <2>8. Total(Lots(k), n) \in Int /\ Total(Paid(k), n) \in Int
    BY <1>1, <2>1, PrefixSumDef DEF Total
  <2>9. f * c \in Nat /\ order.filled * c \in Nat
    BY <1>2, <1>3, ProductNat
  <2>10. \A a, x, y \in Int : a + (x + y) - x = a + y /\ a + 0 - 0 = a
    OBVIOUS
  <2>11. CASE k = m
    <3>1. /\ Total(Lots(k)', n) = Total(Lots(k), n) + (order.filled + f) - order.filled
          /\ Total(Paid(k)', n)
                = Total(Paid(k), n) + (order.filled * c + f * c) - order.filled * c
      BY <2>3, <2>4, <2>5, <2>6, <2>7, <2>11
    <3> HIDE DEF order
    <3> QED BY <1>2, <1>3, <2>8, <2>9, <2>10, <2>11, <3>1
  <2>12. CASE k # m
    <3>1. /\ Total(Lots(k)', n) = Total(Lots(k), n) + 0 - 0
          /\ Total(Paid(k)', n) = Total(Paid(k), n) + 0 - 0
      BY <2>3, <2>4, <2>6, <2>7, <2>12
    <3> QED BY <2>8, <2>10, <2>12, <3>1
  <2> QED BY <2>11, <2>12
<1>7. ASSUME NEW k \in Markets
      PROVE  /\ SizeOf(k)' = Total(Lots(k)', n)
             /\ CostOf(k)' = Total(Paid(k)', n)
  <2>1. SizeOf(k) = Total(Lots(k), n) /\ CostOf(k) = Total(Paid(k), n)
    BY DEF PositionsAccountForFills, Lots, Paid
  <2> QED BY <1>5, <1>6, <2>1
<1> QED BY <1>4, <1>7 DEF PositionsAccountForFills, Lots, Paid

LEMMA NextFills ==
    ASSUME IInv, IInv', PositionsAccountForFills, Next
    PROVE  PositionsAccountForFills'
<1> DEFINE SameOrders == UNCHANGED open_orders
           SameSizes == \A m \in Markets : SizeOf(m)' = SizeOf(m) /\ CostOf(m)' = CostOf(m)
<1>1. ASSUME NEW m \in Markets, NEW s \in Sides, NEW p \in Prices, NEW q \in Sizes,
             CreateOrder(m, s, p, q)
      PROVE  PositionsAccountForFills'
  BY <1>1, CreateOrderFills
<1>2. ASSUME NEW o \in DOMAIN open_orders, NEW d \in Depths, NEW e \in BOOLEAN,
             TryFill(o, d, e)
      PROVE  PositionsAccountForFills'
  <2>1. o \in Nat /\ d \in Nat
    BY AmountsAssumption DEF AmountsAssumption, IInv, TypeOK
  <2> QED BY <1>2, <2>1, TryFillFills
<1>3. ASSUME NEW o \in DOMAIN open_orders, NEW st, ExpireOrder(o, st)
      PROVE  PositionsAccountForFills'
  <2>1. open_orders' = [open_orders EXCEPT ![o] = [@ EXCEPT !.status = st]]
    BY <1>3 DEF ExpireOrder
  <2>2. open_orders[o] \in PaperOrder
    BY DEF IInv, TypeOK
  <2>3. /\ DOMAIN open_orders' = DOMAIN open_orders /\ Len(open_orders') = Len(open_orders)
        /\ \A i \in DOMAIN open_orders :
              /\ open_orders'[i].market = open_orders[i].market
              /\ open_orders'[i].filled = open_orders[i].filled
              /\ open_orders'[i].limit_price = open_orders[i].limit_price
    BY <2>1, <2>2 DEF IInv, TypeOK, PaperOrder
  <2>4. SameSizes
    BY <1>3 DEF ExpireOrder, SizeOf, CostOf, HasPosition
  <2> QED BY <2>3, <2>4, FillsUntouched DEF IInv
<1>4. ASSUME NEW m \in Markets, NEW pnl \in Int, NEW status \in PositionStatus,
             HasPosition(m), UNCHANGED open_orders,
             \/ positions' = [positions EXCEPT ![m].status = status]
             \/ positions' = [positions EXCEPT ![m].pnl = pnl, ![m].status = status]
      PROVE  PositionsAccountForFills'
  <2>1. positions[m] \in PaperPosition
    BY <1>4 DEF HasPosition, IInv, TypeOK
  <2>2. /\ positions'[m].size = positions[m].size /\ positions'[m].cost = positions[m].cost
        /\ positions'[m] \in PaperPosition
        /\ \A k \in Markets : k # m => positions'[k] = positions[k]
    <3> DEFINE closed == [positions[m] EXCEPT !.pnl = pnl, !.status = status]
               moved == [positions[m] EXCEPT !.status = status]
    <3>1. /\ closed \in PaperPosition /\ closed.size = positions[m].size
          /\ closed.cost = positions[m].cost
          /\ moved \in PaperPosition /\ moved.size = positions[m].size
          /\ moved.cost = positions[m].cost
      BY <2>1 DEF PaperPosition
    <3>2. \/ positions' = [positions EXCEPT ![m] = moved]
          \/ positions' = [positions EXCEPT ![m] = closed]
      BY <1>4
    <3> HIDE DEF closed, moved
    <3> QED BY <3>1, <3>2 DEF IInv, TypeOK
  <2>3. positions'[m] # NoPosition
    BY <2>2, NoPositionAssumption DEF NoPositionAssumption
  <2>4. SameSizes
    BY <1>4, <2>2, <2>3 DEF SizeOf, CostOf, HasPosition
  <2> QED BY <1>4, <2>4, FillsUntouched DEF IInv
<1>5. ASSUME NEW m \in Markets, AwaitWinner(m) PROVE PositionsAccountForFills'
  <2>1. 0 \in Int /\ "PENDING_RESOLUTION" \in PositionStatus
    BY DEF PositionStatus
  <2>2. /\ HasPosition(m) /\ UNCHANGED open_orders
        /\ positions' = [positions EXCEPT ![m].status = "PENDING_RESOLUTION"]
    BY <1>5 DEF AwaitWinner
  <2> QED BY <1>4, <2>1, <2>2
<1>6. ASSUME NEW m \in Markets, HasPosition(m), NEW p \in Nat
      PROVE  positions[m].size * p \in Nat /\ positions[m].cost \in Nat
  <2>1. positions[m].size \in Nat /\ positions[m].cost \in Nat
    BY <1>6 DEF HasPosition, IInv, TypeOK, PaperPosition
  <2> QED BY <2>1, ProductNat
<1>7. ASSUME NEW m \in Markets, NEW w, SettleMarket(m, w) PROVE PositionsAccountForFills'
  <2> DEFINE pnl == PayoutOf(m, w) - positions[m].cost
             status == IF PayoutOf(m, w) > 0 THEN "WON" ELSE "LOST"
  <2>1. pnl \in Int
    BY <1>6, <1>7, AmountsAssumption DEF AmountsAssumption, SettleMarket, PayoutOf
  <2>2. /\ HasPosition(m) /\ UNCHANGED open_orders /\ status \in PositionStatus
        /\ positions' = [positions EXCEPT ![m].pnl = pnl, ![m].status = status]
    BY <1>7 DEF SettleMarket, PositionStatus
  <2> HIDE DEF pnl, status
  <2> QED BY <1>4, <2>1, <2>2
<1>8. ASSUME NEW m \in Markets, NEW p \in Prices, ClosePositionAtPrice(m, p)
      PROVE  PositionsAccountForFills'
  <2> DEFINE pnl == positions[m].size * p - positions[m].cost
             status == IF positions[m].size * p >= positions[m].cost THEN "WON" ELSE "LOST"
  <2>1. pnl \in Int
    BY <1>6, <1>8, AmountsAssumption DEF AmountsAssumption, ClosePositionAtPrice
  <2>2. /\ HasPosition(m) /\ UNCHANGED open_orders /\ status \in PositionStatus
        /\ positions' = [positions EXCEPT ![m].pnl = pnl, ![m].status = status]
    BY <1>8 DEF ClosePositionAtPrice, PositionStatus
  <2> HIDE DEF pnl, status
  <2> QED BY <1>4, <2>1, <2>2
<1> QED BY <1>1, <1>2, <1>3, <1>5, <1>7, <1>8 DEF Next

\* A position holds exactly the lots of its market's fills and cost exactly what
\* they cost, on both sides together, before and after it is closed.
THEOREM FillsAccountedFor == Spec => []PositionsAccountForFills
<1>1. Init => PositionsAccountForFills
  <2> SUFFICES ASSUME Init, NEW m \in Markets
               PROVE  /\ SizeOf(m) = Total(Lots(m), Len(open_orders))
                      /\ CostOf(m) = Total(Paid(m), Len(open_orders))
    BY DEF PositionsAccountForFills, Lots, Paid
  <2>1. Lots(m) \in [Nat -> Int] /\ Paid(m) \in [Nat -> Int]
    BY InitInv, FillsType DEF IInv
  <2>2. Len(open_orders) = 0 /\ SizeOf(m) = 0 /\ CostOf(m) = 0
    BY DEF Init, SizeOf, CostOf, HasPosition
  <2>3. Total(Lots(m), 0) = 0 /\ Total(Paid(m), 0) = 0
    BY <2>1, TotalEmpty
  <2> QED BY <2>2, <2>3
<1>2. PositionsAccountForFills /\ IInv /\ IInv' /\ [Next]_paper_vars
        => PositionsAccountForFills'
  <2> SUFFICES ASSUME PositionsAccountForFills, IInv, IInv', [Next]_paper_vars
               PROVE  PositionsAccountForFills'
    OBVIOUS
  <2>1. CASE UNCHANGED paper_vars
    BY <2>1, FillsUntouched DEF paper_vars, IInv, SizeOf, CostOf, HasPosition
  <2> QED BY <2>1, NextFills
<1> QED BY <1>1, <1>2, Invariance, PTL DEF Spec
=============================================================================
