----------------------------- MODULE OrderAmounts -----------------------------
(***************************************************************************)
(* order_builder/builder.py: the amounts an order is signed with, and the  *)
(* price a market order takes from the book.  The code multiplies and      *)
(* divides floats; here a float is an integer count of fine units, off by  *)
(* less than Fine of them from the value it stands for.  With p price      *)
(* digits an amount has p + 2, and the rounding looks at four more:        *)
(*     1 = PriceScale prices = 100 * PriceScale amounts,                   *)
(*     1 amount = Guard * Fine fine units.                                 *)
(***************************************************************************)
EXTENDS Integers, Sequences, Functions

CONSTANTS
    PriceScale,     \* 10^p
    Guard,          \* 10^4
    Fine,
    AmountTokens,   \* token units in an amount
    MaxSize,        \* bound: sizes, in hundredths
    DepthBooks      \* one side of a book: [size, price], the best price last

ASSUME AmountsAssumption ==
    /\ PriceScale \in Nat \ {0, 1} /\ Guard \in Nat \ {0, 1} /\ Fine \in Nat \ {0, 1}
    /\ AmountTokens \in Nat \ {0} /\ MaxSize \in Nat
    /\ \A book \in DepthBooks : book \in Seq([size : Nat, price : Nat])

VARIABLES
    oa_order,   \* what is to be signed, or priced
    oa_result

oa_vars == <<oa_order, oa_result>>

NoOrderYet == [kind |-> "none"]
NoAmounts == [maker |-> 0, taker |-> 0]
NoMatch == 0

AmountsTypeOK ==
    /\ oa_order.kind \in {"none", "limit", "market", "price"}
    /\ oa_order.kind = "price" => oa_result \in Nat
    /\ oa_order.kind # "price" => oa_result \in [maker : Nat, taker : Nat]

-----------------------------------------------------------------------------
(* Rounding *)

UpToGuard(x) == (x + Fine - 1) \div Fine

\* Altered: the amount is rounded down at once.
AdjustDownOnly(x) == x \div (Guard * Fine)
\* Too many decimals: up to four digits more than an amount has, then down.
Adjust(x) == IF x % (Guard * Fine) = 0 THEN x \div (Guard * Fine) ELSE UpToGuard(x) \div Guard

\* round_down loses a hundredth when the size is stored short of its value.
RoundDown(size, short) == IF short THEN size - 1 ELSE size

Side(side, usdc, tokens) == IF side = "BUY" THEN [maker |-> usdc, taker |-> tokens]
                                            ELSE [maker |-> tokens, taker |-> usdc]

\* get_order_amounts; a market order to sell is computed the same way.
GetOrderAmounts(side, size, price, noise) ==
    Side(side, AmountTokens * Adjust(size * price * (Guard * Fine) + noise),
               AmountTokens * PriceScale * size)

\* get_market_order_amounts for BUY: the tokens are the amount divided by the price.
GetMarketBuyAmounts(amount, price, noise) ==
    Side("BUY", AmountTokens * PriceScale * amount,
                AmountTokens * Adjust((amount * PriceScale * PriceScale * Guard * Fine) \div price + noise))

-----------------------------------------------------------------------------
(* calculate_buy_market_price, calculate_sell_market_price *)

Weight(side, level) == IF side = "BUY" THEN level.size * level.price ELSE level.size

\* The levels are added one by one in floats: after k of them the sum is off its
\* value by error[k] fine units.
\* Altered: the worst levels are taken first.
DepthFromWorst(side, book, error) ==
    LET depth[k \in 0 .. Len(book)] ==
            IF k = 0 THEN 0 ELSE depth[k - 1] + Weight(side, book[k])
    IN  [k \in 1 .. Len(book) |-> Fine * depth[k] + error[k]]

Depth(side, book, error) ==
    LET depth[k \in 0 .. Len(book)] ==
            IF k = 0 THEN 0 ELSE depth[k - 1] + Weight(side, book[Len(book) - k + 1])
    IN  [k \in 1 .. Len(book) |-> Fine * depth[k] + error[k]]

\* A size alone is as it was read: the first sum of a sale has no error yet.
SumErrors(side, book) ==
    {error \in [1 .. Len(book) -> (1 - Fine) .. (Fine - 1)] : side = "SELL" /\ book # <<>> => error[1] = 0}

WalkMarketPrice(side, book, amount, fillOrKill, error) ==
    LET depth == Depth(side, book, error)
        reached == {k \in 1 .. Len(book) : depth[k] >= Fine * amount}
    IN  CASE reached # {} -> book[Len(book) + 1 - CHOOSE k \in reached : \A j \in reached : k <= j].price
          [] reached = {} /\ (book = <<>> \/ fillOrKill) -> NoMatch
          [] OTHER -> book[1].price

-----------------------------------------------------------------------------
(* The builder keeps nothing from one order to the next: one is enough *)

AmountsInit == oa_order = NoOrderYet /\ oa_result = NoAmounts

SignLimitOrder ==
    /\ oa_order = NoOrderYet
    /\ \E side \in {"BUY", "SELL"}, size \in 1 .. MaxSize, price \in 1 .. PriceScale - 1,
          short \in BOOLEAN, noise \in (1 - Fine) .. (Fine - 1) :
          LET kept == RoundDown(size, short)
          IN  /\ kept * price * (Guard * Fine) + noise >= 0
              /\ oa_order' = [kind |-> "limit", side |-> side, size |-> size, price |-> price]
              /\ oa_result' = GetOrderAmounts(side, kept, price, noise)

SignMarketBuy ==
    /\ oa_order = NoOrderYet
    /\ \E size \in 1 .. MaxSize, price \in 1 .. PriceScale - 1,
          short \in BOOLEAN, noise \in (1 - Fine) .. (Fine - 1) :
          LET kept == RoundDown(size, short)
          IN  /\ (kept * PriceScale * PriceScale * Guard * Fine) \div price + noise >= 0
              /\ oa_order' = [kind |-> "market", side |-> "BUY", size |-> size, price |-> price]
              /\ oa_result' = GetMarketBuyAmounts(kept, price, noise)

PriceFromBook ==
    /\ oa_order = NoOrderYet
    /\ \E side \in {"BUY", "SELL"}, book \in DepthBooks, amount \in 1 .. MaxSize, fillOrKill \in BOOLEAN :
       \E error \in SumErrors(side, book) :
          /\ oa_order' = [kind |-> "price", side |-> side, book |-> book, size |-> amount, fillOrKill |-> fillOrKill]
          /\ oa_result' = WalkMarketPrice(side, book, amount, fillOrKill, error)

AmountsNext == SignLimitOrder \/ SignMarketBuy \/ PriceFromBook

AmountsSpec == AmountsInit /\ [][AmountsNext]_oa_vars

-----------------------------------------------------------------------------
(* Properties *)

Usdc == IF oa_order.side = "BUY" THEN oa_result.maker ELSE oa_result.taker
Shares == IF oa_order.side = "BUY" THEN oa_result.taker ELSE oa_result.maker

\* The amounts of a limit order stand in the ratio of its price exactly,
\* whatever the floats do, for the size asked or a hundredth less.
LimitOrderAtItsPrice ==
    oa_order.kind = "limit" =>
        /\ Usdc * PriceScale = Shares * oa_order.price
        /\ \E size \in {oa_order.size, oa_order.size - 1} : Shares = AmountTokens * PriceScale * size

\* A market order to buy spends what was asked or a hundredth less, and the
\* shares it asks for are worth that at its price to within one amount, never
\* more than two guard digits above it.
MarketBuyWithinAnAmount ==
    oa_order.kind = "market" =>
        \E size \in {oa_order.size, oa_order.size - 1} :
            LET exact == AmountTokens * size * PriceScale * PriceScale
            IN  /\ oa_result.maker = AmountTokens * PriceScale * size
                /\ Shares * oa_order.price * Guard <= exact * Guard + 2 * AmountTokens * oa_order.price
                /\ (Shares + AmountTokens) * oa_order.price > exact

SignedAmountsAtPrice == LimitOrderAtItsPrice /\ MarketBuyWithinAnAmount

Better(side, a, b) == IF side = "BUY" THEN a < b ELSE a > b
Reach(side, book, levels) == SumFunctionOnSet([k \in DOMAIN book |-> Weight(side, book[k])], levels)
BestLast(side, book) ==
    \A i, j \in DOMAIN book : i < j => Better(side, book[j].price, book[i].price)

\* The price taken from a book sorted towards its best price is one of its levels:
\* the levels down to it reach the amount and those before it do not reach beyond
\* it.  When the book holds exactly the amount the float sum decides, and a
\* fill-or-kill order may get no price; when it holds less there is none for it.
PriceReachesAmount ==
    oa_order.kind = "price" /\ BestLast(oa_order.side, oa_order.book) =>
        LET side == oa_order.side
            book == oa_order.book
            held == Reach(side, book, DOMAIN book)
            ReachesHere ==
                /\ \E k \in DOMAIN book : oa_result = book[k].price
                /\ Reach(side, book, {k \in DOMAIN book : ~Better(side, oa_result, book[k].price)}) >= oa_order.size
                /\ Reach(side, book, {k \in DOMAIN book : Better(side, book[k].price, oa_result)}) <= oa_order.size
        IN  CASE book # <<>> /\ held > oa_order.size -> ReachesHere
              [] book # <<>> /\ held = oa_order.size -> ReachesHere \/ (oa_order.fillOrKill /\ oa_result = NoMatch)
              [] OTHER -> oa_result = IF book = <<>> \/ oa_order.fillOrKill THEN NoMatch ELSE book[1].price

\* What an order is signed with is what was asked, at the price asked; what a
\* market order is priced at is what the book shows for its amount, to within the
\* error of a float sum.
AmountsAndPrices == SignedAmountsAtPrice /\ PriceReachesAmount
=============================================================================
