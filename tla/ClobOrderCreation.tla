-------------------------- MODULE ClobOrderCreation --------------------------
(***************************************************************************)
(* ClobClient.create_order and create_market_order (client.py): which      *)
(* rules of the market an order is signed under.  The tick size comes from *)
(* a cache with a time to live, the neg-risk flag and the fee rate from    *)
(* caches that never expire; the caller's arguments are written to, and    *)
(* may be used again after a failure.  The client holds a signer.          *)
(***************************************************************************)
EXTENDS Integers

CONSTANTS
    TickSizes, FeeRates,    \* what a market may have, in units of price and in bps
    CallerArguments,        \* what callers ask for; price 0 leaves it to the book
    BookPrices,             \* prices a book may give
    One,                    \* the price 1, in the same units
    NoTick, NoOrder, Unknown,
    Ttl,                    \* tick_size_ttl
    MaxTime, MaxMarketChanges   \* bounds

\* Every tick size divides 1; the time to live is positive (300 s by default).
ASSUME CreationAssumption ==
    /\ One \in Nat /\ Ttl \in Nat \ {0} /\ MaxTime \in Nat /\ MaxMarketChanges \in Nat
    /\ TickSizes \subseteq {tick \in 1 .. One : One % tick = 0} /\ NoTick \notin TickSizes
    /\ FeeRates \subseteq Nat /\ Unknown \notin FeeRates
    /\ CallerArguments \subseteq [price : 0 .. One, fee : FeeRates, tick : TickSizes \cup {NoTick},
                                  neg : BOOLEAN, market : BOOLEAN]

VARIABLES
    co_market,      \* the exchange's [tick, fee, neg] of the token
    co_tickAge,     \* ghost: tick -> time since the market last had it (MaxTime + 1: never)
    co_fees,        \* ghost: fee rates the market has had
    co_negs,        \* ghost: neg-risk flags the market has had
    co_tickCache,   \* [tick, age]
    co_negCache, co_feeCache,
    co_args,        \* the caller's order arguments and options
    co_pc,
    co_rules,       \* local: [least, tick, neg] resolved so far
    co_since,       \* ghost: time since the tick size was resolved
    co_signed,
    co_time, co_changes

co_vars == <<co_market, co_tickAge, co_fees, co_negs, co_tickCache, co_negCache, co_feeCache, co_args,
             co_pc, co_rules, co_since, co_signed, co_time, co_changes>>

exchangeSide == <<co_market, co_tickAge, co_fees, co_negs, co_time, co_changes>>

NoRules == [least |-> NoTick, tick |-> NoTick, neg |-> FALSE]
Uncached == [tick |-> NoTick, age |-> 0]

CreationTypeOK ==
    /\ co_market \in [tick : TickSizes, fee : FeeRates, neg : BOOLEAN]
    /\ co_tickAge \in [TickSizes -> 0 .. MaxTime + 1] /\ co_fees \in SUBSET FeeRates /\ co_negs \in SUBSET BOOLEAN
    /\ co_tickCache \in [tick : TickSizes \cup {NoTick}, age : 0 .. MaxTime]
    /\ co_negCache \in BOOLEAN \cup {Unknown} /\ co_feeCache \in FeeRates \cup {Unknown}
    /\ co_args \in [price : 0 .. One, fee : FeeRates, tick : TickSizes \cup {NoTick}, neg : BOOLEAN, market : BOOLEAN]
    /\ co_pc \in {"idle", "tick", "price", "neg", "fee", "sign"}
    /\ co_rules \in [least : TickSizes \cup {NoTick}, tick : TickSizes \cup {NoTick}, neg : BOOLEAN]
    /\ co_since \in 0 .. MaxTime /\ co_time \in 0 .. MaxTime /\ co_changes \in 0 .. MaxMarketChanges
    /\ co_signed = NoOrder \/ co_signed \in [tick : TickSizes, price : 1 .. One, fee : FeeRates, neg : BOOLEAN]

CreationInit ==
    /\ co_market \in [tick : TickSizes, fee : FeeRates, neg : BOOLEAN]
    /\ co_tickAge = [t \in TickSizes |-> IF t = co_market.tick THEN 0 ELSE MaxTime + 1]
    /\ co_fees = {co_market.fee} /\ co_negs = {co_market.neg}
    /\ co_tickCache = Uncached /\ co_negCache = Unknown /\ co_feeCache = Unknown
    /\ co_args \in CallerArguments
    /\ co_pc = "idle" /\ co_rules = NoRules /\ co_since = 0 /\ co_signed = NoOrder
    /\ co_time = 0 /\ co_changes = 0

-----------------------------------------------------------------------------
(* create_order, create_market_order *)

Raise ==
    /\ co_pc' = "idle" /\ co_rules' = NoRules /\ co_since' = 0
    /\ UNCHANGED <<exchangeSide, co_args, co_signed>>

Goes(step) ==
    /\ co_pc' = step
    /\ UNCHANGED <<exchangeSide, co_signed>>

\* A call with the arguments as they are: new ones, or those of a failed call.
CreateOrder ==
    /\ co_pc = "idle" /\ co_signed = NoOrder
    /\ Goes("tick")
    /\ UNCHANGED <<co_tickCache, co_negCache, co_feeCache, co_args, co_rules, co_since>>

TickCached == co_tickCache.tick # NoTick /\ co_tickCache.age < Ttl

Resolve(least) ==
    LET asked == co_args.tick
    IN  IF asked # NoTick /\ asked < least
        THEN Raise
        ELSE /\ co_rules' = [co_rules EXCEPT !.least = least, !.tick = IF asked = NoTick THEN least ELSE asked]
             /\ co_since' = 0
             /\ Goes("price") /\ UNCHANGED co_args

ResolveTickSize ==
    /\ co_pc = "tick"
    /\ IF TickCached
       THEN Resolve(co_tickCache.tick) /\ UNCHANGED co_tickCache
       ELSE Resolve(co_market.tick) /\ co_tickCache' = [tick |-> co_market.tick, age |-> 0]
    /\ UNCHANGED <<co_negCache, co_feeCache>>

\* _update_tick_size_from_order_book.  Altered: only the time is renewed.
BookRenewsAge == co_tickCache' = [tick |-> IF co_tickCache.tick = NoTick THEN co_market.tick ELSE co_tickCache.tick,
                                  age |-> 0]
BookRenewsTick == co_tickCache' = [tick |-> co_market.tick, age |-> 0]

\* The book is read after the tick size was resolved, and may have another one.
CalculateMarketPrice ==
    /\ co_pc = "price" /\ co_args.market /\ co_args.price = 0
    /\ BookRenewsTick
    /\ \/ Raise      \* no match
       \/ \E price \in BookPrices :
             /\ price % co_market.tick = 0 /\ price \in co_market.tick .. One - co_market.tick
             /\ co_args' = [co_args EXCEPT !.price = price]
             /\ Goes("price") /\ UNCHANGED <<co_rules, co_since>>
    /\ UNCHANGED <<co_negCache, co_feeCache>>

\* Altered: the tick size is not looked at.
PriceInsideUnit == co_args.price \in 1 .. One - 1
PriceValid == co_args.price \in co_rules.tick .. One - co_rules.tick

CheckPrice ==
    /\ co_pc = "price" /\ co_args.price # 0
    /\ IF PriceValid THEN Goes("neg") /\ UNCHANGED <<co_args, co_rules, co_since>> ELSE Raise
    /\ UNCHANGED <<co_tickCache, co_negCache, co_feeCache>>

\* A flag of the caller's is signed without asking the market.
\* Altered: the caller's flag is all that is signed.
NegOfCaller(asked, cached) == asked
NegSigned(asked, cached) == asked \/ cached = TRUE

ResolveNegRisk ==
    /\ co_pc = "neg"
    /\ LET asks == ~co_args.neg /\ co_negCache = Unknown
           cached == IF asks THEN co_market.neg ELSE co_negCache
       IN  /\ co_negCache' = cached
           /\ co_rules' = [co_rules EXCEPT !.neg = NegSigned(co_args.neg, cached)]
    /\ Goes("fee") /\ UNCHANGED <<co_args, co_since, co_tickCache, co_feeCache>>

\* Altered: the caller's rate is signed where the market has none.
FeeOfCaller(asked, market) == IF market = 0 THEN asked ELSE market
FeeSigned(asked, market) == market

ResolveFeeRate ==
    /\ co_pc = "fee"
    /\ LET market == IF co_feeCache = Unknown THEN co_market.fee ELSE co_feeCache
       IN  /\ co_feeCache' = market
           /\ IF market > 0 /\ co_args.fee > 0 /\ co_args.fee # market
              THEN Raise
              ELSE /\ co_args' = [co_args EXCEPT !.fee = FeeSigned(@, market)]
                   /\ Goes("sign") /\ UNCHANGED <<co_rules, co_since>>
    /\ UNCHANGED <<co_tickCache, co_negCache>>

\* round_normal to the digits of the tick size.
Rounded(price, tick) == {p \in {tick * (price \div tick), tick * (price \div tick) + tick} :
                            2 * (p - price) \in -tick .. tick}

SignOrder ==
    /\ co_pc = "sign" /\ co_pc' = "idle"
    /\ \E price \in Rounded(co_args.price, co_rules.tick) :
          co_signed' = [tick |-> co_rules.tick, price |-> price, fee |-> co_args.fee, neg |-> co_rules.neg]
    /\ co_rules' = NoRules /\ co_since' = 0
    /\ UNCHANGED <<exchangeSide, co_tickCache, co_negCache, co_feeCache, co_args>>

\* The request a missing or expired value asks for fails.
RulesRequestFails ==
    /\ \/ co_pc = "tick" /\ ~TickCached
       \/ co_pc = "price" /\ co_args.market /\ co_args.price = 0
       \/ co_pc = "neg" /\ ~co_args.neg /\ co_negCache = Unknown
       \/ co_pc = "fee" /\ co_feeCache = Unknown
    /\ Raise
    /\ UNCHANGED <<co_tickCache, co_negCache, co_feeCache>>

-----------------------------------------------------------------------------
(* Between the calls: new arguments, the other uses of the tick-size cache *)

NewArguments ==
    /\ co_pc = "idle"
    /\ co_args' \in CallerArguments
    /\ co_signed' = NoOrder
    /\ UNCHANGED <<exchangeSide, co_tickCache, co_negCache, co_feeCache, co_pc, co_rules, co_since>>

GetOrderBook ==
    /\ co_pc = "idle" /\ BookRenewsTick
    /\ UNCHANGED <<exchangeSide, co_negCache, co_feeCache, co_args, co_pc, co_rules, co_since, co_signed>>

ClearTickSizeCache ==
    /\ co_pc = "idle" /\ co_tickCache' = Uncached
    /\ UNCHANGED <<exchangeSide, co_negCache, co_feeCache, co_args, co_pc, co_rules, co_since, co_signed>>

\* The exchange changes the market's rules, and time passes.
MarketChanges ==
    /\ co_changes < MaxMarketChanges /\ co_changes' = co_changes + 1
    /\ \E market \in [tick : TickSizes, fee : FeeRates, neg : BOOLEAN] \ {co_market} :
          /\ co_market' = market
          /\ co_tickAge' = [co_tickAge EXCEPT ![market.tick] = 0]
          /\ co_fees' = co_fees \cup {market.fee} /\ co_negs' = co_negs \cup {market.neg}
    /\ UNCHANGED <<co_tickCache, co_negCache, co_feeCache, co_args, co_pc, co_rules, co_since, co_signed, co_time>>

Older(age) == IF age < MaxTime THEN age + 1 ELSE age

TimePasses ==
    /\ co_time < MaxTime /\ co_time' = co_time + 1
    /\ co_tickAge' = [t \in TickSizes |->
          IF t = co_market.tick THEN 0 ELSE IF co_tickAge[t] > MaxTime THEN co_tickAge[t] ELSE co_tickAge[t] + 1]
    /\ co_tickCache' = [co_tickCache EXCEPT !.age = IF co_tickCache.tick = NoTick THEN 0 ELSE Older(@)]
    /\ co_since' = IF co_rules.least = NoTick THEN 0 ELSE Older(co_since)
    /\ UNCHANGED <<co_market, co_fees, co_negs, co_negCache, co_feeCache, co_args, co_pc, co_rules, co_signed, co_changes>>

CreationNext ==
    \/ CreateOrder \/ ResolveTickSize \/ CalculateMarketPrice \/ CheckPrice
    \/ ResolveNegRisk \/ ResolveFeeRate \/ SignOrder \/ RulesRequestFails
    \/ NewArguments \/ GetOrderBook \/ ClearTickSizeCache
    \/ MarketChanges \/ TimePasses

-----------------------------------------------------------------------------
(* Property *)

\* The caller's tick size, no finer than the market's, or the market's.
TickAllowed(tick, least) == least <= tick /\ tick = IF co_args.tick = NoTick THEN least ELSE co_args.tick

\* The minimum tick size an order is validated against was the market's less
\* than the time to live before it was resolved, whatever refreshed the cache
\* in between, and the caller's may only be coarser.  The signed price is one of
\* the ticks strictly inside (0, 1); the signed tick size comes from one the market
\* has had; the signed fee is one the market has had, whatever the caller asked for;
\* and so is the signed neg-risk flag, unless the caller set it.
SignedUnderMarketRules ==
    /\ co_rules.least # NoTick =>
          co_tickAge[co_rules.least] < Ttl + co_since /\ TickAllowed(co_rules.tick, co_rules.least)
    /\ co_signed # NoOrder =>
          /\ co_signed.price % co_signed.tick = 0
          /\ co_signed.price \in co_signed.tick .. One - co_signed.tick
          /\ \E least \in TickSizes : co_tickAge[least] <= co_time /\ TickAllowed(co_signed.tick, least)
          /\ co_signed.fee \in co_fees
          /\ IF co_args.neg THEN co_signed.neg ELSE co_signed.neg \in co_negs
=============================================================================
