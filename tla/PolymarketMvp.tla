---------------------------- MODULE PolymarketMvp ----------------------------
(***************************************************************************)
(* ToTheMoon's MVP library (strategies/polymarket_mvp/core.py), used as its *)
(* HOWTO does: markets are parsed from their questions and grouped, a group *)
(* is scored for prices that contradict each other and a market for a dear  *)
(* tail, and a signal becomes a paper trade that is settled later.          *)
(*                                                                         *)
(* Probabilities, prices and spreads are per cent; times are half days.     *)
(***************************************************************************)
EXTENDS Integers, Sequences, SequencesExt, FiniteSets

CONSTANTS
    PvRawLists,         \* lists of raw markets the caller can hold
    PvBooks,            \* MarketState of a token: [mid, last, ask, spread, depth, age]
    PvUnderlyings,      \* UnderlyingState: [age, volatile, far] of a market
    PvFairs, PvSamples, \* empirical probabilities and their sample sizes
    PvNows,             \* now_ts at which markets are parsed
    PvExpiryWindow,     \* expiry_window_hours
    PvTtl, PvMaxSpread, PvMinDepth, PvMinEdge, PvMinLiquidity,
    PvMinBucket, PvMinPremium, PvMaxSkew,   \* StrategyThresholds
    PvMaxNotional, PvFeeBps,
    PvNone

Optional(S) == S \cup {PvNone}
Million == 1000 * 1000

\* What a question says: its words, and its numbers in order, each as it is written,
\* with its thousands set apart or not, and the unit (1, k, m) that follows; `about'
\* is the one the market is about.
Number == [written : 0 .. 1000 * Million - 1, grouped : BOOLEAN, unit : Nat]
Question == [words : SUBSET STRING, numbers : Seq(Number), about : Nat]
RawQuestions ==
    [id : Nat, question : Question, expiry : Int, tokens : SUBSET STRING,
     underlying : Optional(STRING), status : STRING]
MarketState ==
    [mid : Optional(Nat), last : Optional(Nat), ask : Nat, spread : Nat, depth : Nat, age : Nat]

\* A list has a market once, as Gamma lists them.  The thresholds are positive, as
\* StrategyThresholds sets them; min_liquidity_score (0.25) is below half.
ASSUME MvpAssumption ==
    /\ \A raws \in PvRawLists :
          raws \in Seq(RawQuestions) /\ \A i, j \in DOMAIN raws : raws[i].id = raws[j].id => i = j
    /\ PvBooks \subseteq MarketState /\ PvFairs \subseteq Int /\ PvNows \subseteq Int
    /\ PvExpiryWindow \in Nat \ {0} /\ PvMaxSpread \in Nat \ {0} /\ PvMinDepth \in Nat \ {0}
    /\ PvMinEdge \in Nat \ {0} /\ PvMinLiquidity \in 0 .. 50 /\ PvTtl \in Nat
    /\ PvMaxNotional \in Nat /\ PvFeeBps \in Nat
    /\ PvNone \notin PvBooks \cup Int

VARIABLES
    pv_pc,
    pv_markets,     \* MarketDefinitions, parsed
    pv_live,        \* live_state: market -> MarketState of its YES token, or PvNone
    pv_signals,     \* candidates returned
    pv_scored,      \* groups scored for incoherence
    pv_trade,       \* the trade entered on the last signal, or PvNone
    pv_result       \* its ResolutionRecord, or PvNone

pv_vars == <<pv_pc, pv_markets, pv_live, pv_signals, pv_scored, pv_trade, pv_result>>

Ascending == {"reach_up", "close_above"}
Descending == {"dip_down", "close_below"}
SupportedOperators == Ascending \cup Descending \cup {"range_between"}

MarketDefinition ==
    [id : Nat, question : Question, operator : SupportedOperators, underlying : STRING,
     strike : Nat, expiry : Int,
     bucket : {"intraday", "1d-3d", "4d-7d", ">7d"}]
SignalCandidate == [alpha : {"incoherence", "tail"}, market : MarketDefinition, edge : Int]
PaperTrade == [market : MarketDefinition, alpha : {"incoherence", "tail"}, qty : Nat \ {0}, cost : Nat]
ResolutionRecord == [payout : Nat, pnl : Int]

MvpTypeOK ==
    /\ pv_pc \in {"parse", "observe", "score", "traded", "settled"}
    /\ pv_markets \subseteq MarketDefinition
    /\ DOMAIN pv_live = pv_markets /\ \A m \in pv_markets : pv_live[m] \in PvBooks \cup {PvNone}
    /\ pv_signals \subseteq SignalCandidate /\ \A s \in pv_signals : s.market \in pv_markets
    /\ pv_scored \subseteq SUBSET pv_markets
    /\ pv_trade = PvNone \/ pv_trade \in PaperTrade
    /\ pv_result = PvNone \/ pv_result \in ResolutionRecord

MvpInit ==
    /\ pv_pc = "parse" /\ pv_markets = {} /\ pv_live = [m \in {} |-> PvNone]
    /\ pv_signals = {} /\ pv_scored = {} /\ pv_trade = PvNone /\ pv_result = PvNone

-----------------------------------------------------------------------------
(* Parsing and grouping *)

\* _infer_operator_type: the first of these the question speaks of.
OperatorWords ==
    <<<<"between", "range_between">>, <<"reach", "reach_up">>, <<"dip", "dip_down">>,
      <<"close above", "close_above">>, <<"close below", "close_below">>>>
InferOperatorType(words) ==
    LET spoken == {i \in DOMAIN OperatorWords : OperatorWords[i][1] \in words}
    IN IF spoken = {} THEN PvNone
       ELSE OperatorWords[CHOOSE i \in spoken : \A j \in spoken : i <= j][2]

BucketizeExpiry(tenor) ==
    IF tenor <= 2 THEN "intraday" ELSE IF tenor <= 6 THEN "1d-3d" ELSE IF tenor <= 14 THEN "4d-7d" ELSE ">7d"

\* _extract_strike: the first number of the question.  Its expression takes up to three
\* digits and the groups of three set apart by commas after them: of a longer number
\* written without commas it takes the first three digits, and it leaves the unit.
Scales == {10, 100, 1000, 10 * 1000, 100 * 1000, Million}
LeadingDigits(written) == CHOOSE digits \in 100 .. 999 : \E scale \in Scales : digits = written \div scale
\* Altered: the commas are dropped before the number is looked for.
DigitsUngrouped(number) == IF number.written < 1000 THEN number.written ELSE LeadingDigits(number.written)
DigitsRead(number) ==
    IF number.grouped \/ number.written < 1000 THEN number.written ELSE LeadingDigits(number.written)

ExtractStrike(question) == IF question.numbers = <<>> THEN PvNone ELSE DigitsRead(question.numbers[1])

\* A range has a strike of 0 when the question names none.
Eligible(raw) ==
    /\ InferOperatorType(raw.question.words) # PvNone
    /\ ExtractStrike(raw.question) # PvNone \/ InferOperatorType(raw.question.words) = "range_between"
    /\ raw.tokens = {"YES", "NO"}
    /\ raw.underlying # PvNone
    /\ raw.status \in {"active", "open"}

StrikeOf(question) == IF ExtractStrike(question) = PvNone THEN 0 ELSE ExtractStrike(question)

ParseMarketDefinition(raw, now) ==
    [id |-> raw.id, question |-> raw.question, operator |-> InferOperatorType(raw.question.words),
     underlying |-> raw.underlying, strike |-> StrikeOf(raw.question),
     expiry |-> raw.expiry, bucket |-> BucketizeExpiry(raw.expiry - now)]

GroupId(market) ==
    <<market.underlying, market.operator, market.bucket, market.expiry \div PvExpiryWindow>>
BuildRelatedGroups(markets) ==
    {{m \in markets : GroupId(m) = id} : id \in {GroupId(m) : m \in markets}}

ParseMarkets(raws, now) ==
    /\ pv_pc = "parse"
    /\ pv_markets' = {ParseMarketDefinition(raw, now) : raw \in {r \in ToSet(raws) : Eligible(r)}}
    /\ pv_live' = [m \in pv_markets' |-> PvNone]
    /\ pv_pc' = "observe"
    /\ UNCHANGED <<pv_signals, pv_scored, pv_trade, pv_result>>

ObserveBooks(books) ==
    /\ pv_pc = "observe"
    /\ pv_live' = books /\ pv_pc' = "score"
    /\ UNCHANGED <<pv_markets, pv_signals, pv_scored, pv_trade, pv_result>>

-----------------------------------------------------------------------------
(* Scoring *)

Clamp01(value) == IF value < 0 THEN 0 ELSE IF value > 100 THEN 100 ELSE value

ReferenceProbability(book) ==
    LET fresh == book # PvNone /\ book.age <= PvTtl /\ book.depth >= PvMinDepth
    IN IF fresh /\ book.spread <= PvMaxSpread /\ book.mid # PvNone THEN Clamp01(book.mid)
       ELSE IF fresh /\ book.last # PvNone THEN Clamp01(book.last)
       ELSE PvNone

LiquidityScore(book) ==
    LET spread == 100 - (100 * book.spread) \div PvMaxSpread
        depth == (100 * book.depth) \div PvMinDepth
    IN ((IF spread < 0 THEN 0 ELSE spread) + (IF depth > 100 THEN 100 ELSE depth)) \div 2

MonotonicViolation(operator, lower, higher) ==
    LET gap == CASE operator \in Ascending -> higher - lower
                 [] operator \in Descending -> lower - higher
                 [] OTHER -> 0
    IN IF gap < 0 THEN 0 ELSE gap

\* The strikes of a group in order.
Below(x, y) ==
    \/ x.strike < y.strike
    \/ x.strike = y.strike /\ x.expiry < y.expiry
    \/ x.strike = y.strike /\ x.expiry = y.expiry /\ x.id < y.id
Neighbours(group) ==
    {p \in group \X group : Below(p[1], p[2]) /\ ~\E m \in group : Below(p[1], m) /\ Below(m, p[2])}

FeeCost(book) == (PvFeeBps * book.ask) \div 10000

\* Altered: what it costs to cross the spread is not deducted.
GrossEdge(violation, book) == violation - FeeCost(book)
EdgeAfterCost(violation, book) == violation - book.spread - FeeCost(book)

\* The candidates of one pair of neighbours: one or none.
PairSignals(lower, higher) ==
    LET p == ReferenceProbability(pv_live[lower])
        q == ReferenceProbability(pv_live[higher])
        dear == IF lower.operator \in Ascending THEN higher ELSE lower
        edge == EdgeAfterCost(MonotonicViolation(lower.operator, p, q), pv_live[dear])
        found == /\ PvNone \notin {p, q}
                 /\ edge >= PvMinEdge /\ LiquidityScore(pv_live[dear]) >= PvMinLiquidity
    IN IF found THEN {[alpha |-> "incoherence", market |-> dear, edge |-> edge]} ELSE {}

ScoreRelatedMarketIncoherence(group) ==
    /\ pv_pc = "score" /\ group \notin pv_scored
    /\ pv_signals' = pv_signals \cup UNION {PairSignals(p[1], p[2]) : p \in Neighbours(group)}
    /\ pv_scored' = pv_scored \cup {group}
    /\ UNCHANGED <<pv_pc, pv_markets, pv_live, pv_trade, pv_result>>

\* The candidates' z-distance reaches the threshold when the underlying is `far'.
TailPremiumFound(market, underlying, fair, sample) ==
    LET book == pv_live[market]
        reference == ReferenceProbability(book)
        skew == IF book.age > underlying.age THEN book.age - underlying.age ELSE underlying.age - book.age
    IN /\ reference # PvNone
       /\ sample >= PvMinBucket
       /\ skew <= PvMaxSkew
       /\ underlying.volatile /\ underlying.far
       /\ reference - fair >= PvMinPremium
       /\ LiquidityScore(book) >= PvMinLiquidity

\* Bound: one tail is scored.
ScoreTailPremium(market, underlying, fair, sample) ==
    /\ pv_pc = "score" /\ \A s \in pv_signals : s.alpha # "tail"
    /\ TailPremiumFound(market, underlying, fair, sample)
    /\ pv_signals' = pv_signals \cup
           {[alpha |-> "tail", market |-> market,
             edge |-> ReferenceProbability(pv_live[market]) - fair]}
    /\ UNCHANGED <<pv_pc, pv_markets, pv_live, pv_scored, pv_trade, pv_result>>

-----------------------------------------------------------------------------
(* Trading *)

Quantity(book) ==
    LET affordable == PvMaxNotional \div book.ask
    IN IF book.depth < affordable THEN book.depth ELSE affordable

\* The trade is for NO, at the ask of the book it is given: the HOWTO gives the
\* YES token's, the tests the NO token's.
SimulateEntry(signal, book) ==
    /\ pv_pc = "score" /\ signal \in pv_signals
    /\ book.ask > 0 /\ book.depth > 0 /\ Quantity(book) > 0
    /\ LET notional == Quantity(book) * book.ask
       IN pv_trade' = [market |-> signal.market, alpha |-> signal.alpha, qty |-> Quantity(book),
                       cost |-> notional + (notional * PvFeeBps) \div 10000]
    /\ pv_pc' = "traded"
    /\ UNCHANGED <<pv_markets, pv_live, pv_signals, pv_scored, pv_result>>

SettleTrade(label) ==
    /\ pv_pc = "traded"
    /\ LET payout == IF label = "NO" THEN 100 * pv_trade.qty ELSE 0
       IN pv_result' = [payout |-> payout, pnl |-> payout - pv_trade.cost]
    /\ pv_pc' = "settled"
    /\ UNCHANGED <<pv_markets, pv_live, pv_signals, pv_scored, pv_trade>>

MvpNext ==
    \/ \E raws \in PvRawLists, now \in PvNows : ParseMarkets(raws, now)
    \/ \E books \in [pv_markets -> PvBooks \cup {PvNone}] : ObserveBooks(books)
    \/ \E group \in BuildRelatedGroups(pv_markets) : ScoreRelatedMarketIncoherence(group)
    \/ \E m \in pv_markets, u \in PvUnderlyings, fair \in PvFairs, sample \in PvSamples :
          ScoreTailPremium(m, u, fair, sample)
    \/ \E signal \in pv_signals, book \in PvBooks : SimulateEntry(signal, book)
    \/ \E label \in {"YES", "NO"} : SettleTrade(label)

-----------------------------------------------------------------------------
(* What a signal is worth *)

\* x is implied by y: with y's level reached, so is x's.
LikelierAt(x, y, levelOfX, levelOfY) ==
    /\ x.underlying = y.underlying /\ x.operator = y.operator
    /\ IF x.operator \in Ascending THEN levelOfX <= levelOfY
       ELSE x.operator \in Descending /\ levelOfY <= levelOfX

\* By the strikes that were read, and by the levels the questions are about.
MustBeLikelier(x, y) == LikelierAt(x, y, x.strike, y.strike)
LevelNamed(question) == question.numbers[question.about].written * question.numbers[question.about].unit
NamedLikelier(x, y) == LikelierAt(x, y, LevelNamed(x.question), LevelNamed(y.question))

\* A question whose level is its first number, in full and with its thousands set apart.
PlainlyAsked(question) ==
    /\ question.numbers # <<>> /\ question.about = 1
    /\ question.numbers[1].unit = 1
    /\ question.numbers[1].grouped \/ question.numbers[1].written < 1000

\* The prices of the two contradict each other by enough to pay for the spread, the
\* fee and the edge, and they expire less than a window apart.
TooDearBeside(market, other) ==
    /\ other.expiry - market.expiry < PvExpiryWindow
    /\ market.expiry - other.expiry < PvExpiryWindow
    /\ ReferenceProbability(pv_live[other]) # PvNone
    /\ ReferenceProbability(pv_live[market]) - ReferenceProbability(pv_live[other])
         >= PvMinEdge + pv_live[market].spread + FeeCost(pv_live[market])

\* A market is called too dear only beside one that must be likelier by the strikes
\* read from the two questions, and is yet cheaper; if both ask plainly, the levels
\* they are about say so too.
IncoherenceJustified ==
    \A s \in pv_signals : s.alpha = "incoherence" =>
        \E other \in pv_markets :
            /\ TooDearBeside(s.market, other) /\ MustBeLikelier(other, s.market)
            /\ PlainlyAsked(s.market.question) /\ PlainlyAsked(other.question)
                 => NamedLikelier(other, s.market)

\* Only neighbours are compared, and that is enough: a contradiction between any
\* two strikes of a priced group is found when it is as large as what each step
\* between them may hide.
NothingHidesInSteps ==
    \A group \in pv_scored :
        LET priced == \A m \in group : ReferenceProbability(pv_live[m]) # PvNone
            hidden == {PvMinEdge + pv_live[m].spread + FeeCost(pv_live[m]) : m \in group}
            worst == CHOOSE h \in hidden : \A k \in hidden : k <= h
        IN priced =>
             \A x, y \in group :
                /\ MustBeLikelier(x, y) /\ x.strike # y.strike
                /\ ReferenceProbability(pv_live[y]) - ReferenceProbability(pv_live[x])
                     >= (Cardinality(group) - 1) * worst
                => \E s \in pv_signals : s.alpha = "incoherence" /\ s.market \in group

\* A trade's id is its alpha, its market and the millisecond: two signals of one
\* scoring never share it.
OneSignalPerMarket ==
    \A s, t \in pv_signals : s.alpha = t.alpha /\ s.market.id = t.market.id => s = t

\* The liquidity score rejects nothing: a market with a reference probability is
\* deep enough for half of the score, which is more than the threshold.
LiquidityNeverDecides ==
    \A m \in pv_markets :
        ReferenceProbability(pv_live[m]) # PvNone => LiquidityScore(pv_live[m]) >= PvMinLiquidity

\* A trade cannot lose more than the notional allowed for it and the fee on it.
LossWithinNotional ==
    pv_result # PvNone => pv_result.pnl >= -(PvMaxNotional + (PvMaxNotional * PvFeeBps) \div 10000)

MvpSignals ==
    /\ IncoherenceJustified /\ NothingHidesInSteps /\ OneSignalPerMarket
    /\ LiquidityNeverDecides /\ LossWithinNotional
=============================================================================
