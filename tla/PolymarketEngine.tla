-------------------------- MODULE PolymarketEngine --------------------------
(***************************************************************************)
(* The research engine of ToTheMoon (strategies/polymarket_engine): build  *)
(* the catalogue, download the price history of its tokens into one CSV    *)
(* file each, derive the candidates from the latest prices and backtest    *)
(* them in paper under the risk limits.  CsvStore appends to a file by     *)
(* reading it all and writing it all again.  Prices are in cents.          *)
(***************************************************************************)
EXTENDS Integers, Sequences, SequencesExt, FiniteSetsExt, Functions, Sums

CONSTANTS
    EngineTokens,
    RawCatalogs,        \* the sequences of market records Gamma may answer
    PriceHistories,     \* the sequences of points the CLOB may answer for a token
    BookSnapshots,      \* spread, best ask and staleness of a token's book
    NoSnapshot,
    IncoherenceThreshold, TailThreshold, MaxSpread,
    MaxPositionPerMarket, MaxGlobalExposure, MaxOpenPositions,
    MaxEngineRuns, MaxEngineCrashes     \* bounds

GammaRecord ==
    [id : STRING, event : STRING, slug : STRING, active : BOOLEAN,
     tokens : Seq([token : EngineTokens, outcome : STRING])]
PricePoint == [ts : Int, price : Int]

ASSUME EngineAssumption ==
    /\ IsFiniteSet(EngineTokens)
    /\ \A raw \in RawCatalogs : raw \in Seq(GammaRecord)
    /\ \A entries \in PriceHistories : entries \in Seq(PricePoint)
    /\ NoSnapshot \notin BookSnapshots /\ \A snapshot \in BookSnapshots : snapshot.ask \in Nat
    /\ MaxPositionPerMarket \in Nat /\ MaxGlobalExposure \in Nat /\ MaxOpenPositions \in Nat
    /\ MaxEngineRuns \in Nat /\ MaxEngineCrashes \in Nat

VARIABLES
    en_pc,
    en_catalog,     \* the tokens discovered: records of token, market, event, outcome
    en_tokens,      \* tokens still to download, or candidates still to test
    en_prices,      \* token -> the points collected by this run
    en_files,       \* token -> the points of its CSV file, in file order
    en_downloads,   \* ghost: token -> downloads begun
    en_portfolio,   \* token -> lots and cost
    en_snapshots,
    en_runs, en_crashes

en_vars == <<en_pc, en_catalog, en_tokens, en_prices, en_files, en_downloads, en_portfolio,
             en_snapshots, en_runs, en_crashes>>

EmptyPortfolio == [t \in EngineTokens |-> [lots |-> 0, cost |-> 0]]

EngineTypeOK ==
    /\ en_pc \in {"idle", "download", "writing", "backtest"}
    /\ \A row \in en_catalog : row.token \in EngineTokens
    /\ DOMAIN en_prices = EngineTokens /\ DOMAIN en_files = EngineTokens
    /\ en_downloads \in [EngineTokens -> 0 .. MaxEngineRuns]
    /\ en_portfolio \in [EngineTokens -> [lots : Nat, cost : Nat]]
    /\ en_runs \in 0 .. MaxEngineRuns /\ en_crashes \in 0 .. MaxEngineCrashes

EngineInit ==
    /\ en_pc = "idle" /\ en_catalog = {} /\ en_tokens = <<>>
    /\ en_prices = [t \in EngineTokens |-> <<>>]
    /\ en_files = [t \in EngineTokens |-> <<>>]
    /\ en_downloads = [t \in EngineTokens |-> 0]
    /\ en_portfolio = EmptyPortfolio
    /\ en_snapshots = [t \in EngineTokens |-> NoSnapshot]
    /\ en_runs = 0 /\ en_crashes = 0

-----------------------------------------------------------------------------
(* The catalogue *)

\* A closed market is kept; of two rows with the same id the later one counts.
Kept(market) == market.active /\ market.id # "" /\ market.event # "" /\ market.slug # ""

RowsOf(market) ==
    [j \in DOMAIN market.tokens |->
        [token |-> market.tokens[j].token, outcome |-> market.tokens[j].outcome,
         market |-> market.id, event |-> market.event]]

DiscoverCatalog(raw) ==
    LET listed == MembersAt(raw, {i \in DOMAIN raw : Kept(raw[i])})
        rows == FlattenSeq([i \in DOMAIN listed |-> RowsOf(listed[i])])
    IN  {rows[i] : i \in {n \in DOMAIN rows : \A k \in DOMAIN rows :
                              rows[k].token = rows[n].token => k <= n}}

DownloadCatalog ==
    /\ en_pc = "idle" /\ en_runs < MaxEngineRuns
    /\ \E raw \in RawCatalogs :
          /\ en_catalog' = DiscoverCatalog(raw)
          /\ en_tokens' = SetToSeq({row.token : row \in DiscoverCatalog(raw)})
    /\ en_pc' = "download" /\ en_runs' = en_runs + 1
    /\ en_prices' = [t \in EngineTokens |-> <<>>]
    /\ UNCHANGED <<en_files, en_downloads, en_portfolio, en_snapshots, en_crashes>>

-----------------------------------------------------------------------------
(* Price histories *)

\* Points without a time are left out.
ParsePriceHistory(entries) == MembersAt(entries, {i \in DOMAIN entries : entries[i].ts > 0})

\* Altered: the rows of one answer are not compared with each other.
NewRowsUnchecked(points) == points
\* unique_by compares the tuples of the file, which are text, with incoming ones
\* whose ts is an integer: only repetitions within one answer are recognised.
NewRows(points) ==
    MembersAt(points, {i \in DOMAIN points : \A k \in 1 .. i - 1 : points[k].ts # points[i].ts})

AppendRows(file, points) == file \o NewRows(points)

DownloadToken ==
    /\ en_pc = "download" /\ en_tokens # <<>>
    /\ LET t == Head(en_tokens)
       IN  \E entries \in PriceHistories :
              LET points == ParsePriceHistory(entries)
              IN  /\ en_files' = [en_files EXCEPT ![t] = AppendRows(@, points)]
                  /\ en_prices' = [en_prices EXCEPT ![t] = points]
                  /\ en_downloads' = [en_downloads EXCEPT ![t] = @ + 1]
    /\ en_pc' = "writing"
    /\ UNCHANGED <<en_catalog, en_tokens, en_portfolio, en_snapshots, en_runs, en_crashes>>

FileWritten ==
    /\ en_pc = "writing"
    /\ en_pc' = "download" /\ en_tokens' = Tail(en_tokens)
    /\ UNCHANGED <<en_catalog, en_prices, en_files, en_downloads, en_portfolio, en_snapshots, en_runs, en_crashes>>

EngineEnds ==
    /\ en_pc' = "idle" /\ en_catalog' = {} /\ en_tokens' = <<>>
    /\ en_prices' = [t \in EngineTokens |-> <<>>]
    /\ en_portfolio' = EmptyPortfolio
    /\ en_snapshots' = [t \in EngineTokens |-> NoSnapshot]
    /\ UNCHANGED <<en_downloads, en_runs>>

\* The files of the tokens already downloaded stay.
DownloadFails ==
    /\ en_pc = "download" /\ en_tokens # <<>>
    /\ EngineEnds /\ UNCHANGED <<en_files, en_crashes>>

\* A file being written keeps some of its first rows, the older ones included.
EngineCrash ==
    /\ en_pc # "idle" /\ en_crashes < MaxEngineCrashes
    /\ IF en_pc = "writing"
       THEN \E n \in 0 .. Len(en_files[Head(en_tokens)]) :
               en_files' = [en_files EXCEPT ![Head(en_tokens)] = SubSeq(@, 1, n)]
       ELSE UNCHANGED en_files
    /\ EngineEnds /\ en_crashes' = en_crashes + 1

-----------------------------------------------------------------------------
(* Candidates and backtest *)

\* The latest point; of two with the same time the one that comes later.
LatestPrice(t) ==
    LET points == en_prices[t]
        last == CHOOSE i \in DOMAIN points : \A k \in DOMAIN points :
                    points[k].ts < points[i].ts \/ (points[k].ts = points[i].ts /\ k <= i)
    IN  IF points = <<>> THEN -1 ELSE points[last].price

Families == {{row \in en_catalog : row.event = e.event /\ row.outcome = e.outcome} : e \in en_catalog}

IncoherenceFeatures ==
    {CHOOSE row \in family : \A other \in family : LatestPrice(other.token) <= LatestPrice(row.token) :
        family \in {f \in Families :
            LET observed == {LatestPrice(row.token) : row \in {r \in f : LatestPrice(r.token) >= 0}}
            IN  /\ Cardinality({r \in f : LatestPrice(r.token) >= 0}) >= 2
                /\ Max(observed) - Min(observed) >= IncoherenceThreshold}}

TailFeatures ==
    {row \in en_catalog : /\ LatestPrice(row.token) >= 0
                          /\ Max({LatestPrice(row.token), 100 - LatestPrice(row.token)}) >= TailThreshold}

\* Every token has been downloaded: the candidates are tested in turn, the
\* incoherent ones first.  A candidate buys its token whatever its side says.
StartBacktest ==
    /\ en_pc = "download" /\ en_tokens = <<>>
    /\ en_pc' = "backtest"
    /\ en_tokens' = SetToSeq(IncoherenceFeatures) \o SetToSeq(TailFeatures)
    /\ en_snapshots' \in [EngineTokens -> BookSnapshots \cup {NoSnapshot}]
    /\ UNCHANGED <<en_catalog, en_prices, en_files, en_downloads, en_portfolio, en_runs, en_crashes>>

Usable(snapshot) == snapshot # NoSnapshot /\ ~snapshot.stale /\ snapshot.spread <= MaxSpread

MarketOf(t) == (CHOOSE row \in en_catalog : row.token = t).market
HeldTokens == {t \in EngineTokens : en_portfolio[t].lots > 0}
MarketsHeld == {MarketOf(t) : t \in HeldTokens}
Outlays(account) == [t \in EngineTokens |-> account[t].cost]
ExposureOf(held) == SumFunctionOnSet(Outlays(en_portfolio), held)

\* Altered: a market is looked up by its token.
EvaluateRiskOfToken(order, price) ==
    /\ en_portfolio[order.token].cost + price <= MaxPositionPerMarket
    /\ ExposureOf(HeldTokens) + price <= MaxGlobalExposure
    /\ order.market \in MarketsHeld \/ Cardinality(MarketsHeld) < MaxOpenPositions
EvaluateRisk(order, price) ==
    /\ ExposureOf({t \in HeldTokens : MarketOf(t) = order.market}) + price <= MaxPositionPerMarket
    /\ ExposureOf(HeldTokens) + price <= MaxGlobalExposure
    /\ order.market \in MarketsHeld \/ Cardinality(MarketsHeld) < MaxOpenPositions

\* One lot at the best ask, filled at once.
TestCandidate ==
    /\ en_pc = "backtest" /\ en_tokens # <<>>
    /\ LET order == Head(en_tokens)
           snapshot == en_snapshots[order.token]
       IN  en_portfolio' =
              IF Usable(snapshot) /\ EvaluateRisk(order, snapshot.ask)
              THEN [en_portfolio EXCEPT ![order.token] =
                       [lots |-> @.lots + 1, cost |-> @.cost + snapshot.ask]]
              ELSE en_portfolio
    /\ en_tokens' = Tail(en_tokens)
    /\ UNCHANGED <<en_pc, en_catalog, en_prices, en_files, en_downloads, en_snapshots, en_runs, en_crashes>>

BacktestEnds ==
    /\ en_pc = "backtest" /\ en_tokens = <<>>
    /\ EngineEnds /\ UNCHANGED <<en_files, en_crashes>>

EngineNext ==
    \/ DownloadCatalog \/ DownloadToken \/ FileWritten \/ DownloadFails
    \/ StartBacktest \/ TestCandidate \/ BacktestEnds \/ EngineCrash

-----------------------------------------------------------------------------
(* Properties *)

\* The file of a token has a time once, "unique key (token_id, ts, interval)", and its
\* append "does not duplicate existing timestamps", as the notes on the engine ask.
PointsOnce ==
    \A t \in EngineTokens : \A i, j \in DOMAIN en_files[t] :
        en_files[t][i].ts = en_files[t][j].ts => i = j

\* What holds of the code instead: only another download of the token repeats a time,
\* whatever one answer repeats and wherever a crash tears the file.
PointsOncePerDownload ==
    \A t \in EngineTokens : \A i \in DOMAIN en_files[t] :
        Cardinality({k \in DOMAIN en_files[t] : en_files[t][k].ts = en_files[t][i].ts})
            <= en_downloads[t]

\* However many candidates of both kinds name the tokens of a market, what the
\* backtest holds stays within all three limits.
BacktestWithinLimits ==
    /\ ExposureOf(HeldTokens) <= MaxGlobalExposure
    /\ Cardinality(MarketsHeld) <= MaxOpenPositions
    /\ \A m \in MarketsHeld : ExposureOf({t \in HeldTokens : MarketOf(t) = m}) <= MaxPositionPerMarket
=============================================================================
