-------------------------- MODULE Mvp1MarketMaker --------------------------
(***************************************************************************)
(* The paper market maker of ToTheMoon (strategies/mvp1_market_maker).  A  *)
(* cycle quotes both sides of every eligible market: each order is stored  *)
(* as RESTING, tested for a fill once against the snapshot it was made     *)
(* from, and stored again as FILLED.  Positions and the global inventory   *)
(* live in the memory of one process, the rows in SQLite.  Bid, ask and    *)
(* last trade are in ticks of a hundredth, quotes in half ticks.           *)
(***************************************************************************)
EXTENDS Integers, Sequences, FiniteSets, SequencesExt, FiniteSetsExt, Functions

CONSTANTS
    Pairs,                  \* market ids
    RawMarkets,             \* rows the discovery may be given
    Books,                  \* books it may be given: bid, ask, last, updates
    Absent,                 \* a price that is missing
    MaxInventory,           \* max_inventory_per_market
    MaxGlobalInventory,
    MaxFillsPerSide,
    MinSpread, QuoteOffset, \* in ticks
    MinUpdates,             \* min_book_updates
    RowsPerCycle,           \* bound: rows given to a cycle
    MaxFilled,              \* bound: fills in the database
    MaxLaunches, MaxRepeats \* bounds

PairLots == [YES : 0 .. MaxFillsPerSide, NO : 0 .. MaxFillsPerSide]

ASSUME MarketMakerAssumption ==
    /\ IsFiniteSet(Pairs) /\ \A row \in RawMarkets : row.market \in Pairs
    /\ Absent \notin Books \cup PairLots
    /\ MaxInventory \in Nat /\ MaxGlobalInventory \in Nat /\ MaxFillsPerSide \in Nat
    /\ RowsPerCycle \in Nat /\ MaxLaunches \in Nat /\ MaxRepeats \in Nat

VARIABLES
    mm_pc,
    mm_queue,       \* markets of this cycle still to quote, the first one being quoted
    mm_book, mm_side,
    mm_positions,   \* market -> lots held of each side, or Absent
    mm_inventory,   \* global_inventory
    mm_resolved,    \* ghost: markets resolved in this process
    mm_fills,       \* market -> fill rows in the database
    mm_unmarked,    \* order rows still RESTING although a fill row exists
    mm_launches, mm_repeats, mm_crashes

mm_memory == <<mm_positions, mm_inventory, mm_resolved>>
mm_rows == <<mm_fills, mm_unmarked>>
mm_vars == <<mm_pc, mm_queue, mm_book, mm_side, mm_memory, mm_rows, mm_launches, mm_repeats, mm_crashes>>

NoLots == [YES |-> 0, NO |-> 0]
Exposure(position) == position.YES + position.NO

MarketMakerTypeOK ==
    /\ mm_pc \in {"idle", "ready", "market", "side", "placed", "filled"}
    /\ mm_queue \in Seq(Pairs) /\ (mm_pc \in {"side", "placed", "filled"} => mm_queue # <<>>)
    /\ mm_book \in Books \cup {Absent}
    /\ mm_side \in {"YES", "NO"}
    /\ mm_positions \in [Pairs -> PairLots \cup {Absent}]
    /\ mm_inventory \in Nat /\ mm_resolved \subseteq Pairs
    /\ mm_fills \in [Pairs -> Nat] /\ mm_unmarked \in Nat
    /\ mm_launches \in 0 .. MaxLaunches /\ mm_repeats \in 0 .. MaxRepeats

MarketMakerInit ==
    /\ mm_pc = "idle" /\ mm_queue = <<>> /\ mm_book = Absent /\ mm_side = "YES"
    /\ mm_positions = [m \in Pairs |-> Absent] /\ mm_inventory = 0 /\ mm_resolved = {}
    /\ mm_fills = [m \in Pairs |-> 0] /\ mm_unmarked = 0
    /\ mm_launches = 0 /\ mm_repeats = 0 /\ mm_crashes = 0

\* A new process: a bot with empty memory on the same database.
StartMarketMaker ==
    /\ mm_pc = "idle" /\ mm_launches < MaxLaunches
    /\ mm_pc' = "ready" /\ mm_launches' = mm_launches + 1
    /\ UNCHANGED <<mm_queue, mm_book, mm_side, mm_memory, mm_rows, mm_repeats, mm_crashes>>

MarketMakerGone ==
    /\ mm_pc' = "idle" /\ mm_queue' = <<>> /\ mm_book' = Absent /\ mm_side' = "YES"
    /\ mm_positions' = [m \in Pairs |-> Absent] /\ mm_inventory' = 0 /\ mm_resolved' = {}
    /\ UNCHANGED <<mm_rows, mm_launches, mm_repeats>>

MarketMakerEnds == mm_pc = "ready" /\ MarketMakerGone /\ UNCHANGED mm_crashes
MarketMakerCrash == mm_pc \notin {"idle", "ready"} /\ MarketMakerGone /\ mm_crashes' = mm_crashes + 1

-----------------------------------------------------------------------------
(* run_cycle *)

IsEligible(row) == row.crypto /\ row.seconds = 300 /\ row.active /\ row.accepting /\ ~row.resolved

RunCycle ==
    /\ mm_pc = "ready"
    /\ \E eligible \in SeqOf({row \in RawMarkets : IsEligible(row)}, RowsPerCycle) :
          mm_queue' = [i \in DOMAIN eligible |-> eligible[i].market]
    /\ mm_pc' = "market"
    /\ UNCHANGED <<mm_book, mm_side, mm_memory, mm_rows, mm_launches, mm_repeats, mm_crashes>>

CycleEnds ==
    /\ mm_pc = "market" /\ mm_queue = <<>>
    /\ mm_pc' = "ready"
    /\ UNCHANGED <<mm_queue, mm_book, mm_side, mm_memory, mm_rows, mm_launches, mm_repeats, mm_crashes>>

Market == Head(mm_queue)
Position == IF mm_positions[Market] = Absent THEN NoLots ELSE mm_positions[Market]

\* The decision, but for the clock and the spot price, which may always deny it.
QuoteAllowed(book) ==
    /\ book.updates >= MinUpdates
    /\ book.bid # Absent /\ book.ask # Absent
    /\ book.ask - book.bid >= MinSpread
    /\ Exposure(Position) < MaxInventory

\* market, snapshot and decision are stored; the position exists from now on.
DenyQuote ==
    /\ mm_pc = "market" /\ mm_queue # <<>>
    /\ mm_positions' = [mm_positions EXCEPT ![Market] = Position]
    /\ mm_queue' = Tail(mm_queue)
    /\ UNCHANGED <<mm_pc, mm_book, mm_side, mm_inventory, mm_resolved, mm_rows, mm_launches, mm_repeats, mm_crashes>>

AllowQuote ==
    /\ mm_pc = "market" /\ mm_queue # <<>>
    /\ \E book \in Books : QuoteAllowed(book) /\ mm_book' = book
    /\ mm_positions' = [mm_positions EXCEPT ![Market] = Position]
    /\ mm_pc' = "side" /\ mm_side' = "YES"
    /\ UNCHANGED <<mm_queue, mm_inventory, mm_resolved, mm_rows, mm_launches, mm_repeats, mm_crashes>>

Quote(side) ==
    LET fair == mm_book.bid + mm_book.ask
    IN  Max({0, Min({200, (IF side = "YES" THEN fair ELSE 200 - fair) - 2 * QuoteOffset})})

\* Altered: a position in another market does not count.
RiskGateOfMarket(side) ==
    /\ Exposure(Position) < MaxInventory
    /\ Exposure(Position) < MaxGlobalInventory
    /\ Position[side] < MaxFillsPerSide
RiskGate(side) ==
    /\ Exposure(Position) < MaxInventory
    /\ mm_inventory < MaxGlobalInventory
    /\ Position[side] < MaxFillsPerSide

NextSide ==
    IF mm_side = "YES"
    THEN mm_pc' = "side" /\ mm_side' = "NO" /\ UNCHANGED <<mm_queue, mm_book>>
    ELSE mm_pc' = "market" /\ mm_side' = "YES" /\ mm_queue' = Tail(mm_queue) /\ mm_book' = Absent

RefuseSide ==
    /\ mm_pc = "side" /\ ~RiskGate(mm_side)
    /\ NextSide
    /\ UNCHANGED <<mm_memory, mm_rows, mm_launches, mm_repeats, mm_crashes>>

\* Both sides are compared with the prices of the YES book.
ShouldFill(side, price) ==
    LET touched(p) == p # Absent /\ 2 * p <= price
    IN  touched(mm_book.last) \/ touched(IF side = "YES" THEN mm_book.ask ELSE mm_book.bid)

\* An order that does not fill at once stays RESTING and is never looked at again.
PlaceResting ==
    /\ mm_pc = "side" /\ RiskGate(mm_side) /\ ~ShouldFill(mm_side, Quote(mm_side))
    /\ NextSide
    /\ UNCHANGED <<mm_memory, mm_rows, mm_launches, mm_repeats, mm_crashes>>

PlaceFilling ==
    /\ mm_pc = "side" /\ RiskGate(mm_side) /\ ShouldFill(mm_side, Quote(mm_side))
    /\ mm_pc' = "placed"
    /\ UNCHANGED <<mm_queue, mm_book, mm_side, mm_memory, mm_rows, mm_launches, mm_repeats, mm_crashes>>

SaveFill ==
    /\ mm_pc = "placed" /\ MapThenSumSet(LAMBDA m : mm_fills[m], Pairs) < MaxFilled
    /\ mm_pc' = "filled"
    /\ mm_fills' = [mm_fills EXCEPT ![Market] = @ + 1]
    /\ mm_unmarked' = mm_unmarked + 1
    /\ UNCHANGED <<mm_queue, mm_book, mm_side, mm_memory, mm_launches, mm_repeats, mm_crashes>>

\* Altered: the filled order is not stored again when it completes the inventory.
ApplyLastFillUnmarked ==
    /\ mm_pc = "filled"
    /\ mm_positions' = [mm_positions EXCEPT ![Market] = [Position EXCEPT ![mm_side] = @ + 1]]
    /\ mm_inventory' = mm_inventory + 1
    /\ mm_unmarked' = IF mm_inventory' = MaxGlobalInventory THEN mm_unmarked ELSE mm_unmarked - 1
    /\ NextSide
    /\ UNCHANGED <<mm_resolved, mm_fills, mm_launches, mm_repeats, mm_crashes>>
ApplyFill ==
    /\ mm_pc = "filled"
    /\ mm_positions' = [mm_positions EXCEPT ![Market] = [Position EXCEPT ![mm_side] = @ + 1]]
    /\ mm_inventory' = mm_inventory + 1
    /\ mm_unmarked' = mm_unmarked - 1
    /\ NextSide
    /\ UNCHANGED <<mm_resolved, mm_fills, mm_launches, mm_repeats, mm_crashes>>

\* resolve_market: the position stays as it is, so a second call gives its
\* exposure back a second time.
ResolveMarket(m) ==
    /\ mm_pc = "ready" /\ mm_positions[m] # Absent
    /\ m \in mm_resolved => mm_repeats < MaxRepeats
    /\ mm_inventory' = Max({0, mm_inventory - Exposure(mm_positions[m])})
    /\ mm_resolved' = mm_resolved \cup {m}
    /\ mm_repeats' = mm_repeats + IF m \in mm_resolved THEN 1 ELSE 0
    /\ UNCHANGED <<mm_pc, mm_queue, mm_book, mm_side, mm_positions, mm_rows, mm_launches, mm_crashes>>

MarketMakerNext ==
    \/ StartMarketMaker \/ MarketMakerEnds \/ MarketMakerCrash
    \/ RunCycle \/ CycleEnds \/ DenyQuote \/ AllowQuote
    \/ RefuseSide \/ PlaceResting \/ PlaceFilling \/ SaveFill \/ ApplyFill
    \/ \E m \in Pairs : ResolveMarket(m)

-----------------------------------------------------------------------------
(* Properties *)

LotsOf(m) == IF mm_positions[m] = Absent THEN 0 ELSE Exposure(mm_positions[m])
LotsHeld == [m \in Pairs |-> IF m \in mm_resolved THEN 0 ELSE LotsOf(m)]

\* What one process holds in unresolved markets stays within the global limit,
\* but for what repeated resolutions gave back twice; and since a restart
\* forgets every position, the fills stored of a market stay within its limit
\* only once per launch.
InventoryLimits ==
    /\ SumFunctionOnSet(LotsHeld, Pairs) <= MaxGlobalInventory + mm_repeats * MaxInventory
    /\ \A m \in Pairs : mm_fills[m] <= mm_launches * MaxInventory

\* Every fill row belongs to an order row marked FILLED, but for one at most for
\* each crash, which can only fall between save_fill and the second save_order.
FillsAreMarked == mm_unmarked <= mm_crashes + IF mm_pc = "filled" THEN 1 ELSE 0
=============================================================================
