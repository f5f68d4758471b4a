-------------------------- MODULE MarketMakerProofs --------------------------
(***************************************************************************)
(* Theorems about ToTheMoon's MVP market maker and about MM001, as parts   *)
(* of Programs, for every value of the constants the assumptions allow.    *)
(*                                                                         *)
(* The invariant of the MVP market maker says what its risk gate found     *)
(* while an order is on its way, and that a market's fill rows are those   *)
(* of earlier launches and of the position held now.  MM001's counts the   *)
(* rows its log still lacks; that its quotes are safe and its cycles win   *)
(* follows from the quotes of NO mirroring those of YES.                   *)
(*                                                                         *)
(* The last theorem collects the types of all ten programs: none of them  *)
(* is inductive alone, each is a part of its program's invariant.          *)
(***************************************************************************)
EXTENDS ProgramsProofs, TalicRuntimeProofs

-----------------------------------------------------------------------------
(* MVP market maker: the marks of its fills *)

FillsCounted ==
    /\ mm_unmarked \in Nat /\ mm_crashes \in Nat
    /\ mm_pc = "filled" => mm_unmarked > 0
    /\ FillsAreMarked

LEMMA FillsStep ==
    ASSUME FillsCounted, [MarketMakerNext]_mm_vars
    PROVE  FillsCounted'
<1> USE DEF FillsCounted, FillsAreMarked, mm_memory, mm_rows
<1>1. CASE StartMarketMaker
  BY <1>1 DEF StartMarketMaker
<1>2. CASE MarketMakerEnds
  BY <1>2 DEF MarketMakerEnds, MarketMakerGone
<1>3. CASE MarketMakerCrash
  BY <1>3 DEF MarketMakerCrash, MarketMakerGone
<1>4. CASE RunCycle \/ CycleEnds \/ DenyQuote \/ AllowQuote
  BY <1>4 DEF RunCycle, CycleEnds, DenyQuote, AllowQuote
<1>5. CASE RefuseSide \/ PlaceResting
  BY <1>5 DEF RefuseSide, PlaceResting, NextSide
<1>6. CASE PlaceFilling
  BY <1>6 DEF PlaceFilling
<1>7. CASE SaveFill
  BY <1>7 DEF SaveFill
<1>8. CASE ApplyFill
  BY <1>8 DEF ApplyFill, NextSide
<1>9. CASE \E m \in Pairs : ResolveMarket(m)
  BY <1>9 DEF ResolveMarket
<1>10. CASE UNCHANGED mm_vars
  BY <1>10 DEF mm_vars
<1> QED
  BY <1>1, <1>2, <1>3, <1>4, <1>5, <1>6, <1>7, <1>8, <1>9, <1>10 DEF MarketMakerNext

\* However many markets the MVP market maker quotes and however often it is
\* restarted, at most one order for each crash stays RESTING beside its fill row.
THEOREM FillsMarked == ProgramsSpec => []FillsAreMarked
<1>1. ProgramsInit => FillsCounted
  BY DEF ProgramsInit, MarketMakerInit, FillsCounted, FillsAreMarked
<1>2. FillsCounted /\ [ProgramsNext]_program_vars => FillsCounted'
  BY StepOfEach, FillsStep
<1>3. FillsCounted => FillsAreMarked
  BY DEF FillsCounted
<1> QED BY <1>1, <1>2, <1>3, PTL DEF ProgramsSpec

-----------------------------------------------------------------------------
(* MVP market maker: its limits *)

\* Between the risk gate and the fill nothing else runs, so what the gate found
\* still holds; and what the database has of a market are the fills of earlier
\* launches and the position of this one.
MakerHolds ==
    /\ MarketMakerTypeOK
    /\ mm_inventory <= MaxGlobalInventory
    /\ \A m \in Pairs : LotsOf(m) <= MaxInventory
    /\ mm_pc \in {"side", "placed", "filled"} => mm_positions[Market] # Absent
    /\ mm_pc \in {"placed", "filled"} => RiskGate(mm_side)
    /\ SumFunctionOnSet(LotsHeld, Pairs) <= mm_inventory + mm_repeats * MaxInventory
    /\ mm_pc # "idle" => mm_launches >= 1
    /\ mm_pc = "filled" => mm_unmarked > 0
    /\ \A m \in Pairs :
          /\ mm_pc = "idle" => mm_fills[m] <= mm_launches * MaxInventory
          /\ mm_pc # "idle" =>
                mm_fills[m] <= (mm_launches - 1) * MaxInventory + LotsOf(m)
                                  + IF mm_pc = "filled" /\ m = Market THEN 1 ELSE 0

LEMMA MakerNumbers ==
    /\ IsFiniteSet(Pairs) /\ MaxInventory \in Nat /\ MaxGlobalInventory \in Nat
    /\ MaxFillsPerSide \in Nat /\ MaxLaunches \in Nat /\ MaxRepeats \in Nat
    /\ NoLots \in PairLots /\ Exposure(NoLots) = 0
    /\ Absent \notin PairLots /\ Absent \notin Books
    /\ \A position \in PairLots : Exposure(position) \in Nat
    /\ \A n \in Nat : n * MaxInventory \in Nat /\ (n + 1) * MaxInventory = n * MaxInventory + MaxInventory
<1>1. /\ IsFiniteSet(Pairs) /\ MaxInventory \in Nat /\ MaxGlobalInventory \in Nat
      /\ MaxFillsPerSide \in Nat /\ MaxLaunches \in Nat /\ MaxRepeats \in Nat
      /\ Absent \notin PairLots /\ Absent \notin Books
  BY MarketMakerAssumption DEF MarketMakerAssumption
<1>2. NoLots \in PairLots /\ Exposure(NoLots) = 0
  BY <1>1 DEF NoLots, PairLots, Exposure
<1>3. \A position \in PairLots : Exposure(position) \in Nat
  BY <1>1 DEF PairLots, Exposure
<1>4. \A n \in Nat : n * MaxInventory \in Nat /\ (n + 1) * MaxInventory = n * MaxInventory + MaxInventory
  BY <1>1
<1> QED BY <1>1, <1>2, <1>3, <1>4

LEMMA LotsTyped ==
    ASSUME mm_positions \in [Pairs -> PairLots \cup {Absent}]
    PROVE  /\ \A m \in Pairs : LotsOf(m) \in Nat /\ LotsHeld[m] \in Nat
           /\ \A m \in Pairs : LotsHeld[m] = IF m \in mm_resolved THEN 0 ELSE LotsOf(m)
           /\ Summable(LotsHeld, Pairs) /\ SumFunctionOnSet(LotsHeld, Pairs) \in Int
<1>1. \A m \in Pairs : LotsOf(m) \in Nat
  BY MakerNumbers DEF LotsOf
<1>2. \A m \in Pairs : LotsHeld[m] = IF m \in mm_resolved THEN 0 ELSE LotsOf(m)
  BY DEF LotsHeld
<1>3. Summable(LotsHeld, Pairs)
  BY <1>1, <1>2, MakerNumbers DEF Summable
<1>4. SumFunctionOnSet(LotsHeld, Pairs) \in Int
  BY <1>3, SetSumDef
<1>5. \A m \in Pairs : LotsHeld[m] \in Nat
  BY <1>1, <1>2
<1> QED BY <1>1, <1>2, <1>3, <1>4, <1>5

LEMMA MakerInit == MarketMakerInit => MakerHolds
<1> SUFFICES ASSUME MarketMakerInit PROVE MakerHolds
  OBVIOUS
<1>1. MarketMakerTypeOK
  BY MakerNumbers DEF MarketMakerInit, MarketMakerTypeOK
<1>2. \A m \in Pairs : LotsOf(m) = 0
  BY DEF MarketMakerInit, LotsOf
<1>3. SumFunctionOnSet(LotsHeld, Pairs) = 0
  <2>1. Summable(LotsHeld, Pairs) /\ \A m \in Pairs : LotsHeld[m] = 0
    BY <1>1, <1>2, LotsTyped DEF MarketMakerTypeOK
  <2> QED BY <2>1, SetSumZero
<1>4. 0 * MaxInventory = 0
  BY MakerNumbers
<1> QED BY <1>1, <1>2, <1>3, <1>4, MakerNumbers DEF MarketMakerInit, MakerHolds

LEMMA PositivePart == ASSUME NEW x \in Int PROVE Max({0, x}) \in Nat /\ Max({0, x}) >= x /\ Max({0, x}) \in {0, x}
<1>1. \E y \in {0, x} : \A z \in {0, x} : y >= z
  OBVIOUS
<1>2. Max({0, x}) \in {0, x} /\ \A z \in {0, x} : Max({0, x}) >= z
  BY <1>1 DEF Max
<1> QED BY <1>2

\* What the database has of a market is within its limit once per launch.
LEMMA FillsLimited ==
    ASSUME MakerHolds, NEW m \in Pairs
    PROVE  mm_fills[m] <= mm_launches * MaxInventory
<1>1. MarketMakerTypeOK /\ mm_launches \in Nat
  BY MakerNumbers DEF MakerHolds, MarketMakerTypeOK
<1>2. CASE mm_pc = "idle"
  BY <1>2 DEF MakerHolds
<1>3. CASE mm_pc # "idle"
  <2> DEFINE before == (mm_launches - 1) * MaxInventory
             lots == LotsOf(m)
             flying == IF mm_pc = "filled" /\ m = Market THEN 1 ELSE 0
  <2>1. /\ mm_fills[m] \in Nat /\ lots \in Nat /\ lots <= MaxInventory
        /\ mm_fills[m] <= before + lots + flying
    BY <1>1, <1>3, LotsTyped DEF MakerHolds, MarketMakerTypeOK
  <2>2. before \in Nat /\ mm_launches * MaxInventory = before + MaxInventory
    <3>1. mm_launches - 1 \in Nat /\ (mm_launches - 1) + 1 = mm_launches
      BY <1>1, <1>3 DEF MakerHolds
    <3> QED BY <3>1, MakerNumbers
  <2>3. lots + flying <= MaxInventory
    <3>1. CASE mm_pc = "filled" /\ m = Market
      <4>1. Exposure(Position) < MaxInventory /\ mm_positions[Market] # Absent
        BY <3>1 DEF MakerHolds, RiskGate
      <4>2. lots = Exposure(Position)
        BY <3>1, <4>1 DEF LotsOf, Position
      <4> HIDE DEF lots
      <4> QED BY <2>1, <3>1, <4>1, <4>2, MakerNumbers
    <3>2. CASE ~(mm_pc = "filled" /\ m = Market)
      BY <2>1, <3>2
    <3> QED BY <3>1, <3>2
  <2> HIDE DEF lots, before, flying
  <2>4. flying \in {0, 1}
    BY DEF flying
  <2> QED BY <2>1, <2>2, <2>3, <2>4, MakerNumbers
<1> QED BY <1>2, <1>3

\* A process ends or crashes: its memory is gone, its rows stay.
LEMMA GoneKeepsMaker == MakerHolds /\ (MarketMakerEnds \/ MarketMakerCrash) => MakerHolds'
<1> SUFFICES ASSUME MakerHolds, MarketMakerEnds \/ MarketMakerCrash PROVE MakerHolds'
  OBVIOUS
<1>1. /\ MarketMakerTypeOK /\ mm_pc # "idle" /\ mm_pc' = "idle" /\ mm_queue' = <<>> /\ mm_book' = Absent
      /\ mm_side' = "YES" /\ mm_positions' = [m \in Pairs |-> Absent] /\ mm_inventory' = 0
      /\ mm_resolved' = {} /\ UNCHANGED <<mm_fills, mm_unmarked, mm_launches, mm_repeats>>
  BY DEF MakerHolds, MarketMakerEnds, MarketMakerCrash, MarketMakerGone, mm_rows
<1>2. MarketMakerTypeOK'
  BY <1>1, MakerNumbers DEF MarketMakerTypeOK
<1>3. \A m \in Pairs : LotsOf(m)' = 0
  BY <1>1 DEF LotsOf
<1>4. SumFunctionOnSet(LotsHeld', Pairs) = 0
  <2>1. \A m \in Pairs : LotsHeld'[m] = 0
    BY <1>3 DEF LotsHeld
  <2>2. Summable(LotsHeld', Pairs)
    BY <2>1, MakerNumbers DEF Summable
  <2> QED BY <2>1, <2>2, SetSumZero
<1>5. mm_launches \in Nat /\ mm_launches >= 1 /\ mm_repeats \in Nat /\ mm_repeats * MaxInventory \in Nat
  BY <1>1, MakerNumbers DEF MakerHolds, MarketMakerTypeOK
<1>6. \A m \in Pairs : mm_fills'[m] <= mm_launches' * MaxInventory
  BY <1>1, FillsLimited
<1>7. mm_inventory' <= MaxGlobalInventory /\ \A m \in Pairs : LotsOf(m)' <= MaxInventory
  BY <1>1, <1>3, MakerNumbers
<1>8. SumFunctionOnSet(LotsHeld', Pairs) <= mm_inventory' + mm_repeats' * MaxInventory
  BY <1>1, <1>4, <1>5
<1> QED BY <1>1, <1>2, <1>6, <1>7, <1>8 DEF MakerHolds

LEMMA QueueFacts ==
    ASSUME mm_queue \in Seq(Pairs)
    PROVE  mm_queue # <<>> => Market \in Pairs /\ Tail(mm_queue) \in Seq(Pairs)
BY DEF Market

LEMMA NextSideTyped ==
    ASSUME MarketMakerTypeOK, mm_queue # <<>>, NextSide
    PROVE  /\ mm_queue' \in Seq(Pairs) /\ mm_book' \in Books \cup {Absent} /\ mm_side' \in {"YES", "NO"}
           /\ (mm_pc' = "side" /\ mm_queue' = mm_queue) \/ mm_pc' = "market"
BY QueueFacts DEF MarketMakerTypeOK, NextSide

\* A step that leaves the lots and the rows alone.
LEMMA LotsKept ==
    ASSUME MakerHolds, MarketMakerTypeOK', \A m \in Pairs : LotsOf(m)' = LotsOf(m),
           mm_launches >= 1, mm_pc # "idle", mm_pc' \notin {"idle", "filled"}, mm_pc # "filled",
           mm_pc' \in {"side", "placed"} => mm_positions'[Market'] # Absent,
           mm_pc' = "placed" => RiskGate(mm_side)',
           UNCHANGED <<mm_inventory, mm_resolved, mm_fills, mm_launches, mm_repeats>>
    PROVE  MakerHolds'
<1>1. LotsHeld' = LotsHeld
  BY DEF LotsHeld
<1>2. \A m \in Pairs : mm_fills[m] <= (mm_launches - 1) * MaxInventory + LotsOf(m) + 0
  BY DEF MakerHolds
<1> QED BY <1>1, <1>2 DEF MakerHolds

LEMMA QuoteKeepsMaker ==
    MakerHolds /\ (RunCycle \/ CycleEnds \/ DenyQuote \/ AllowQuote) => MakerHolds'
<1> SUFFICES ASSUME MakerHolds, RunCycle \/ CycleEnds \/ DenyQuote \/ AllowQuote PROVE MakerHolds'
  OBVIOUS
<1>1. /\ MarketMakerTypeOK /\ mm_pc \in {"ready", "market"} /\ mm_launches >= 1
      /\ UNCHANGED <<mm_inventory, mm_resolved, mm_fills, mm_unmarked, mm_launches, mm_repeats>>
  BY DEF MakerHolds, RunCycle, CycleEnds, DenyQuote, AllowQuote, mm_memory, mm_rows
<1>2. CASE RunCycle
  <2>1. mm_pc' = "market" /\ UNCHANGED <<mm_book, mm_side, mm_positions>>
    BY <1>2 DEF RunCycle, mm_memory
  <2>2. mm_queue' \in Seq(Pairs)
    <3> DEFINE rows == {row \in RawMarkets : IsEligible(row)}
    <3>1. PICK eligible \in SeqOf(rows, RowsPerCycle) :
             mm_queue' = [i \in DOMAIN eligible |-> eligible[i].market]
      BY <1>2 DEF RunCycle
    <3>2. \A row \in rows : row.market \in Pairs
      BY MarketMakerAssumption DEF MarketMakerAssumption
    <3> HIDE DEF rows
    <3>3. PICK n \in 0 .. RowsPerCycle : eligible \in [1 .. n -> rows]
      BY <3>1 DEF SeqOf
    <3>4. n \in Nat
      BY MarketMakerAssumption DEF MarketMakerAssumption
    <3>5. mm_queue' \in [1 .. n -> Pairs]
      BY <3>1, <3>2, <3>3
    <3> QED BY <3>4, <3>5
  <2>3. MarketMakerTypeOK'
    BY <1>1, <2>1, <2>2 DEF MarketMakerTypeOK
  <2> QED BY <1>1, <2>1, <2>3, LotsKept DEF LotsOf
<1>3. CASE CycleEnds
  <2>1. mm_pc' = "ready" /\ UNCHANGED <<mm_queue, mm_book, mm_side, mm_positions>>
    BY <1>3 DEF CycleEnds, mm_memory
  <2>2. MarketMakerTypeOK'
    BY <1>1, <2>1 DEF MarketMakerTypeOK
  <2> QED BY <1>1, <2>1, <2>2, LotsKept DEF LotsOf
<1>4. CASE DenyQuote \/ AllowQuote
  <2>1. /\ mm_pc = "market" /\ mm_queue # <<>>
        /\ mm_positions' = [mm_positions EXCEPT ![Market] = Position]
        /\ \/ mm_pc' = "market" /\ mm_queue' = Tail(mm_queue) /\ mm_book' = mm_book /\ mm_side' = mm_side
           \/ mm_pc' = "side" /\ mm_queue' = mm_queue /\ mm_book' \in Books /\ mm_side' = "YES"
    BY <1>4 DEF DenyQuote, AllowQuote
  <2>2. Market \in Pairs /\ Tail(mm_queue) \in Seq(Pairs)
    BY <1>1, <2>1, QueueFacts DEF MarketMakerTypeOK
  <2>3. /\ mm_positions \in [Pairs -> PairLots \cup {Absent}]
        /\ Position \in PairLots
        /\ mm_positions[Market] = Absent => Position = NoLots
        /\ mm_positions[Market] # Absent => Position = mm_positions[Market]
    BY <1>1, <2>2, MakerNumbers DEF MarketMakerTypeOK, Position
  <2>4. /\ mm_positions' \in [Pairs -> PairLots \cup {Absent}] /\ mm_positions'[Market] = Position
        /\ \A m \in Pairs : m # Market => mm_positions'[m] = mm_positions[m]
    BY <2>1, <2>2, <2>3
  <2>5. ASSUME NEW m \in Pairs PROVE LotsOf(m)' = LotsOf(m)
    BY <2>3, <2>4, MakerNumbers DEF LotsOf
  <2>6. MarketMakerTypeOK'
    BY <1>1, <2>1, <2>2, <2>4 DEF MarketMakerTypeOK
  <2>7. mm_pc' = "side" => mm_positions'[Market'] # Absent
    BY <2>1, <2>3, <2>4, MakerNumbers DEF Market
  <2>8. mm_pc' \in {"side", "market"}
    BY <2>1
  <2> QED BY <1>1, <2>1, <2>5, <2>6, <2>7, <2>8, LotsKept
<1> QED BY <1>2, <1>3, <1>4

LEMMA SideKeepsMaker ==
    MakerHolds /\ (RefuseSide \/ PlaceResting \/ PlaceFilling) => MakerHolds'
<1> SUFFICES ASSUME MakerHolds, RefuseSide \/ PlaceResting \/ PlaceFilling PROVE MakerHolds'
  OBVIOUS
<1>1. /\ MarketMakerTypeOK /\ mm_pc = "side" /\ mm_queue # <<>> /\ mm_launches >= 1
      /\ mm_positions[Market] # Absent
      /\ UNCHANGED <<mm_positions, mm_inventory, mm_resolved, mm_fills, mm_unmarked, mm_launches, mm_repeats>>
  BY DEF MakerHolds, MarketMakerTypeOK, RefuseSide, PlaceResting, PlaceFilling, mm_memory, mm_rows
<1>2. \A m \in Pairs : LotsOf(m)' = LotsOf(m)
  BY <1>1 DEF LotsOf
<1>3. CASE RefuseSide \/ PlaceResting
  <2>1. NextSide
    BY <1>3 DEF RefuseSide, PlaceResting
  <2>2. /\ mm_queue' \in Seq(Pairs) /\ mm_book' \in Books \cup {Absent} /\ mm_side' \in {"YES", "NO"}
        /\ (mm_pc' = "side" /\ mm_queue' = mm_queue) \/ mm_pc' = "market"
    BY <1>1, <2>1, NextSideTyped
  <2>3. MarketMakerTypeOK'
    BY <1>1, <2>2 DEF MarketMakerTypeOK
  <2>4. mm_pc' = "side" => mm_positions'[Market'] # Absent
    BY <1>1, <2>2 DEF Market
  <2>5. mm_pc' \in {"side", "market"}
    BY <2>2
  <2> QED BY <1>1, <1>2, <2>3, <2>4, <2>5, LotsKept
<1>4. CASE PlaceFilling
  <2>1. /\ RiskGate(mm_side) /\ mm_pc' = "placed"
        /\ UNCHANGED <<mm_queue, mm_book, mm_side>>
    BY <1>4 DEF PlaceFilling
  <2>2. MarketMakerTypeOK'
    BY <1>1, <2>1 DEF MarketMakerTypeOK
  <2>3. RiskGate(mm_side)' /\ mm_positions'[Market'] # Absent
    BY <1>1, <2>1 DEF RiskGate, Position, Market
  <2> QED BY <1>1, <1>2, <2>1, <2>2, <2>3, LotsKept
<1> QED BY <1>3, <1>4

LEMMA SaveKeepsMaker == MakerHolds /\ SaveFill => MakerHolds'
<1> SUFFICES ASSUME MakerHolds, SaveFill PROVE MakerHolds'
  OBVIOUS
<1>1. /\ MarketMakerTypeOK /\ mm_pc = "placed" /\ mm_pc' = "filled" /\ mm_queue # <<>>
      /\ RiskGate(mm_side) /\ mm_positions[Market] # Absent
      /\ mm_unmarked \in Nat
      /\ mm_fills' = [mm_fills EXCEPT ![Market] = @ + 1] /\ mm_unmarked' = mm_unmarked + 1
      /\ UNCHANGED <<mm_queue, mm_book, mm_side, mm_positions, mm_inventory, mm_resolved, mm_launches, mm_repeats>>
  BY DEF MakerHolds, MarketMakerTypeOK, SaveFill, mm_memory
<1>2. Market \in Pairs /\ Market' = Market
  BY <1>1, QueueFacts DEF MarketMakerTypeOK, Market
<1>3. /\ mm_fills \in [Pairs -> Nat] /\ mm_fills' \in [Pairs -> Nat]
      /\ mm_fills'[Market] = mm_fills[Market] + 1
      /\ \A m \in Pairs : m # Market => mm_fills'[m] = mm_fills[m]
  BY <1>1, <1>2 DEF MarketMakerTypeOK
<1>4. MarketMakerTypeOK'
  BY <1>1, <1>3 DEF MarketMakerTypeOK
<1>5. \A m \in Pairs : LotsOf(m)' = LotsOf(m)
  BY <1>1 DEF LotsOf
<1>6. LotsHeld' = LotsHeld
  BY <1>1, <1>5 DEF LotsHeld
<1>7. RiskGate(mm_side)'
  BY <1>1 DEF RiskGate, Position, Market
<1>8. ASSUME NEW m \in Pairs
      PROVE  mm_fills'[m] <= (mm_launches - 1) * MaxInventory + LotsOf(m) + (IF m = Market THEN 1 ELSE 0)
  <2> DEFINE limit == (mm_launches - 1) * MaxInventory
  <2>1. mm_fills[m] <= limit + LotsOf(m) + 0 /\ LotsOf(m) \in Nat /\ mm_fills[m] \in Nat
    BY <1>1, LotsTyped DEF MakerHolds, MarketMakerTypeOK
  <2>2. limit \in Int
    BY <1>1, MakerNumbers DEF MarketMakerTypeOK
  <2> HIDE DEF limit
  <2>3. mm_fills'[m] <= limit + LotsOf(m) + (IF m = Market THEN 1 ELSE 0)
    BY <1>3, <2>1, <2>2
  <2> QED BY <2>3 DEF limit
<1> QED BY <1>1, <1>2, <1>4, <1>5, <1>6, <1>7, <1>8 DEF MakerHolds

LEMMA ApplyKeepsMaker == MakerHolds /\ ApplyFill => MakerHolds'
<1> SUFFICES ASSUME MakerHolds, ApplyFill PROVE MakerHolds'
  OBVIOUS
<1> DEFINE bought == [Position EXCEPT ![mm_side] = @ + 1]
<1>1. /\ MarketMakerTypeOK /\ mm_pc = "filled" /\ mm_queue # <<>> /\ mm_launches >= 1
      /\ RiskGate(mm_side) /\ mm_positions[Market] # Absent
      /\ mm_positions' = [mm_positions EXCEPT ![Market] = bought]
      /\ mm_inventory' = mm_inventory + 1
      /\ mm_unmarked \in Nat /\ mm_unmarked > 0 /\ mm_unmarked' = mm_unmarked - 1
      /\ NextSide
      /\ UNCHANGED <<mm_resolved, mm_fills, mm_launches, mm_repeats>>
  BY DEF MakerHolds, MarketMakerTypeOK, ApplyFill
<1>2. Market \in Pairs
  BY <1>1, QueueFacts DEF MarketMakerTypeOK
<1>3. /\ mm_positions \in [Pairs -> PairLots \cup {Absent}] /\ Position = mm_positions[Market]
      /\ Position \in PairLots /\ mm_side \in {"YES", "NO"} /\ mm_inventory \in Nat
      /\ mm_repeats \in Nat /\ mm_repeats * MaxInventory \in Nat
      /\ mm_inventory < MaxGlobalInventory /\ Exposure(Position) < MaxInventory
      /\ Position[mm_side] < MaxFillsPerSide
  <2>1. /\ mm_positions \in [Pairs -> PairLots \cup {Absent}] /\ Position = mm_positions[Market]
        /\ mm_side \in {"YES", "NO"} /\ mm_inventory \in Nat /\ mm_repeats \in Nat
    BY <1>1, MakerNumbers DEF MarketMakerTypeOK, Position
  <2>2. mm_inventory < MaxGlobalInventory /\ Exposure(Position) < MaxInventory /\ Position[mm_side] < MaxFillsPerSide
    BY <1>1 DEF RiskGate
  <2> QED BY <1>1, <1>2, <2>1, <2>2, MakerNumbers
<1>4. bought \in PairLots /\ Exposure(bought) = Exposure(Position) + 1
  <2>1. /\ Position.YES \in 0 .. MaxFillsPerSide /\ Position.NO \in 0 .. MaxFillsPerSide
        /\ DOMAIN Position = {"YES", "NO"}
    BY <1>3 DEF PairLots
  <2>2. CASE mm_side = "YES"
    <3>1. bought \in PairLots
      BY <1>3, <2>1, <2>2, MakerNumbers DEF PairLots
    <3>2. bought.YES = Position.YES + 1 /\ bought.NO = Position.NO
      BY <1>3, <2>1, <2>2 DEF PairLots
    <3> HIDE DEF bought
    <3> QED BY <2>1, <3>1, <3>2, MakerNumbers DEF Exposure
  <2>3. CASE mm_side = "NO"
    <3>1. bought \in PairLots
      BY <1>3, <2>1, <2>3, MakerNumbers DEF PairLots
    <3>2. bought.NO = Position.NO + 1 /\ bought.YES = Position.YES
      BY <1>3, <2>1, <2>3 DEF PairLots
    <3> HIDE DEF bought
    <3> QED BY <2>1, <3>1, <3>2, MakerNumbers DEF Exposure
  <2> QED BY <1>3, <2>2, <2>3
<1> HIDE DEF bought
<1> PICK place \in Pairs : place = Market
  BY <1>2
<1>5. /\ mm_positions' \in [Pairs -> PairLots \cup {Absent}] /\ mm_positions'[place] = bought
      /\ \A m \in Pairs : m # place => mm_positions'[m] = mm_positions[m]
  BY <1>1, <1>2, <1>3, <1>4
<1>6. /\ LotsOf(place)' = LotsOf(place) + 1
      /\ LotsOf(place)' <= MaxInventory
      /\ \A m \in Pairs : m # place => LotsOf(m)' = LotsOf(m)
  <2>1. LotsOf(place) = Exposure(Position) /\ Exposure(Position) \in Nat
    BY <1>1, <1>3, MakerNumbers DEF LotsOf
  <2>2. (IF mm_positions'[place] = Absent THEN 0 ELSE Exposure(mm_positions'[place])) = Exposure(bought)
    BY <1>4, <1>5, MakerNumbers
  <2>3. \A m \in Pairs : m # place => LotsOf(m)' = LotsOf(m)
    BY <1>5 DEF LotsOf
  <2> QED BY <1>3, <1>4, <2>1, <2>2, <2>3, MakerNumbers DEF LotsOf
<1>7. /\ \A m \in Pairs : LotsOf(m) \in Nat /\ LotsHeld[m] \in Nat
      /\ \A m \in Pairs : LotsHeld[m] = IF m \in mm_resolved THEN 0 ELSE LotsOf(m)
      /\ \A m \in Pairs : LotsHeld'[m] = IF m \in mm_resolved THEN 0 ELSE LotsOf(m)'
      /\ Summable(LotsHeld, Pairs) /\ SumFunctionOnSet(LotsHeld, Pairs) \in Int
  <2>1. \A m \in Pairs : LotsHeld'[m] = IF m \in mm_resolved THEN 0 ELSE LotsOf(m)'
    BY <1>1 DEF LotsHeld
  <2> QED BY <1>3, <2>1, LotsTyped
<1>8. SumFunctionOnSet(LotsHeld', Pairs) <= SumFunctionOnSet(LotsHeld, Pairs) + 1
      /\ SumFunctionOnSet(LotsHeld', Pairs) \in Int
  <2> DEFINE held == LotsHeld
             now == LotsHeld'
  <2>1. /\ \A m \in Pairs : m # place => now[m] = held[m]
        /\ now[place] \in {held[place], held[place] + 1}
        /\ \A m \in Pairs : now[m] \in Nat /\ held[m] \in Nat
    BY <1>2, <1>6, <1>7
  <2>2. Summable(now, Pairs) /\ Summable(held, Pairs)
    BY <1>7, <2>1, MakerNumbers DEF Summable
  <2> HIDE DEF held, now
  <2>3. SumFunctionOnSet(now, Pairs) = SumFunctionOnSet(held, Pairs) + now[place] - held[place]
    BY <1>2, <2>1, <2>2, SetSumUpdate
  <2>4. SumFunctionOnSet(held, Pairs) \in Int /\ SumFunctionOnSet(now, Pairs) \in Int
    BY <2>2, SetSumDef
  <2>5. SumFunctionOnSet(now, Pairs) <= SumFunctionOnSet(held, Pairs) + 1
    BY <1>2, <2>1, <2>3, <2>4
  <2> QED BY <2>4, <2>5 DEF held, now
<1>9. SumFunctionOnSet(LotsHeld', Pairs) <= mm_inventory' + mm_repeats' * MaxInventory
  <2> DEFINE back == mm_repeats * MaxInventory
             before == SumFunctionOnSet(LotsHeld, Pairs)
             after == SumFunctionOnSet(LotsHeld', Pairs)
  <2>1. before <= mm_inventory + back /\ back \in Nat /\ before \in Int /\ after \in Int /\ after <= before + 1
    BY <1>3, <1>7, <1>8 DEF MakerHolds
  <2>2. mm_repeats' * MaxInventory = back
    BY <1>1
  <2> HIDE DEF back, before, after
  <2>3. after <= mm_inventory' + back
    BY <1>1, <1>3, <2>1
  <2> QED BY <2>2, <2>3 DEF after
<1>10. ASSUME NEW m \in Pairs
       PROVE  mm_fills'[m] <= (mm_launches' - 1) * MaxInventory + LotsOf(m)' + 0
  <2> DEFINE limit == (mm_launches - 1) * MaxInventory
  <2>1. mm_fills[m] <= limit + LotsOf(m) + (IF m = place THEN 1 ELSE 0) /\ mm_fills[m] \in Nat
    BY <1>1 DEF MakerHolds, MarketMakerTypeOK
  <2>2. limit \in Int /\ LotsOf(m) \in Nat
    BY <1>1, <1>7, MakerNumbers DEF MarketMakerTypeOK
  <2> HIDE DEF limit
  <2>3. LotsOf(m)' = LotsOf(m) + (IF m = place THEN 1 ELSE 0)
    BY <1>6, <2>2
  <2>4. mm_fills[m] <= limit + LotsOf(m)' + 0
    BY <2>1, <2>2, <2>3
  <2> QED BY <1>1, <2>4 DEF limit
<1>11. /\ mm_queue' \in Seq(Pairs) /\ mm_book' \in Books \cup {Absent} /\ mm_side' \in {"YES", "NO"}
       /\ (mm_pc' = "side" /\ mm_queue' = mm_queue) \/ mm_pc' = "market"
  BY <1>1, NextSideTyped
<1>12. MarketMakerTypeOK'
  <2>1. mm_unmarked' \in Nat /\ mm_inventory' \in Nat
    BY <1>1, <1>3 DEF MarketMakerTypeOK
  <2> QED BY <1>1, <1>5, <1>11, <2>1 DEF MarketMakerTypeOK
<1>13. \A m \in Pairs : LotsOf(m)' <= MaxInventory
  <2>1. \A m \in Pairs : LotsOf(m) <= MaxInventory
    BY DEF MakerHolds
  <2> QED BY <1>6, <2>1
<1>14. mm_inventory' <= MaxGlobalInventory
  BY <1>1, <1>3, MakerNumbers
<1>15. mm_pc' \in {"side", "market"} /\ (mm_pc' = "side" => Market' = Market)
  BY <1>11 DEF Market
<1>16. mm_pc' = "side" => mm_positions'[Market'] # Absent
  <2> SUFFICES ASSUME mm_pc' = "side" PROVE mm_positions'[Market'] # Absent
    OBVIOUS
  <2>1. Market' = place
    BY <1>15
  <2>2. mm_positions'[place] # Absent
    BY <1>4, <1>5, MakerNumbers
  <2> HIDE DEF Market
  <2> QED BY <2>1, <2>2
<1>17. mm_launches' >= 1 /\ mm_pc' # "idle" /\ mm_pc' # "filled" /\ mm_pc' # "placed"
  BY <1>1, <1>15
<1>18. \A m \in Pairs : mm_fills'[m] <= (mm_launches' - 1) * MaxInventory + LotsOf(m)'
                            + IF mm_pc' = "filled" /\ m = Market' THEN 1 ELSE 0
  BY <1>10, <1>17
<1> QED BY <1>9, <1>12, <1>13, <1>14, <1>15, <1>16, <1>17, <1>18 DEF MakerHolds

\* The inventory is given back, at most the limit of a market too much when the
\* market was resolved before.
LEMMA ResolveKeepsMaker ==
    ASSUME MakerHolds, NEW m \in Pairs, ResolveMarket(m)
    PROVE  MakerHolds'
<1>1. /\ MarketMakerTypeOK /\ mm_pc = "ready" /\ mm_positions[m] # Absent /\ mm_launches >= 1
      /\ m \in mm_resolved => mm_repeats < MaxRepeats
      /\ mm_inventory' = Max({0, mm_inventory - Exposure(mm_positions[m])})
      /\ mm_resolved' = mm_resolved \cup {m}
      /\ mm_repeats' = mm_repeats + IF m \in mm_resolved THEN 1 ELSE 0
      /\ UNCHANGED <<mm_pc, mm_queue, mm_book, mm_side, mm_positions, mm_fills, mm_unmarked, mm_launches>>
  BY DEF MakerHolds, ResolveMarket, mm_rows
<1>2. /\ mm_positions \in [Pairs -> PairLots \cup {Absent}] /\ mm_inventory \in Nat
      /\ mm_repeats \in Nat /\ mm_repeats <= MaxRepeats
  BY <1>1, MakerNumbers DEF MarketMakerTypeOK
<1>3. LotsOf(m) = Exposure(mm_positions[m]) /\ LotsOf(m) \in Nat /\ LotsOf(m) <= MaxInventory
  BY <1>1, <1>2, LotsTyped DEF LotsOf, MakerHolds
<1>4. /\ mm_inventory' \in Nat /\ mm_inventory' <= mm_inventory
      /\ mm_inventory' >= mm_inventory - LotsOf(m)
  <2>1. mm_inventory - LotsOf(m) \in Int /\ mm_inventory' = Max({0, mm_inventory - LotsOf(m)})
    BY <1>1, <1>2, <1>3
  <2> QED BY <1>2, <1>3, <2>1, PositivePart
<1>5. /\ mm_repeats' \in 0 .. MaxRepeats /\ mm_resolved' \subseteq Pairs
  BY <1>1, <1>2, MakerNumbers DEF MarketMakerTypeOK
<1>6. MarketMakerTypeOK'
  BY <1>1, <1>4, <1>5 DEF MarketMakerTypeOK
<1>7. \A n \in Pairs : LotsOf(n)' = LotsOf(n)
  BY <1>1 DEF LotsOf
<1>8. SumFunctionOnSet(LotsHeld', Pairs) <= mm_inventory' + mm_repeats' * MaxInventory
  <2> DEFINE held == LotsHeld
             now == LotsHeld'
  <2>1. /\ \A n \in Pairs : held[n] = IF n \in mm_resolved THEN 0 ELSE LotsOf(n)
        /\ \A n \in Pairs : held[n] \in Nat /\ LotsOf(n) \in Nat
        /\ Summable(held, Pairs) /\ SumFunctionOnSet(held, Pairs) \in Int
    BY <1>2, LotsTyped
  <2>2. \A n \in Pairs : now[n] = IF n \in mm_resolved \cup {m} THEN 0 ELSE LotsOf(n)
    BY <1>1, <1>7 DEF LotsHeld
  <2>3. Summable(now, Pairs)
    BY <2>1, <2>2, MakerNumbers DEF Summable
  <2>4. SumFunctionOnSet(held, Pairs) <= mm_inventory + mm_repeats * MaxInventory
    BY DEF MakerHolds
  <2> HIDE DEF held, now
  <2>5. SumFunctionOnSet(now, Pairs) = SumFunctionOnSet(held, Pairs) + now[m] - held[m]
    BY <2>1, <2>2, <2>3, SetSumUpdate
  <2>6. mm_repeats * MaxInventory \in Nat
    BY <1>2, MakerNumbers
  <2> DEFINE back == mm_repeats * MaxInventory
  <2>7. CASE m \in mm_resolved
    <3>1. mm_repeats' * MaxInventory = back + MaxInventory
      BY <1>1, <1>2, <2>7, MakerNumbers
    <3>2. now[m] = 0 /\ held[m] = 0
      BY <2>1, <2>2, <2>7
    <3> HIDE DEF back
    <3>3. SumFunctionOnSet(now, Pairs) = SumFunctionOnSet(held, Pairs)
      BY <2>1, <2>5, <3>2
    <3>4. SumFunctionOnSet(now, Pairs) <= mm_inventory' + (back + MaxInventory)
      BY <1>2, <1>3, <1>4, <2>1, <2>4, <2>6, <3>3, MakerNumbers DEF back
    <3> QED BY <3>1, <3>4 DEF now
  <2>8. CASE m \notin mm_resolved
    <3>1. mm_repeats' * MaxInventory = back
      BY <1>1, <1>2, <2>8
    <3>2. now[m] = 0 /\ held[m] = LotsOf(m)
      BY <2>1, <2>2, <2>8
    <3>3. back \in Nat /\ SumFunctionOnSet(held, Pairs) <= mm_inventory + back
      BY <2>4, <2>6
    <3> HIDE DEF back
    <3>4. SumFunctionOnSet(now, Pairs) <= mm_inventory' + back
      BY <1>2, <1>3, <1>4, <2>1, <2>5, <3>2, <3>3
    <3> QED BY <3>1, <3>4 DEF now
  <2> QED BY <2>7, <2>8
<1>9. mm_inventory' <= MaxGlobalInventory
  BY <1>2, <1>4, MakerNumbers DEF MakerHolds
<1>10. \A n \in Pairs : mm_fills'[n] <= (mm_launches' - 1) * MaxInventory + LotsOf(n)'
                            + IF mm_pc' = "filled" /\ n = Market' THEN 1 ELSE 0
  <2>1. \A n \in Pairs : mm_fills[n] <= (mm_launches - 1) * MaxInventory + LotsOf(n) + 0
    BY <1>1 DEF MakerHolds
  <2> QED BY <1>1, <1>7, <2>1
<1>11. \A n \in Pairs : LotsOf(n)' <= MaxInventory
  BY <1>7 DEF MakerHolds
<1> QED BY <1>1, <1>6, <1>8, <1>9, <1>10, <1>11 DEF MakerHolds

LEMMA StartKeepsMaker == MakerHolds /\ StartMarketMaker => MakerHolds'
<1> SUFFICES ASSUME MakerHolds, StartMarketMaker PROVE MakerHolds'
  OBVIOUS
<1>1. /\ MarketMakerTypeOK /\ mm_pc = "idle" /\ mm_pc' = "ready" /\ mm_launches' = mm_launches + 1
      /\ mm_launches < MaxLaunches
      /\ UNCHANGED <<mm_queue, mm_book, mm_side, mm_positions, mm_inventory, mm_resolved, mm_fills,
                     mm_unmarked, mm_repeats>>
  BY DEF MakerHolds, StartMarketMaker, mm_memory, mm_rows
<1>2. mm_launches \in Nat /\ mm_launches' \in 1 .. MaxLaunches /\ mm_launches' - 1 = mm_launches
  BY <1>1, MakerNumbers DEF MarketMakerTypeOK
<1>3. MarketMakerTypeOK'
  BY <1>1, <1>2 DEF MarketMakerTypeOK
<1>4. \A m \in Pairs : LotsOf(m)' = LotsOf(m)
  BY <1>1 DEF LotsOf
<1>5. LotsHeld' = LotsHeld
  BY <1>1, <1>4 DEF LotsHeld
<1>6. ASSUME NEW m \in Pairs
      PROVE  mm_fills'[m] <= (mm_launches' - 1) * MaxInventory + LotsOf(m)' + 0
  <2> DEFINE limit == mm_launches * MaxInventory
  <2>1. mm_fills[m] <= limit /\ mm_fills[m] \in Nat /\ LotsOf(m) \in Nat
    BY <1>1, LotsTyped DEF MakerHolds, MarketMakerTypeOK
  <2>2. limit \in Nat
    BY <1>2, MakerNumbers
  <2> HIDE DEF limit
  <2>3. mm_fills[m] <= limit + LotsOf(m) + 0
    BY <2>1, <2>2
  <2> QED BY <1>1, <1>2, <1>4, <2>3 DEF limit
<1>7. mm_launches' >= 1
  BY <1>2
<1> QED BY <1>1, <1>3, <1>4, <1>5, <1>6, <1>7 DEF MakerHolds

LEMMA MakerStep == ASSUME MakerHolds, [MarketMakerNext]_mm_vars PROVE MakerHolds'
<1>1. CASE StartMarketMaker
  BY <1>1, StartKeepsMaker
<1>2. CASE MarketMakerEnds \/ MarketMakerCrash
  BY <1>2, GoneKeepsMaker
<1>3. CASE RunCycle \/ CycleEnds \/ DenyQuote \/ AllowQuote
  BY <1>3, QuoteKeepsMaker
<1>4. CASE RefuseSide \/ PlaceResting \/ PlaceFilling
  BY <1>4, SideKeepsMaker
<1>5. CASE SaveFill \/ ApplyFill
  BY <1>5, SaveKeepsMaker, ApplyKeepsMaker
<1>6. CASE \E m \in Pairs : ResolveMarket(m)
  BY <1>6, ResolveKeepsMaker
<1>7. CASE UNCHANGED mm_vars
  BY <1>7 DEF mm_vars, mm_memory, mm_rows, MakerHolds, MarketMakerTypeOK, LotsHeld, LotsOf, Market, RiskGate, Position
<1> QED BY <1>1, <1>2, <1>3, <1>4, <1>5, <1>6, <1>7 DEF MarketMakerNext
-----------------------------------------------------------------------------
(* MM001: its books *)

LEMMA SimulatorNumbers ==
    /\ MmCycles \in Nat /\ MmCycles > 0 /\ IsFiniteSet(MmMarkets)
    /\ \A tick \in MmTicks : tick.market \in MmMarkets /\ tick.yes \in Prices /\ tick.no \in Prices
    /\ MmSkew \in Int /\ MmCash \in Int /\ MmBuffers \in Int
    /\ MmMergeEdge \in Nat /\ MmSplitEdge \in Nat
    /\ MmMaxCycles \in Nat /\ MmMaxStops \in Nat
<1>1. MmTicks \subseteq Ticks
  BY SimulatorAssumption DEF SimulatorAssumption
<1> QED BY <1>1, SimulatorAssumption DEF SimulatorAssumption, Ticks

Least == MmSpreadFloor \div 2

LEMMA SpreadNumbers ==
    /\ MmFeeRate \in Nat /\ MmSpreadFloor \in Nat
    /\ Least \in Nat /\ Least >= 1 /\ Least <= 9800
    /\ 2500 * MmFeeRate < 10000 * Least
<1>1. \A floor \in Nat : floor >= 2 /\ floor <= 19600
         => floor \div 2 \in Nat /\ floor \div 2 >= 1 /\ floor \div 2 <= 9800
  BY SMT
<1>2. /\ MmFeeRate \in Nat /\ MmSpreadFloor \in Nat
      /\ MmSpreadFloor >= 2 /\ MmSpreadFloor <= 19600
  BY SpreadAssumption, SMT DEF SpreadAssumption
<1>3. 2500 * MmFeeRate < 10000 * Least
  BY SpreadAssumption, SMT DEF SpreadAssumption, Least
<1>4. Least \in Nat /\ Least >= 1 /\ Least <= 9800
  BY <1>1, <1>2, SMT DEF Least
<1> QED BY <1>2, <1>3, <1>4

\* The fee is highest in the middle.
LEMMA FeeBounded ==
    ASSUME NEW price \in Prices
    PROVE  FeeEquivalent(price) \in Nat /\ FeeEquivalent(price) <= 2500 * MmFeeRate
<1>1. \A p \in Int : p >= 0 /\ p <= 10000 =>
         /\ p * (10000 - p) \in Nat
         /\ p * (10000 - p) <= 25000000
  <2>1. \A p \in Int : p >= 0 /\ p <= 10000 =>
           p * (10000 - p) \in Int /\ p * (10000 - p) >= 0
    BY SMT
  <2>2. \A p \in Int : p * (10000 - p) = 25000000 - (p - 5000) * (p - 5000) /\ (p - 5000) * (p - 5000) >= 0
    BY SMT
  <2>3. \A a, b \in Int : a = 25000000 - b /\ b >= 0 => a <= 25000000
    BY SMT
  <2>4. \A p \in Int : (p - 5000) * (p - 5000) \in Int
    BY SMT
  <2> QED BY <2>1, <2>2, <2>3, <2>4, SMT
<1>2. \A rate, product \in Nat : product <= 25000000 =>
         /\ (rate * product) \div 10000 \in Nat
         /\ (rate * product) \div 10000 <= 2500 * rate
  <2>1. \A n \in Nat : n \div 10000 \in Nat /\ 10000 * (n \div 10000) <= n
    BY SMT
  <2>2. \A rate, product \in Nat : product <= 25000000 =>
           rate * product \in Nat /\ rate * product <= 10000 * (2500 * rate)
    BY SMT
  <2>3. \A f, limit \in Int : 10000 * f <= 10000 * limit => f <= limit
    BY SMT
  <2> QED BY <2>1, <2>2, <2>3, SMT
<1>3. price \in Int /\ price >= 0 /\ price <= 10000
  BY SMT DEF Prices
<1> DEFINE product == price * (10000 - price)
<1>4. product \in Nat /\ product <= 25000000
  BY <1>1, <1>3, SMT
<1>5. FeeEquivalent(price) = (MmFeeRate * product) \div 10000
  <2>1. \A rate, p \in Int : rate * p * (10000 - p) = rate * (p * (10000 - p))
    BY SMT
  <2> QED BY <1>3, <2>1, SpreadNumbers, SMT DEF FeeEquivalent
<1> HIDE DEF product
<1> QED BY <1>2, <1>4, <1>5, SpreadNumbers, SMT

LEMMA ClampFacts ==
    /\ \A x \in Int : Clamped(x) \in Int /\ Clamped(x) >= 100 /\ Clamped(x) <= 9900
    /\ \A x \in Int : Clamped(10000 - x) = 10000 - Clamped(x)
    /\ \A x \in Int : x >= 100 /\ x <= 9900 => Clamped(x) = x
<1>1. \A x \in Int : Clamped(x) \in Int /\ Clamped(x) >= 100 /\ Clamped(x) <= 9900
  BY SMT DEF Clamped
<1>2. \A x \in Int : Clamped(10000 - x) = 10000 - Clamped(x)
  BY SMT DEF Clamped
<1>3. \A x \in Int : x >= 100 /\ x <= 9900 => Clamped(x) = x
  BY SMT DEF Clamped
<1> QED BY <1>1, <1>2, <1>3

\* The NO side mirrors the YES side, and the spread is at least half its floor
\* wherever the clamps bite.
Mirrored(quotes) ==
    /\ quotes.yes_bid \in Int /\ quotes.yes_ask \in Int
    /\ quotes.no_bid \in Int /\ quotes.no_ask \in Int
    /\ quotes.no_bid = 10000 - quotes.yes_ask
    /\ quotes.no_ask = 10000 - quotes.yes_bid
    /\ quotes.yes_ask - quotes.yes_bid >= Least

LEMMA QuotesMirrored ==
    ASSUME NEW tick \in MmTicks, NEW inventory \in Inventories
    PROVE  Mirrored(BuildQuotes(tick, inventory))
<1> DEFINE yes == ReservationPrice(tick.yes, inventory)
           no == Clamped(10000 - yes)
           spread == MinimumNetSpread(yes)
           half == spread \div 2
<1>1. yes \in Int /\ yes >= 100 /\ yes <= 9900
  <2>1. tick.yes \in Int
    <3>1. \A price \in Prices : price \in Int
      BY SMT DEF Prices
    <3> QED BY <3>1, SimulatorNumbers
  <2>2. NetYes(inventory) \in Int
    BY DEF Inventories, NetYes
  <2>3. tick.yes - NetYes(inventory) * MmSkew \in Int
    BY <2>1, <2>2, SimulatorNumbers, SMT
  <2> QED BY <2>3, ClampFacts DEF ReservationPrice
<1> HIDE DEF yes
<1>2. spread \in Int /\ spread >= MmSpreadFloor
  <2>1. FeeEquivalent(yes) \in Nat
    <3>1. yes \in Prices
      BY <1>1, SMT DEF Prices
    <3> QED BY <3>1, FeeBounded
  <2>2. FeeEquivalent(yes) \div 10000 \in Int
    BY <2>1, SMT
  <2>3. FeeEquivalent(yes) \div 10000 + MmBuffers \in Int
    BY <2>2, SimulatorNumbers, SMT
  <2> DEFINE raw == FeeEquivalent(yes) \div 10000 + MmBuffers
  <2>4. raw \in Int /\ spread = IF raw > MmSpreadFloor THEN raw ELSE MmSpreadFloor
    BY <2>3, SMT DEF MinimumNetSpread
  <2> HIDE DEF raw, spread
  <2> QED BY <2>4, SpreadNumbers, SMT
<1>3. BuildQuotes(tick, inventory)
        = [yes_bid |-> Clamped(yes - half), yes_ask |-> Clamped(yes + half),
           no_bid |-> Clamped(no - half), no_ask |-> Clamped(no + half)]
  BY DEF BuildQuotes, yes
<1>4. no = 10000 - yes
  <2>1. 10000 - yes \in Int /\ 10000 - yes >= 100 /\ 10000 - yes <= 9900
    BY <1>1, SMT
  <2> QED BY <2>1, ClampFacts
<1> HIDE DEF no, spread
<1>5. half \in Int /\ half >= Least
  <2>1. \A a, b \in Int : a >= b => a \div 2 \in Int /\ b \div 2 \in Int /\ a \div 2 >= b \div 2
    BY SMT
  <2> QED BY <1>2, <2>1, SpreadNumbers DEF Least
<1> HIDE DEF half
<1> DEFINE bid == Clamped(yes - half)
           ask == Clamped(yes + half)
<1>6. bid \in Int /\ ask \in Int
  <2>1. yes - half \in Int /\ yes + half \in Int
    BY <1>1, <1>5, SMT
  <2> QED BY <2>1, ClampFacts
<1>7. Clamped(no - half) = 10000 - ask /\ Clamped(no + half) = 10000 - bid
  <2>1. yes - half \in Int /\ yes + half \in Int
    BY <1>1, <1>5, SMT
  <2>2. no - half = 10000 - (yes + half) /\ no + half = 10000 - (yes - half)
    BY <1>1, <1>4, <1>5, SMT
  <2> QED BY <2>1, <2>2, ClampFacts
<1>8. ask - bid >= Least
  <2>1. Least \in Int /\ Least >= 1 /\ Least <= 9800
    BY SpreadNumbers
  <2> QED BY <1>1, <1>5, <2>1, SMT DEF Clamped
<1> HIDE DEF bid, ask
<1>9. BuildQuotes(tick, inventory)
        = [yes_bid |-> bid, yes_ask |-> ask, no_bid |-> 10000 - ask, no_ask |-> 10000 - bid]
  BY <1>3, <1>7 DEF bid, ask
<1>10. 10000 - ask \in Int /\ 10000 - bid \in Int
  BY <1>6, SMT
<1> QED BY <1>6, <1>8, <1>9, <1>10 DEF Mirrored

\* Every cycle is worth at least its spread less a fee, whichever side is hit.
LEMMA ProfitPositive ==
    ASSUME NEW tick \in MmTicks, NEW quotes, Mirrored(quotes),
           NEW side \in {"YES", "NO"}, NEW taker \in BOOLEAN,
           NEW merge \in Enough(10000 - quotes.yes_bid - quotes.no_bid, MmMergeEdge),
           NEW split \in Enough(quotes.yes_ask + quotes.no_ask - 10000, MmSplitEdge)
    PROVE  /\ CycleProfit(tick, quotes, side, taker, merge, split) \in Int
           /\ CycleProfit(tick, quotes, side, taker, merge, split) > 0
<1> DEFINE fee == FeeEquivalent(tick.yes)
           merging == 10000 - quotes.yes_bid - quotes.no_bid
           splitting == quotes.yes_ask + quotes.no_ask - 10000
           merged == IF merge THEN merging ELSE 0
           splitted == IF split THEN splitting ELSE 0
           spread == MakerSpread(side, quotes)
           back == (18 * fee) \div 100
           paid == IF taker THEN fee ELSE 0
<1>1. fee \in Nat /\ fee <= 2500 * MmFeeRate
  BY FeeBounded, SimulatorNumbers
<1>2. CycleProfit(tick, quotes, side, taker, merge, split) = 10000 * (spread + merged + splitted) + back - paid
  BY SMT DEF CycleProfit
<1>3. merging \in Int /\ splitting \in Int
  BY SMT DEF Mirrored
<1>4. spread \in Int /\ spread >= Least
  <2>1. /\ quotes.no_ask - quotes.no_bid = quotes.yes_ask - quotes.yes_bid
        /\ quotes.yes_ask - quotes.yes_bid \in Int /\ quotes.yes_ask - quotes.yes_bid >= Least
    BY SMT DEF Mirrored
  <2> QED BY <2>1 DEF MakerSpread
<1> HIDE DEF fee, merging, splitting, spread
<1>5. \A edge \in Int, minimum \in Nat : \A enough \in Enough(edge, minimum) :
         enough \in BOOLEAN /\ (enough => edge \in Nat)
  <2> SUFFICES ASSUME NEW edge \in Int, NEW minimum \in Nat, NEW enough \in Enough(edge, minimum)
               PROVE  enough \in BOOLEAN /\ (enough => edge \in Nat)
    OBVIOUS
  <2>1. enough \in BOOLEAN /\ (enough => edge >= minimum)
    BY DEF Enough
  <2>2. edge >= minimum => edge \in Nat
    BY SMT
  <2> QED BY <2>1, <2>2
<1>6. merged \in Nat /\ splitted \in Nat
  <2>1. merge \in Enough(merging, MmMergeEdge) /\ split \in Enough(splitting, MmSplitEdge)
    BY DEF merging, splitting
  <2> QED BY <1>3, <1>5, <2>1, SimulatorNumbers
<1>7. back \in Nat
  <2>1. \A n \in Nat : (18 * n) \div 100 \in Nat
    BY SMT
  <2> QED BY <1>1, <2>1
<1>8. paid \in Nat /\ paid <= 2500 * MmFeeRate
  BY <1>1, SpreadNumbers, SMT
<1> HIDE DEF merged, splitted, back, paid
<1>9. /\ 10000 * (spread + merged + splitted) + back - paid \in Int
      /\ 10000 * (spread + merged + splitted) + back - paid > 0
  BY <1>4, <1>6, <1>7, <1>8, SpreadNumbers, SMT
<1> QED BY <1>2, <1>9

\* Each field of the order counters, over the markets.
Counts(field, orders) == [m \in MmMarkets |-> orders[m][field]]
OrderFields == {"open", "executed", "canceled", "closed"}

LEMMA CountAdded ==
    ASSUME NEW f \in [MmMarkets -> Nat], NEW g \in [MmMarkets -> Nat], NEW market \in MmMarkets,
           NEW n \in Nat, g[market] = f[market] + n, \A m \in MmMarkets : m # market => g[m] = f[m]
    PROVE  /\ SumFunctionOnSet(f, MmMarkets) \in Int
           /\ SumFunctionOnSet(g, MmMarkets) = SumFunctionOnSet(f, MmMarkets) + n
<1>1. Summable(f, MmMarkets) /\ Summable(g, MmMarkets)
  BY SimulatorNumbers DEF Summable
<1>2. SumFunctionOnSet(g, MmMarkets) = SumFunctionOnSet(f, MmMarkets) + g[market] - f[market]
  BY <1>1, SetSumUpdate
<1>3. SumFunctionOnSet(f, MmMarkets) \in Int
  BY <1>1, SetSumDef
<1> QED BY <1>2, <1>3

LEMMA FillBooked ==
    ASSUME NEW inventory \in Inventories, NEW fill, fill.side \in {"YES", "NO"}, fill.price \in Int
    PROVE  LET after == FillInventory(inventory, fill)
           IN after \in Inventories /\ after.yes + after.no = inventory.yes + inventory.no + 1
BY DEF Inventories, FillInventory

\* The books of the bot, its counters taken as sums over its markets.
MetricsAgree(metrics, inventory) ==
    /\ inventory.cash = MmCash - metrics.notional
    /\ inventory.yes + inventory.no = metrics.fills
    /\ metrics.fills = metrics.closed + metrics.takers
    /\ metrics.winning = metrics.closed /\ metrics.losing = 0 /\ metrics.realized >= 0

OrdersAgree(metrics, orders) ==
    /\ SumFunctionOnSet(Counts("open", orders), MmMarkets) = 2 * metrics.closed
    /\ SumFunctionOnSet(Counts("executed", orders), MmMarkets) = metrics.closed
    /\ SumFunctionOnSet(Counts("canceled", orders), MmMarkets) = metrics.takers

SummaryAgrees(summary) ==
    /\ summary \in Summaries
    /\ 2 * summary.paired + summary.unpaired = summary.fills
    /\ summary.won = summary.settled /\ summary.settled = summary.closed /\ summary.realized >= 0

\* The rows of ticks.csv that are still to be appended to the log.
Unlogged == IF sm_pc \in {"run", "append"} THEN sm_ticks ELSE 0

LogHolds ==
    /\ sm_pc = "run" => sm_ticks = sm_cycle
    /\ sm_log + Unlogged <= sm_ever
    /\ sm_ever - sm_log <= MmCycles * sm_stops + Unlogged

SimulatorHolds ==
    /\ SimulatorTypeOK
    /\ MetricsAgree(sm_metrics, sm_inventory) /\ OrdersAgree(sm_metrics, sm_orders)
    /\ SummaryAgrees(sm_summary) /\ LogHolds

LEMMA NewBotAgrees ==
    /\ NewInventory \in Inventories /\ NewMetrics \in Metrics
    /\ [m \in MmMarkets |-> NoOrders] \in [MmMarkets -> OrderCounts]
    /\ MetricsAgree(NewMetrics, NewInventory)
    /\ OrdersAgree(NewMetrics, [m \in MmMarkets |-> NoOrders])
<1>1. NewInventory \in Inventories /\ NewMetrics \in Metrics
  BY SimulatorNumbers DEF NewInventory, NewMetrics, Inventories, Metrics
<1>2. MetricsAgree(NewMetrics, NewInventory)
  BY SimulatorNumbers DEF NewInventory, NewMetrics, MetricsAgree
<1>3. NoOrders \in OrderCounts
  BY DEF NoOrders, OrderCounts
<1>4. ASSUME NEW f, \A m \in MmMarkets : f[m] = 0 PROVE SumFunctionOnSet(f, MmMarkets) = 0
  BY <1>4, SimulatorNumbers, SetSumZero DEF Summable
<1> DEFINE orders == [m \in MmMarkets |-> NoOrders]
<1>5. \A field \in {"open", "executed", "canceled"} : SumFunctionOnSet(Counts(field, orders), MmMarkets) = 0
  <2> SUFFICES ASSUME NEW field \in {"open", "executed", "canceled"}
               PROVE  SumFunctionOnSet(Counts(field, orders), MmMarkets) = 0
    OBVIOUS
  <2>1. \A m \in MmMarkets : Counts(field, orders)[m] = 0
    BY DEF Counts, NoOrders
  <2> QED BY <1>4, <2>1
<1>6. OrdersAgree(NewMetrics, orders)
  <2>1. NewMetrics.closed = 0 /\ NewMetrics.takers = 0
    BY DEF NewMetrics
  <2> HIDE DEF orders
  <2> QED BY <1>5, <2>1 DEF OrdersAgree
<1> QED BY <1>1, <1>2, <1>3, <1>6

LEMMA SummaryOfAgreeing ==
    ASSUME NEW metrics \in Metrics, NEW inventory \in Inventories, MetricsAgree(metrics, inventory)
    PROVE  SummaryAgrees(Summary(metrics, inventory))
<1> DEFINE paired == IF inventory.yes < inventory.no THEN inventory.yes ELSE inventory.no
           lots == inventory.yes + inventory.no
<1>1. paired \in Nat /\ lots \in Nat /\ 2 * paired <= lots /\ lots - 2 * paired \in Nat
  BY DEF Inventories
<1>2. Summary(metrics, inventory)
        = [realized |-> metrics.realized, won |-> metrics.winning,
           settled |-> metrics.winning + metrics.losing, closed |-> metrics.closed,
           fills |-> metrics.fills, paired |-> paired, unpaired |-> lots - 2 * paired]
  BY SMT DEF Summary, Inventories, Metrics
<1>3. /\ metrics.realized \in Int /\ metrics.winning \in Nat /\ metrics.closed \in Nat /\ metrics.fills \in Nat
      /\ metrics.winning + metrics.losing = metrics.winning
      /\ metrics.winning = metrics.closed /\ metrics.realized >= 0 /\ lots = metrics.fills
  BY DEF Metrics, MetricsAgree
<1> HIDE DEF paired, lots
<1>4. 2 * paired + (lots - 2 * paired) = lots
  BY <1>1
<1> QED BY <1>1, <1>2, <1>3, <1>4 DEF SummaryAgrees, Summaries

LEMMA SimulatorStarts == SimulatorInit => SimulatorHolds
<1> SUFFICES ASSUME SimulatorInit PROVE SimulatorHolds
  OBVIOUS
<1>1. SimulatorTypeOK
  <2>1. SummaryAgrees(sm_summary)
    BY NewBotAgrees, SummaryOfAgreeing DEF SimulatorInit
  <2> QED BY <2>1, NewBotAgrees, SimulatorNumbers DEF SimulatorInit, SimulatorTypeOK, SummaryAgrees
<1>2. SummaryAgrees(sm_summary)
  BY NewBotAgrees, SummaryOfAgreeing DEF SimulatorInit
<1>3. LogHolds
  BY SimulatorNumbers DEF SimulatorInit, LogHolds, Unlogged
<1> QED BY <1>1, <1>2, <1>3, NewBotAgrees DEF SimulatorInit, SimulatorHolds
\* A cycle's row of the order counters.
CycleCounted(metrics, after, taker) ==
    /\ after.closed = metrics.closed + 1
    /\ after.takers = metrics.takers + (IF taker THEN 1 ELSE 0)

Recounted(orders, booked, market, taker, merge) ==
    booked = [orders EXCEPT ![market] = Counted(@, taker, merge)]

OrderTables == [MmMarkets -> OrderCounts]

LEMMA OrdersBooked ==
    ASSUME NEW orders \in OrderTables, NEW market \in MmMarkets,
           NEW metrics \in Metrics, OrdersAgree(metrics, orders),
           NEW taker \in BOOLEAN, NEW merge \in BOOLEAN,
           NEW after, CycleCounted(metrics, after, taker),
           NEW booked, Recounted(orders, booked, market, taker, merge)
    PROVE  booked \in OrderTables /\ OrdersAgree(after, booked)
<1> DEFINE taken == IF taker THEN 1 ELSE 0
           merged == IF merge THEN 1 ELSE 0
           row == orders[market]
           newRow == Counted(row, taker, merge)
<1>1. row \in OrderCounts /\ taken \in Nat /\ merged \in Nat
  BY DEF OrderTables
<1> HIDE DEF taken, merged
<1>2. /\ newRow = [open |-> row.open + 2, executed |-> row.executed + 1,
                   canceled |-> row.canceled + taken, closed |-> row.closed + merged]
      /\ newRow \in OrderCounts
  BY <1>1 DEF OrderCounts, Counted, taken, merged
<1>3. booked = [orders EXCEPT ![market] = newRow]
  BY DEF Recounted, newRow, row
<1> HIDE DEF row, newRow
<1>4. booked \in [MmMarkets -> OrderCounts]
  BY <1>2, <1>3 DEF OrderTables
<1>5. booked[market] = newRow /\ \A m \in MmMarkets : m # market => booked[m] = orders[m]
  BY <1>3 DEF OrderTables
<1>6. ASSUME NEW field \in {"open", "executed", "canceled"}, NEW n \in Nat, newRow[field] = row[field] + n
      PROVE  /\ SumFunctionOnSet(Counts(field, orders), MmMarkets) \in Int
             /\ SumFunctionOnSet(Counts(field, booked), MmMarkets)
                  = SumFunctionOnSet(Counts(field, orders), MmMarkets) + n
  <2> DEFINE f == Counts(field, orders)
             g == Counts(field, booked)
  <2>1. \A counts \in OrderCounts : counts[field] \in Nat
    BY DEF OrderCounts
  <2>2. f \in [MmMarkets -> Nat] /\ g \in [MmMarkets -> Nat]
    BY <1>4, <2>1 DEF Counts, OrderTables
  <2>3. f[market] = row[field] /\ g[market] = newRow[field]
    BY <1>5 DEF Counts, row
  <2>4. \A m \in MmMarkets : m # market => g[m] = f[m]
    BY <1>5 DEF Counts
  <2> HIDE DEF f, g
  <2>5. g[market] = f[market] + n
    BY <1>6, <2>3
  <2>6. /\ SumFunctionOnSet(f, MmMarkets) \in Int
        /\ SumFunctionOnSet(g, MmMarkets) = SumFunctionOnSet(f, MmMarkets) + n
    BY <2>2, <2>4, <2>5, CountAdded
  <2> QED BY <2>6 DEF f, g
<1>7. newRow["open"] = row["open"] + 2 /\ newRow["executed"] = row["executed"] + 1
      /\ newRow["canceled"] = row["canceled"] + taken
  BY <1>2
<1>8. /\ SumFunctionOnSet(Counts("open", booked), MmMarkets)
            = SumFunctionOnSet(Counts("open", orders), MmMarkets) + 2
      /\ SumFunctionOnSet(Counts("executed", booked), MmMarkets)
            = SumFunctionOnSet(Counts("executed", orders), MmMarkets) + 1
      /\ SumFunctionOnSet(Counts("canceled", booked), MmMarkets)
            = SumFunctionOnSet(Counts("canceled", orders), MmMarkets) + taken
  BY <1>1, <1>6, <1>7
<1>9. metrics.closed \in Nat /\ metrics.takers \in Nat
  BY DEF Metrics
<1>10. after.takers = metrics.takers + taken /\ after.closed = metrics.closed + 1
  BY DEF taken, CycleCounted
<1>11. OrdersAgree(after, booked)
  BY <1>1, <1>8, <1>9, <1>10 DEF OrdersAgree
<1> QED BY <1>4, <1>11 DEF OrderTables

LEMMA CycleBooked ==
    ASSUME NEW metrics \in Metrics, NEW inventory \in Inventories, MetricsAgree(metrics, inventory),
           NEW taken \in Inventories, NEW profit \in Int, profit > 0, NEW taker \in BOOLEAN,
           taken.yes + taken.no = inventory.yes + inventory.no + IF taker THEN 2 ELSE 1
    PROVE  LET after == Booked(metrics, profit, inventory.cash - taken.cash, taker)
           IN /\ after \in Metrics /\ MetricsAgree(after, taken)
              /\ after.closed = metrics.closed + 1
              /\ after.takers = metrics.takers + IF taker THEN 1 ELSE 0
<1> DEFINE notional == inventory.cash - taken.cash
           after == Booked(metrics, profit, notional, taker)
           fills == IF taker THEN 2 ELSE 1
           takers == IF taker THEN 1 ELSE 0
<1>1. /\ metrics.realized \in Int /\ metrics.fills \in Nat /\ metrics.notional \in Int
      /\ metrics.takers \in Nat /\ metrics.closed \in Nat /\ metrics.winning \in Nat
      /\ metrics.losing \in Nat /\ metrics.breakeven \in Nat
  BY DEF Metrics
<1>2. notional \in Int /\ fills \in Nat /\ takers \in Nat /\ fills = takers + 1
      /\ inventory.cash \in Int /\ taken.cash \in Int /\ notional = inventory.cash - taken.cash
      /\ inventory.yes \in Nat /\ inventory.no \in Nat /\ taken.yes \in Nat /\ taken.no \in Nat
  BY DEF Inventories
<1> HIDE DEF notional
<1>3. after = [realized |-> metrics.realized + profit, fills |-> metrics.fills + fills,
                notional |-> metrics.notional + notional, takers |-> metrics.takers + takers,
                closed |-> metrics.closed + 1, winning |-> metrics.winning + 1,
                losing |-> metrics.losing + 0, breakeven |-> metrics.breakeven + 0]
  <2>1. (IF profit > 0 THEN 1 ELSE 0) = 1 /\ (IF profit < 0 THEN 1 ELSE 0) = 0 /\ (IF profit = 0 THEN 1 ELSE 0) = 0
    OBVIOUS
  <2> QED BY <2>1 DEF Booked
<1> HIDE DEF after
<1>4. /\ after.realized = metrics.realized + profit /\ after.fills = metrics.fills + fills
      /\ after.takers = metrics.takers + takers /\ after.notional = metrics.notional + notional
      /\ after.closed = metrics.closed + 1 /\ after.winning = metrics.winning + 1
      /\ after.losing = metrics.losing + 0
  BY <1>3
<1>5. after \in Metrics
  <2>1. /\ metrics.realized + profit \in Int /\ metrics.fills + fills \in Nat
        /\ metrics.notional + notional \in Int /\ metrics.takers + takers \in Nat
        /\ metrics.closed + 1 \in Nat /\ metrics.winning + 1 \in Nat
        /\ metrics.losing + 0 \in Nat /\ metrics.breakeven + 0 \in Nat
    BY <1>1, <1>2
  <2> QED BY <1>3, <2>1 DEF Metrics
<1> HIDE DEF fills
<1>6. taken.yes + taken.no = inventory.yes + inventory.no + fills
  BY DEF fills
<1>7. MetricsAgree(after, taken)
  BY <1>1, <1>2, <1>4, <1>6, SimulatorNumbers DEF MetricsAgree
<1> QED BY <1>4, <1>5, <1>7 DEF after, notional

LEMMA SimulatedCycleKeeps ==
    ASSUME SimulatorHolds, NEW tick \in MmTicks, NEW side \in {"YES", "NO"}, NEW taker \in BOOLEAN,
           RunSimulatedCycle(tick, side, taker)
    PROVE  SimulatorHolds'
<1> DEFINE quotes == BuildQuotes(tick, sm_inventory)
           made == FillInventory(sm_inventory, MakerFill(side, quotes))
           taken == IF taker THEN FillInventory(made, TakerFill(tick, made)) ELSE made
<1>1. /\ SimulatorTypeOK /\ MetricsAgree(sm_metrics, sm_inventory) /\ OrdersAgree(sm_metrics, sm_orders)
      /\ SummaryAgrees(sm_summary) /\ LogHolds
      /\ sm_inventory \in Inventories /\ sm_metrics \in Metrics /\ sm_orders \in [MmMarkets -> OrderCounts]
  BY DEF SimulatorHolds, SimulatorTypeOK
<1>2. PICK merge \in Enough(10000 - quotes.yes_bid - quotes.no_bid, MmMergeEdge),
           split \in Enough(quotes.yes_ask + quotes.no_ask - 10000, MmSplitEdge) :
         BookCycle(tick.market, CycleProfit(tick, quotes, side, taker, merge, split),
                   sm_inventory.cash - taken.cash, taker, merge)
  <2> DEFINE merges == Enough(10000 - quotes.yes_bid - quotes.no_bid, MmMergeEdge)
             splits == Enough(quotes.yes_ask + quotes.no_ask - 10000, MmSplitEdge)
             Profit(m, s) == CycleProfit(tick, quotes, side, taker, m, s)
             notional == sm_inventory.cash - taken.cash
  <2>1. \E merge \in merges, split \in splits :
           BookCycle(tick.market, Profit(merge, split), notional, taker, merge)
    BY DEF RunSimulatedCycle
  <2> QED BY <2>1
<1>3. /\ sm_pc = "run" /\ sm_cycle < MmCycles /\ sm_ever < MmMaxCycles
      /\ sm_inventory' = taken
      /\ sm_cycle' = sm_cycle + 1 /\ sm_ticks' = sm_ticks + 1 /\ sm_ever' = sm_ever + 1
      /\ UNCHANGED <<sm_pc, sm_log, sm_summary, sm_stops>>
  BY DEF RunSimulatedCycle
<1>4. Mirrored(quotes)
  BY <1>1, QuotesMirrored
<1> HIDE DEF quotes
<1> DEFINE profit == CycleProfit(tick, quotes, side, taker, merge, split)
<1>5. profit \in Int /\ profit > 0
  BY <1>4, ProfitPositive
<1>6. tick.market \in MmMarkets /\ tick.yes \in Int /\ tick.no \in Int
  <2>1. \A price \in Prices : price \in Int
    BY SMT DEF Prices
  <2> QED BY <2>1, SimulatorNumbers
<1>7. made \in Inventories /\ made.yes + made.no = sm_inventory.yes + sm_inventory.no + 1
  <2>1. MakerFill(side, quotes).side \in {"YES", "NO"} /\ MakerFill(side, quotes).price \in Int
    BY <1>4 DEF MakerFill, Mirrored
  <2> QED BY <1>1, <2>1, FillBooked
<1> HIDE DEF made
<1>8. taken \in Inventories
      /\ taken.yes + taken.no = sm_inventory.yes + sm_inventory.no + IF taker THEN 2 ELSE 1
  <2>1. CASE taker
    <3> DEFINE after == FillInventory(made, TakerFill(tick, made))
    <3>1. TakerFill(tick, made).side \in {"YES", "NO"} /\ TakerFill(tick, made).price \in Int
      BY <1>6 DEF TakerFill
    <3>2. after \in Inventories /\ after.yes + after.no = made.yes + made.no + 1
      BY <1>7, <3>1, FillBooked
    <3>3. taken = after
      BY <2>1
    <3>4. sm_inventory.yes \in Nat /\ sm_inventory.no \in Nat
      BY <1>1 DEF Inventories
    <3> HIDE DEF after, taken
    <3> QED BY <1>7, <2>1, <3>2, <3>3, <3>4
  <2>2. CASE ~taker
    BY <1>7, <2>2
  <2> QED BY <2>1, <2>2
<1> HIDE DEF taken, profit
<1>9. sm_metrics' = Booked(sm_metrics, profit, sm_inventory.cash - taken.cash, taker)
  BY <1>2 DEF BookCycle, profit
<1>10. /\ sm_metrics' \in Metrics /\ MetricsAgree(sm_metrics', taken)
       /\ sm_metrics'.closed = sm_metrics.closed + 1
       /\ sm_metrics'.takers = sm_metrics.takers + IF taker THEN 1 ELSE 0
  BY <1>1, <1>5, <1>8, <1>9, CycleBooked
<1>11. merge \in BOOLEAN
  BY DEF Enough
<1>12. sm_orders' \in [MmMarkets -> OrderCounts] /\ OrdersAgree(sm_metrics', sm_orders')
  <2> DEFINE booked == [sm_orders EXCEPT ![tick.market] = Counted(@, taker, merge)]
             after == sm_metrics'
  <2>1. sm_metrics \in Metrics /\ sm_orders \in OrderTables /\ OrdersAgree(sm_metrics, sm_orders)
    BY <1>1 DEF OrderTables
  <2>2. CycleCounted(sm_metrics, after, taker)
    BY <1>10 DEF CycleCounted
  <2>3. Recounted(sm_orders, booked, tick.market, taker, merge)
    BY DEF Recounted
  <2>4. sm_orders' = booked
    BY <1>2 DEF BookCycle
  <2> HIDE DEF booked, after
  <2>5. booked \in OrderTables /\ OrdersAgree(after, booked)
    BY <1>6, <1>11, <2>1, <2>2, <2>3, OrdersBooked
  <2> QED BY <2>4, <2>5 DEF after, OrderTables
<1>13. LogHolds'
  <2>1. sm_ticks = sm_cycle /\ sm_log + sm_ticks <= sm_ever /\ sm_ever - sm_log <= MmCycles * sm_stops + sm_ticks
    BY <1>1, <1>3 DEF LogHolds, Unlogged
  <2>2. /\ sm_ticks \in Int /\ sm_cycle \in Int /\ sm_log \in Int /\ sm_ever \in Int
        /\ MmCycles * sm_stops \in Int
    BY <1>1, SimulatorNumbers DEF SimulatorTypeOK
  <2> DEFINE lost == MmCycles * sm_stops
  <2>3. MmCycles * sm_stops' = lost
    BY <1>3
  <2> HIDE DEF lost
  <2>4. /\ sm_ticks' = sm_cycle' /\ sm_log' + sm_ticks' <= sm_ever'
        /\ sm_ever' - sm_log' <= lost + sm_ticks'
    BY <1>3, <2>1, <2>2 DEF lost
  <2> QED BY <1>3, <2>3, <2>4 DEF LogHolds, Unlogged
<1>14. SimulatorTypeOK'
  <2>1. sm_cycle' \in 0 .. MmCycles /\ sm_ticks' \in 0 .. MmCycles /\ sm_ever' \in 0 .. MmMaxCycles
    BY <1>1, <1>3, SimulatorNumbers DEF SimulatorTypeOK, LogHolds
  <2> QED BY <1>1, <1>3, <1>8, <1>10, <1>12, <2>1 DEF SimulatorTypeOK
<1>15. MetricsAgree(sm_metrics', sm_inventory')
  BY <1>3, <1>10
<1>16. MetricsAgree(sm_metrics, sm_inventory)' /\ OrdersAgree(sm_metrics, sm_orders)' /\ SummaryAgrees(sm_summary)'
  BY <1>1, <1>3, <1>12, <1>15
<1> QED BY <1>13, <1>14, <1>16 DEF SimulatorHolds

LEMMA SimulatorStep ==
    ASSUME SimulatorHolds, [SimulatorNext]_sm_vars
    PROVE  SimulatorHolds'
<1>1. /\ SimulatorTypeOK /\ MetricsAgree(sm_metrics, sm_inventory) /\ OrdersAgree(sm_metrics, sm_orders)
      /\ SummaryAgrees(sm_summary) /\ LogHolds
  BY DEF SimulatorHolds
<1>2. /\ sm_cycle \in Nat /\ sm_ticks \in Nat /\ sm_ticks <= MmCycles /\ sm_log \in Nat /\ sm_ever \in Nat
      /\ sm_stops \in Nat /\ MmCycles * sm_stops \in Nat
      /\ MmCycles * (sm_stops + 1) = MmCycles * sm_stops + MmCycles
  BY <1>1, SimulatorNumbers DEF SimulatorTypeOK
<1> DEFINE lost == MmCycles * sm_stops
<1>3. /\ lost \in Nat /\ MmCycles * (sm_stops + 1) = lost + MmCycles
      /\ sm_log + Unlogged <= sm_ever /\ sm_ever - sm_log <= lost + Unlogged
      /\ Unlogged \in Nat /\ Unlogged <= MmCycles
  BY <1>1, <1>2, SimulatorNumbers DEF LogHolds, Unlogged
<1>4. CASE StartIteration
  <2>1. /\ sm_pc = "sleep" /\ sm_pc' = "run" /\ sm_cycle' = 0 /\ sm_ticks' = 0
        /\ UNCHANGED <<sm_inventory, sm_metrics, sm_orders, sm_log, sm_summary, sm_ever, sm_stops>>
    BY <1>4 DEF StartIteration
  <2>2. LogHolds'
    BY <1>1, <2>1 DEF LogHolds, Unlogged
  <2>3. SimulatorTypeOK'
    BY <1>1, <2>1, SimulatorNumbers DEF SimulatorTypeOK
  <2> QED BY <1>1, <2>1, <2>2, <2>3 DEF SimulatorHolds
<1>5. CASE RunEnded
  <2>1. /\ sm_pc = "run" /\ sm_pc' = "append" /\ sm_summary' = Summary(sm_metrics, sm_inventory)
        /\ UNCHANGED <<sm_cycle, sm_inventory, sm_metrics, sm_orders, sm_ticks, sm_log, sm_ever, sm_stops>>
    BY <1>5 DEF RunEnded
  <2>2. SummaryAgrees(sm_summary')
    BY <1>1, <2>1, SummaryOfAgreeing DEF SimulatorTypeOK
  <2>3. LogHolds'
    BY <1>1, <2>1 DEF LogHolds, Unlogged
  <2>4. SimulatorTypeOK'
    BY <1>1, <2>1, <2>2 DEF SimulatorTypeOK, SummaryAgrees
  <2> QED BY <1>1, <2>1, <2>2, <2>3, <2>4 DEF SimulatorHolds
<1>6. CASE AppendTradesLog
  <2>1. /\ sm_pc = "append" /\ sm_pc' = "sleep" /\ sm_log' = sm_log + sm_ticks
        /\ UNCHANGED <<sm_cycle, sm_inventory, sm_metrics, sm_orders, sm_ticks, sm_summary, sm_ever, sm_stops>>
    BY <1>6 DEF AppendTradesLog
  <2>2. Unlogged = sm_ticks /\ Unlogged' = 0
    BY <2>1 DEF Unlogged
  <2>3. MmCycles * sm_stops' = lost
    BY <2>1
  <2> HIDE DEF lost
  <2>4. sm_log' + 0 <= sm_ever' /\ sm_ever' - sm_log' <= lost + 0
    BY <1>2, <1>3, <2>1, <2>2
  <2>5. LogHolds'
    BY <2>1, <2>2, <2>3, <2>4 DEF LogHolds
  <2>6. SimulatorTypeOK'
    BY <1>1, <1>2, <2>1 DEF SimulatorTypeOK
  <2> QED BY <1>1, <2>1, <2>5, <2>6 DEF SimulatorHolds
<1>7. CASE IterationFails \/ RestartSimulator
  <2>1. /\ sm_pc' = "sleep" /\ sm_stops < MmMaxStops /\ sm_stops' = sm_stops + 1
        /\ sm_cycle' \in {0, sm_cycle} /\ UNCHANGED <<sm_ticks, sm_log, sm_summary, sm_ever>>
    BY <1>7 DEF IterationFails, RestartSimulator, Stops
  <2>2. Unlogged' = 0
    BY <2>1 DEF Unlogged
  <2>3. MmCycles * sm_stops' = lost + MmCycles
    BY <1>3, <2>1
  <2>4. /\ sm_inventory' \in Inventories /\ sm_metrics' \in Metrics /\ sm_orders' \in [MmMarkets -> OrderCounts]
        /\ MetricsAgree(sm_metrics', sm_inventory') /\ OrdersAgree(sm_metrics', sm_orders')
    <3>1. CASE IterationFails
      BY <1>1, <3>1 DEF IterationFails, SimulatorTypeOK
    <3>2. CASE RestartSimulator
      BY <3>2, NewBotAgrees DEF RestartSimulator, NewBot
    <3> QED BY <1>7, <3>1, <3>2
  <2> HIDE DEF lost
  <2>5. sm_log' + 0 <= sm_ever' /\ sm_ever' - sm_log' <= (lost + MmCycles) + 0
    BY <1>2, <1>3, <2>1, SimulatorNumbers
  <2>6. LogHolds'
    BY <2>1, <2>2, <2>3, <2>5 DEF LogHolds
  <2>7. SimulatorTypeOK'
    <3>1. sm_cycle' \in 0 .. MmCycles /\ sm_stops' \in 0 .. MmMaxStops
      BY <1>1, <2>1, SimulatorNumbers DEF SimulatorTypeOK
    <3> QED BY <1>1, <2>1, <2>4, <3>1 DEF SimulatorTypeOK
  <2> QED BY <1>1, <2>1, <2>4, <2>6, <2>7 DEF SimulatorHolds
<1>8. CASE \E tick \in MmTicks, side \in {"YES", "NO"}, taker \in BOOLEAN : RunSimulatedCycle(tick, side, taker)
  BY <1>8, SimulatedCycleKeeps
<1>9. CASE UNCHANGED sm_vars
  <2>1. UNCHANGED <<sm_pc, sm_cycle, sm_inventory, sm_metrics, sm_orders, sm_ticks, sm_log, sm_summary, sm_ever, sm_stops>>
    BY <1>9 DEF sm_vars
  <2>2. LogHolds' /\ SimulatorTypeOK'
    BY <1>1, <2>1 DEF LogHolds, Unlogged, SimulatorTypeOK
  <2> QED BY <1>1, <2>1, <2>2 DEF SimulatorHolds
<1> QED BY <1>4, <1>5, <1>6, <1>7, <1>8, <1>9 DEF SimulatorNext

LEMMA SimulatorHoldsBooks == SimulatorHolds => SimulatorBooks
<1> SUFFICES ASSUME SimulatorHolds PROVE SimulatorBooks
  OBVIOUS
<1>1. /\ SimulatorTypeOK /\ MetricsAgree(sm_metrics, sm_inventory) /\ OrdersAgree(sm_metrics, sm_orders)
      /\ SummaryAgrees(sm_summary) /\ LogHolds
  BY DEF SimulatorHolds
<1>2. BooksAgree
  BY <1>1 DEF BooksAgree, MetricsAgree, OrdersAgree, SummaryAgrees, Counts
<1>3. QuotesAreSafe
  <2> SUFFICES ASSUME NEW tick \in MmTicks
               PROVE  LET quotes == BuildQuotes(tick, sm_inventory)
                      IN /\ quotes.yes_bid < quotes.yes_ask /\ quotes.no_bid < quotes.no_ask
                         /\ quotes.yes_bid + quotes.no_bid < 10000 /\ quotes.yes_ask + quotes.no_ask > 10000
    BY DEF QuotesAreSafe
  <2> DEFINE quotes == BuildQuotes(tick, sm_inventory)
  <2>1. Mirrored(quotes)
    BY <1>1, QuotesMirrored DEF SimulatorTypeOK
  <2> HIDE DEF quotes
  <2>2. /\ quotes.yes_bid < quotes.yes_ask /\ quotes.no_bid < quotes.no_ask
        /\ quotes.yes_bid + quotes.no_bid < 10000 /\ quotes.yes_ask + quotes.no_ask > 10000
    BY <2>1, SpreadNumbers, SMT DEF Mirrored
  <2> QED BY <2>2 DEF quotes
<1>4. EveryCycleWins
  BY <1>1 DEF EveryCycleWins, MetricsAgree, SummaryAgrees
<1>5. LogLossesByStops
  <2> DEFINE lost == MmCycles * sm_stops
  <2>1. /\ sm_ticks \in Nat /\ sm_ticks <= MmCycles /\ sm_log \in Nat /\ sm_ever \in Nat /\ sm_stops \in Nat
        /\ lost \in Nat /\ MmCycles * (sm_stops + 1) = lost + MmCycles
    BY <1>1, SimulatorNumbers DEF SimulatorTypeOK
  <2>2. sm_stops = 0 => lost = 0
    BY SimulatorNumbers
  <2>3. /\ sm_log + Unlogged <= sm_ever /\ sm_ever - sm_log <= lost + Unlogged
        /\ Unlogged \in Nat /\ Unlogged <= MmCycles
        /\ sm_pc = "sleep" => Unlogged = 0
    BY <1>1, <2>1, SimulatorNumbers DEF LogHolds, Unlogged
  <2> HIDE DEF lost
  <2>4. sm_log <= sm_ever /\ sm_ever - sm_log <= lost + MmCycles
    BY <2>1, <2>3, SimulatorNumbers
  <2>5. sm_stops = 0 /\ sm_pc = "sleep" => sm_log = sm_ever
    BY <2>1, <2>2, <2>3
  <2> QED BY <2>1, <2>4, <2>5 DEF LogLossesByStops
<1> QED BY <1>2, <1>3, <1>4, <1>5 DEF SimulatorBooks

\* The MVP's inventories stay within both limits, for any number of markets and
\* restarts; MM001's books, counters and log agree for any prices, and with the
\* fees and spread of its configuration its quotes stay safe and every cycle wins.
THEOREM MarketMakerBooksAgree == ProgramsSpec => []MarketMakerBooks
<1>1. ProgramsInit => MakerHolds /\ FillsCounted /\ SimulatorHolds
  BY MakerInit, SimulatorStarts DEF ProgramsInit, MarketMakerInit, FillsCounted, FillsAreMarked
<1>2. MakerHolds /\ FillsCounted /\ SimulatorHolds /\ [ProgramsNext]_program_vars
        => MakerHolds' /\ FillsCounted' /\ SimulatorHolds'
  BY StepOfEach, MakerStep, FillsStep, SimulatorStep
<1>3. MakerHolds => InventoryLimits
  <2> SUFFICES ASSUME MakerHolds PROVE InventoryLimits
    OBVIOUS
  <2> DEFINE held == SumFunctionOnSet(LotsHeld, Pairs)
             back == mm_repeats * MaxInventory
  <2>1. held <= mm_inventory + back /\ mm_inventory <= MaxGlobalInventory
    BY DEF MakerHolds
  <2>2. held \in Int /\ back \in Nat /\ mm_inventory \in Nat /\ MaxGlobalInventory \in Nat
    BY LotsTyped, MakerNumbers DEF MakerHolds, MarketMakerTypeOK
  <2> HIDE DEF held, back
  <2>3. held <= MaxGlobalInventory + back
    BY <2>1, <2>2
  <2> QED BY <2>3, FillsLimited DEF held, back, InventoryLimits
<1>4. MakerHolds /\ FillsCounted /\ SimulatorHolds => MarketMakerBooks
  BY <1>3, SimulatorHoldsBooks DEF FillsCounted, MarketMakerBooks
<1> QED BY <1>1, <1>2, <1>4, PTL DEF ProgramsSpec

-----------------------------------------------------------------------------
(* All programs: types *)

ProgramsHold ==
    /\ program \in ProgramNames
    /\ StrategyHolds /\ AutopilotHolds /\ MakerHolds /\ EngineHolds /\ BooksHold /\ CrawlHolds
    /\ SimulatorHolds /\ LimiterHolds /\ MvpHolds /\ TalicHolds

\* Every variable of the ten programs keeps its type and its bounds for any values
\* of the constants, with one trade per market (Korlic's max_trades_per_market) and
\* a loss limit above zero (mean_reversion.py's max_consecutive_losses is 3): the
\* consecutive losses never pass the limit, a queue never holds more than the pages
\* read, no window counts more than the limit, a crawl reads its pages in order.
THEOREM ProgramsTyped == KMaxTrades = 1 /\ MaxLosses > 0 /\ ProgramsSpec => []ProgramsTypeOK
<1> SUFFICES ASSUME KMaxTrades = 1, MaxLosses > 0 PROVE ProgramsSpec => []ProgramsTypeOK
  OBVIOUS
<1>1. ProgramsInit => ProgramsHold
  BY StrategyBegins, AutopilotHoldsInit, MakerInit, EngineBegins, BooksInit, CrawlInit, SimulatorStarts,
     LimiterInit, MvpBegins, TalicBegins DEF ProgramsInit, ProgramsHold
<1>2. ProgramsHold /\ [ProgramsNext]_program_vars => ProgramsHold'
  <2> SUFFICES ASSUME ProgramsHold, [ProgramsNext]_program_vars PROVE ProgramsHold'
    OBVIOUS
  <2>1. program' = program
    BY DEF ProgramsNext, StrategyRuns, AutopilotRuns, MarketMakerRuns, EngineRuns, KorlicRuns,
           ListingRuns, SimulatorRuns, RateLimitsRuns, MvpRuns, TalicRuns, program_vars
  <2>2. StrategyHolds' /\ AutopilotHolds' /\ MakerHolds' /\ EngineHolds'
    BY StepOfEach, StrategyStep, AutopilotStep, MakerStep, EngineStep DEF ProgramsHold
  <2>3. BooksHold' /\ CrawlHolds' /\ SimulatorHolds' /\ LimiterHolds' /\ MvpHolds' /\ TalicHolds'
    BY StepOfEach, BooksStep, CrawlStep, SimulatorStep, LimiterStep, MvpStep, TalicStep DEF ProgramsHold
  <2> QED BY <2>1, <2>2, <2>3 DEF ProgramsHold
<1>3. ProgramsHold => ProgramsTypeOK
  BY DEF ProgramsHold, ProgramsTypeOK, StrategyHolds, AutopilotHolds, MakerHolds, EngineHolds, BooksHold,
         CrawlHolds, SimulatorHolds, LimiterHolds, MvpHolds, TalicHolds
<1> QED BY <1>1, <1>2, <1>3, PTL DEF ProgramsSpec
=============================================================================
