--------------------------- MODULE SourceRotation ---------------------------
(***************************************************************************)
(* MultiClobOrderBookSource (MM001/bot.py) and the launcher that drives    *)
(* it.  An iteration takes Cycles ticks from the sources in turn; between  *)
(* iterations every source is refreshed once a second.  A source whose     *)
(* book does not exist any more is dropped from the pool; any other        *)
(* exception ends the iteration, or the refresh, and the launcher logs it. *)
(***************************************************************************)
EXTENDS OrderBookSource, Sequences, FiniteSets, Functions

CONSTANTS
    Cycles,         \* SIMULATION_CYCLES, the ticks of an iteration
    Chunks,         \* seconds slept between iterations
    CursorModulus   \* bound: the cursor is kept modulo this

\* _cursor grows without end and is only used modulo a length of the pool.
ASSUME RotationAssumption ==
    /\ IsFiniteSet(Sources)
    /\ {Cycles, Chunks, CursorModulus} \subseteq Nat \ {0}
    /\ \A n \in 1 .. Cardinality(Sources) : CursorModulus % n = 0

VARIABLES
    sources,    \* the pool
    cursor,
    index,      \* position of the source being visited or refreshed
    caller,     \* the method the launcher is calling
    remaining   \* ticks left in the iteration, or seconds left to sleep

rotation_vars == <<sources, cursor, index, caller, remaining>>
vars == <<source_vars, rotation_vars>>

InCall == pc \in {"refresh", "check", "fetch"} \cup Outcomes

TypeOK ==
    /\ SourceTypeOK
    /\ InCall \/ pc \in {"cycle", "sleep", "scan"}
    /\ sources \in Seq(Sources) /\ IsInjective(sources)
    /\ Len(sources) <= Cardinality(Sources)
    /\ cursor \in Nat
    /\ index \in 1 .. Cardinality(Sources) + 1
    /\ InCall => index <= Len(sources)
    /\ caller \in {"next_tick", "refresh_cache"}
    /\ remaining \in 1 .. IF caller = "next_tick" THEN Cycles ELSE Chunks
    /\ pc = "cycle" => caller = "next_tick"
    /\ pc \in {"sleep", "scan"} => caller = "refresh_cache"

\* build_bot puts the pairs it resolved into the pool, in the order it met them.
Init ==
    /\ SourceInit
    /\ sources \in {pool \in [1 .. Cardinality(Sources) -> Sources] : IsInjective(pool)}
    /\ cursor = 0 /\ index = 1
    /\ caller = "next_tick" /\ remaining = Cycles
    /\ pc = "cycle"

-----------------------------------------------------------------------------
(* The launcher's loop *)

\* _sleep_with_refresh refreshes first, then sleeps a second.
StartSleeping == pc' = "sleep" /\ caller' = "refresh_cache" /\ remaining' = Chunks

StartIteration == pc' = "cycle" /\ caller' = "next_tick" /\ remaining' = Cycles

SecondSlept ==
    IF remaining > 1
    THEN pc' = "sleep" /\ remaining' = remaining - 1 /\ UNCHANGED caller
    ELSE StartIteration

-----------------------------------------------------------------------------
(* next_tick *)

\* Altered: the cursor is not reduced to the length of the pool.
RawTurn == cursor + 1
\* The position whose turn it is.
Turn == (cursor % Len(sources)) + 1

VisitNext ==
    /\ pc = "cycle"
    /\ sources # <<>>
    /\ index' = Turn
    /\ cursor' = (cursor + 1) % CursorModulus
    /\ pc' = "refresh"
    /\ UNCHANGED <<cache_vars, streaming, fetched, missing, sources, caller, remaining>>

\* "no hay orderbooks configurados": run_all raises.
NoSourceLeft ==
    /\ pc = "cycle"
    /\ sources = <<>>
    /\ StartSleeping
    /\ UNCHANGED <<cache_vars, streaming, fetched, missing, sources, cursor, index>>

\* Both mids are read again, under the lock, and the cycle is finished.
ReturnTick ==
    /\ pc = "refreshed" /\ caller = "next_tick"
    /\ IF remaining > 1
       THEN pc' = "cycle" /\ remaining' = remaining - 1 /\ UNCHANGED caller
       ELSE StartSleeping
    /\ UNCHANGED <<cache_vars, streaming, fetched, missing, sources, cursor, index>>

-----------------------------------------------------------------------------
(* refresh_cache *)

BeginScan ==
    /\ pc = "sleep"
    /\ index' = 1
    /\ pc' = "scan"
    /\ UNCHANGED <<cache_vars, streaming, fetched, missing, sources, cursor, caller, remaining>>

RefreshNext ==
    /\ pc = "scan"
    /\ index <= Len(sources)
    /\ pc' = "refresh"
    /\ UNCHANGED <<cache_vars, streaming, fetched, missing, rotation_vars>>

StepIndex ==
    /\ pc = "refreshed" /\ caller = "refresh_cache"
    /\ index' = index + 1
    /\ pc' = "scan"
    /\ UNCHANGED <<cache_vars, streaming, fetched, missing, sources, cursor, caller, remaining>>

EndScan ==
    /\ pc = "scan"
    /\ index > Len(sources)
    /\ SecondSlept
    /\ UNCHANGED <<cache_vars, streaming, fetched, missing, sources, cursor, index>>

-----------------------------------------------------------------------------
(* Exceptions *)

Without(pool, i) == [j \in 1 .. Len(pool) - 1 |-> IF j < i THEN pool[j] ELSE pool[j + 1]]

\* Altered: the position under the cursor, which is already the next one.
RemovedAtCursor == (cursor % Len(sources)) + 1
\* The position next_tick and refresh_cache remove: the one they have called.
RemovedAt == index

\* Altered: the scan steps over the source that has moved to index.
ResumeBehind == index + 1
\* The position a scan continues at after a removal.
ResumeAt == index

\* _remove_source_at; next_tick then turns to the source under the cursor.
RemoveSource ==
    /\ pc = "missing"
    /\ sources' = Without(sources, RemovedAt)
    /\ cursor' = IF sources' = <<>> THEN 0 ELSE cursor % Len(sources')
    /\ pc' = IF caller = "next_tick" THEN "cycle" ELSE "scan"
    /\ index' = ResumeAt
    /\ UNCHANGED <<cache_vars, streaming, fetched, missing, caller, remaining>>

\* Altered: the cursor moves on only when a source has answered.
TurnGivenBack == (cursor + CursorModulus - 1) % CursorModulus
\* next_tick has advanced the cursor before it called the source.
TurnAfterError == cursor

\* The launcher logs the exception of the iteration, or of the refresh.
CallFails ==
    /\ pc = "error"
    /\ IF caller = "next_tick"
       THEN StartSleeping /\ cursor' = TurnAfterError
       ELSE SecondSlept /\ UNCHANGED cursor
    /\ UNCHANGED <<cache_vars, streaming, fetched, missing, sources, index>>

-----------------------------------------------------------------------------
LauncherStep ==
    \/ VisitNext \/ NoSourceLeft \/ ReturnTick
    \/ BeginScan \/ RefreshNext \/ StepIndex \/ EndScan
    \/ RemoveSource \/ CallFails
    \/ InCall /\ RefreshStep(sources[index]) /\ UNCHANGED rotation_vars

Next ==
    \/ LauncherStep
    \/ WorldStep /\ UNCHANGED rotation_vars

\* The main thread is never blocked: a REST call ends, if only by its timeout.
Spec == Init /\ [][Next]_vars
FairSpec == Spec /\ WF_vars(LauncherStep)

-----------------------------------------------------------------------------
(* What the rotation promises *)

BothMidsKnown(s) == \A side \in Sides : latest_mid[s][side] # Unknown

\* A tick, or a refresh, never finds a side without a mid, whatever the
\* websocket wrote in between: the fallback at the end of next_tick is dead code.
TickIsComplete == pc = "refreshed" => BothMidsKnown(sources[index])

\* Dropping a source during the scan skips nobody: all sources before index have
\* been refreshed, so each has both mids.
ScanSkipsNobody ==
    pc = "scan" => \A i \in 1 .. index - 1 : BothMidsKnown(sources[i])

\* A source leaves the pool only if its book is gone.
OnlyMissingDropped ==
    [][\A s \in Range(sources) \ Range(sources') : s \in missing]_vars

\* Every source left in the pool is asked for a tick again and again, although
\* other sources fail at every visit, and whatever is dropped on the way.
EverySourceVisited ==
    \A s \in Sources :
        []<>(\/ s \notin Range(sources)
             \/ caller = "next_tick" /\ pc = "check" /\ sources[index] = s)

\* LLD.md says of refresh_cache: "si hay mids recientes vía WS (<2s), reutiliza
\* caché": the cache is reused only if both of its mids are recent.
ReuseIsFresh ==
    [][pc = "check" /\ pc' = "refreshed" =>
          \A side \in Sides : latest_mid[sources[index]][side] < FreshFor]_vars
=============================================================================
