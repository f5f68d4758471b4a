--------------------------- MODULE OrderBookSource ---------------------------
(***************************************************************************)
(* ClobOrderBookSource of MM001 (bot.py): the two mid prices of a market,  *)
(* kept by two threads.  The websocket thread writes one side at a time;   *)
(* the main thread, in refresh_cache, reuses what it finds or fetches both *)
(* sides by REST.  Every access to the cache holds _stream_lock, the REST  *)
(* calls do not.                                                           *)
(*                                                                         *)
(* A mid is its age: the ticks since it was written, FreshFor standing for *)
(* every age from there on.  A call ends in "refreshed", "missing" (a 404, *)
(* no orderbook exists) or "error" (anything else), and its caller goes on.*)
(***************************************************************************)
EXTENDS Integers

CONSTANTS
    Sources,
    FreshFor    \* the two seconds of refresh_cache, in ticks

ASSUME FreshForAssumption == FreshFor \in Nat \ {0}

VARIABLES
    latest_mid,     \* _latest_yes_mid and _latest_no_mid of each source
    last_refresh,   \* age of _last_refresh_ts
    streaming,      \* sources whose websocket thread was started
    fetched,        \* sides the call in progress has fetched
    missing,        \* sources whose book the exchange has removed
    pc              \* where the main thread is

cache_vars == <<latest_mid, last_refresh>>
source_vars == <<latest_mid, last_refresh, streaming, fetched, missing, pc>>

Sides == {"yes", "no"}
Unknown == -1

Ages == 0 .. FreshFor
Outcomes == {"refreshed", "missing", "error"}

SourceTypeOK ==
    /\ latest_mid \in [Sources -> [Sides -> Ages \cup {Unknown}]]
    /\ last_refresh \in [Sources -> Ages]
    /\ streaming \subseteq Sources
    /\ fetched \subseteq Sides
    /\ missing \subseteq Sources

SourceInit ==
    /\ latest_mid = [s \in Sources |-> [side \in Sides |-> Unknown]]
    /\ last_refresh = [s \in Sources |-> FreshFor]
    /\ streaming = {} /\ fetched = {} /\ missing = {}

-----------------------------------------------------------------------------
(* The websocket thread *)

\* Altered: a message about any token counts as a refresh.
ApplyWsMessageOfAnyToken(s, side) ==
    /\ s \in streaming
    /\ \/ latest_mid' = [latest_mid EXCEPT ![s][side] = 0]
       \/ UNCHANGED latest_mid
    /\ last_refresh' = [last_refresh EXCEPT ![s] = 0]
    /\ UNCHANGED <<streaming, fetched, missing, pc>>

\* A book message; others, and those of other tokens, change nothing.
ApplyWsMessage(s, side) ==
    /\ s \in streaming
    /\ latest_mid' = [latest_mid EXCEPT ![s][side] = 0]
    /\ last_refresh' = [last_refresh EXCEPT ![s] = 0]
    /\ UNCHANGED <<streaming, fetched, missing, pc>>

-----------------------------------------------------------------------------
(* refresh_cache, in the main thread *)

EnsureWsThread(s) ==
    /\ pc = "refresh"
    /\ streaming' = streaming \cup {s}
    /\ pc' = "check"
    /\ UNCHANGED <<latest_mid, last_refresh, fetched, missing>>

\* Altered: one known side is enough.
HasAnyState(s) == \E side \in Sides : latest_mid[s][side] # Unknown

HasHotState(s) == \A side \in Sides : latest_mid[s][side] # Unknown
IsFresh(s) == last_refresh[s] < FreshFor

ReuseCache(s) ==
    /\ pc = "check"
    /\ HasHotState(s) /\ IsFresh(s)
    /\ pc' = "refreshed"
    /\ UNCHANGED <<latest_mid, last_refresh, streaming, fetched, missing>>

BeginFetch(s) ==
    /\ pc = "check"
    /\ ~(HasHotState(s) /\ IsFresh(s))
    /\ pc' = "fetch"
    /\ UNCHANGED <<latest_mid, last_refresh, streaming, fetched, missing>>

\* The two REST calls run side by side, each with three attempts.
FetchMid(s, side) ==
    /\ pc = "fetch"
    /\ side \notin fetched
    /\ s \notin missing
    /\ fetched' = fetched \cup {side}
    /\ UNCHANGED <<latest_mid, last_refresh, streaming, missing, pc>>

\* The first exception of the two ends refresh_cache; an empty book is an error.
FetchFails(s, outcome) ==
    /\ pc = "fetch"
    /\ fetched # Sides
    /\ outcome = "missing" => s \in missing
    /\ pc' = outcome
    /\ fetched' = {}
    /\ UNCHANGED <<latest_mid, last_refresh, streaming, missing>>

StoreMids(s) ==
    /\ pc = "fetch"
    /\ fetched = Sides
    /\ latest_mid' = [latest_mid EXCEPT ![s] = [side \in Sides |-> 0]]
    /\ last_refresh' = [last_refresh EXCEPT ![s] = 0]
    /\ fetched' = {}
    /\ pc' = "refreshed"
    /\ UNCHANGED <<streaming, missing>>

RefreshStep(s) ==
    \/ EnsureWsThread(s)
    \/ ReuseCache(s)
    \/ BeginFetch(s)
    \/ \E side \in Sides : FetchMid(s, side)
    \/ \E outcome \in {"missing", "error"} : FetchFails(s, outcome)
    \/ StoreMids(s)

-----------------------------------------------------------------------------
(* The world *)

Older(age) == IF age \in {Unknown, FreshFor} THEN age ELSE age + 1

TimePasses ==
    /\ latest_mid' = [s \in Sources |-> [side \in Sides |-> Older(latest_mid[s][side])]]
    /\ last_refresh' = [s \in Sources |-> Older(last_refresh[s])]
    /\ UNCHANGED <<streaming, fetched, missing, pc>>

Delist(s) ==
    /\ s \notin missing
    /\ missing' = missing \cup {s}
    /\ UNCHANGED <<latest_mid, last_refresh, streaming, fetched, pc>>

WorldStep ==
    \/ \E s \in Sources, side \in Sides : ApplyWsMessage(s, side)
    \/ TimePasses
    \/ \E s \in Sources : Delist(s)

-----------------------------------------------------------------------------
\* The one timestamp of a source is that of its newest side: a source is called
\* fresh only if a mid of its own was written less than FreshFor ago.
TimestampIsNewest ==
    \A s \in Sources :
        /\ \E side \in Sides : latest_mid[s][side] = last_refresh[s] \/ ~IsFresh(s)
        /\ \A side \in Sides : latest_mid[s][side] # Unknown =>
               last_refresh[s] <= latest_mid[s][side]
=============================================================================
