---------------------------- MODULE GammaListing ----------------------------
(***************************************************************************)
(* The crawl of active markets (PublicGammaClient in the Madawc and Korlic *)
(* factories): the seed event first, then pages of events until a page     *)
(* yields fewer markets than page_limit, each page flattened, filtered and *)
(* merged by market id, and the bot's _retry around the whole of it.       *)
(*                                                                         *)
(* Pages are windows of a list that changes: while the crawl runs an event *)
(* can leave it, when it is closed, or enter it at its head.               *)
(***************************************************************************)
EXTENDS Integers, Sequences, FiniteSets, SequencesExt

CONSTANTS
    Events,         \* events Gamma can list
    MarketsOf,      \* the markets of each event, as records of GammaMarket
    Listings,       \* lists of events at the start of a crawl
    SeedEvent,      \* config seed_event_slug, an event that always answers
    EventsPerPage,  \* page_limit
    MaxPages,       \* max_pages; 0: no cap
    RetryMax,       \* bot config retry_max
    MaxListChanges, \* bound
    NoRecords       \* get_active_markets has not answered

\* open: active and not closed.  valid: an end time, token ids and an id parse.
GammaMarket == [id : Int, open : BOOLEAN, valid : BOOLEAN]
MarketIds == {mk.id : mk \in UNION {ToSet(MarketsOf[e]) : e \in Events}}

ASSUME ListingAssumption ==
    /\ IsFiniteSet(Events) /\ SeedEvent \in Events
    /\ MarketsOf \in [Events -> Seq(GammaMarket)]
    /\ \A listing \in Listings : listing \in Seq(Events) /\ IsInjective(listing)
    /\ EventsPerPage \in Nat \ {0} /\ RetryMax \in Nat \ {0}
    /\ MaxPages \in Nat /\ MaxListChanges \in Nat

VARIABLES
    gl_listing,     \* what Gamma lists now
    gl_standing,    \* events listed ever since the crawl began
    gl_left,        \* events that left during this crawl
    gl_pc,
    gl_attempt,     \* of _retry
    gl_offset, gl_page,
    gl_records,     \* keys of records_by_market_id
    gl_result,      \* what get_active_markets returned last
    gl_changes

gl_vars == <<gl_listing, gl_standing, gl_left, gl_pc, gl_attempt, gl_offset, gl_page,
             gl_records, gl_result, gl_changes>>

ListingTypeOK ==
    /\ gl_listing \in Seq(Events) /\ IsInjective(gl_listing)
    /\ gl_standing \subseteq Events
    /\ gl_pc \in {"seed", "page", "done", "failed"}
    /\ gl_attempt \in 1 .. RetryMax
    /\ gl_page \in Nat \ {0} /\ gl_offset = (gl_page - 1) * EventsPerPage
    /\ gl_records \subseteq MarketIds
    /\ gl_result = NoRecords \/ gl_result \subseteq MarketIds

ListingInit ==
    /\ gl_listing \in Listings
    /\ gl_standing = ToSet(gl_listing)
    /\ gl_left = 0
    /\ gl_pc = "seed" /\ gl_attempt = 1
    /\ gl_offset = 0 /\ gl_page = 1
    /\ gl_records = {} /\ gl_result = NoRecords
    /\ gl_changes = 0

-----------------------------------------------------------------------------
\* _flatten_event_markets
Flatten(events) == FlattenSeq([i \in DOMAIN events |-> MarketsOf[events[i]]])

\* The second filter of the page, then _to_market_record and _collect_records.
Collected(markets) == {mk.id : mk \in {x \in ToSet(markets) : x.open /\ x.valid}}

\* _fetch_seed_event_markets
FetchSeed ==
    /\ gl_pc = "seed"
    /\ gl_records' = Collected(MarketsOf[SeedEvent])
    /\ gl_pc' = "page"
    /\ UNCHANGED <<gl_listing, gl_standing, gl_left, gl_attempt, gl_offset, gl_page,
                   gl_result, gl_changes>>

Capped == MaxPages > 0 /\ gl_page > MaxPages

\* The query's answer: `limit' events from `offset'.
EventsAt(offset) ==
    SubSeq(gl_listing, offset + 1,
           IF offset + EventsPerPage <= Len(gl_listing) THEN offset + EventsPerPage
           ELSE Len(gl_listing))

Finish ==
    /\ gl_pc' = "done"
    /\ gl_result' = gl_records'
    /\ UNCHANGED <<gl_offset, gl_page>>

StopAtCap ==
    /\ gl_pc = "page" /\ Capped
    /\ gl_records' = gl_records
    /\ Finish
    /\ UNCHANGED <<gl_listing, gl_standing, gl_left, gl_attempt, gl_changes>>

\* Altered: a page is the last when it has fewer open markets than the limit.
LastPageByOpenMarkets(markets) ==
    Cardinality(Collected(markets)) < EventsPerPage
\* The limit counts events, the page's length its markets.
LastPage(markets) == Len(markets) < EventsPerPage

FetchPage ==
    /\ gl_pc = "page" /\ ~Capped
    /\ LET markets == Flatten(EventsAt(gl_offset))
       IN /\ gl_records' = gl_records \cup Collected(markets)
          /\ IF LastPage(markets)
             THEN Finish
             ELSE /\ gl_offset' = gl_offset + EventsPerPage
                  /\ gl_page' = gl_page + 1
                  /\ UNCHANGED <<gl_pc, gl_result>>
    /\ UNCHANGED <<gl_listing, gl_standing, gl_left, gl_attempt, gl_changes>>

\* A request raises: the records are lost and _retry begins again, or gives up.
RequestRaises ==
    /\ gl_pc \in {"seed", "page"} /\ ~(gl_pc = "page" /\ Capped)
    /\ gl_offset' = 0 /\ gl_page' = 1 /\ gl_records' = {}
    /\ gl_standing' = ToSet(gl_listing) /\ gl_left' = 0
    /\ IF gl_attempt < RetryMax
       THEN gl_attempt' = gl_attempt + 1 /\ gl_pc' = "seed"
       ELSE gl_attempt' = gl_attempt /\ gl_pc' = "failed"
    /\ UNCHANGED <<gl_listing, gl_result, gl_changes>>

\* The next cycle of the bot asks again.
CrawlAgain ==
    /\ gl_pc \in {"done", "failed"}
    /\ gl_pc' = "seed" /\ gl_attempt' = 1
    /\ gl_offset' = 0 /\ gl_page' = 1 /\ gl_records' = {} /\ gl_result' = NoRecords
    /\ gl_standing' = ToSet(gl_listing) /\ gl_left' = 0
    /\ UNCHANGED <<gl_listing, gl_changes>>

\* The exchange closes an event, or lists a new one first.
EventLeaves(i) ==
    /\ gl_changes < MaxListChanges /\ gl_pc # "done"
    /\ gl_changes' = gl_changes + 1
    /\ gl_listing' = RemoveAt(gl_listing, i)
    /\ gl_standing' = gl_standing \ {gl_listing[i]}
    /\ gl_left' = gl_left + 1
    /\ UNCHANGED <<gl_pc, gl_attempt, gl_offset, gl_page, gl_records, gl_result>>

EventEnters(e) ==
    /\ gl_changes < MaxListChanges /\ gl_pc # "done"
    /\ e \notin ToSet(gl_listing)
    /\ gl_changes' = gl_changes + 1
    /\ gl_listing' = <<e>> \o gl_listing
    /\ UNCHANGED <<gl_standing, gl_left, gl_pc, gl_attempt, gl_offset, gl_page,
                   gl_records, gl_result>>

ListingNext ==
    \/ FetchSeed
    \/ StopAtCap
    \/ FetchPage
    \/ RequestRaises
    \/ CrawlAgain
    \/ \E i \in DOMAIN gl_listing : EventLeaves(i)
    \/ \E e \in Events : EventEnters(e)

-----------------------------------------------------------------------------
MissingFrom(result, e) == ~(Collected(MarketsOf[e]) \subseteq result)
EveryEventHasMarkets == \A e \in Events : MarketsOf[e] # <<>>
Uncapped == MaxPages = 0 \/ gl_page <= MaxPages

\* A crawl that ends by itself returns the open markets of every event that was
\* listed all along, except that each event that left meanwhile moved at most one
\* other in front of the next page's offset.  This needs every event to have a
\* market: an event without one shortens its page and ends the crawl early.
CrawlComplete ==
    gl_pc = "done" /\ Uncapped /\ EveryEventHasMarkets =>
        Cardinality({e \in gl_standing : MissingFrom(gl_result, e)}) <= gl_left
=============================================================================
