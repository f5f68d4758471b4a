-------------------------- MODULE ClobClientProofs --------------------------
(***************************************************************************)
(* Theorems about the CLOB client, for any number of callers, faults,      *)
(* pages, nonces, orders, books and quotes: what the exchange carries out  *)
(* is explained, what it receives can be verified, credentials are the     *)
(* ones asked for, orders have the rules of their market and amounts at    *)
(* their price, listings are complete, and the two orders of a quote match.*)
(***************************************************************************)
EXTENDS ClobClient, SumsProofs

\* A step of the whole is a step of each part or leaves it alone.
LEMMA StepOfEachPart ==
    ASSUME [ClobNext]_client_vars
    PROVE  /\ [HttpNext]_http_vars
           /\ [RequestsNext]_rq_vars
           /\ [SessionNext]_cs_vars
           /\ [CreationNext]_co_vars
           /\ [AmountsNext]_oa_vars
           /\ [RfqNext]_rfq_vars
<1>1. CASE UNCHANGED client_vars
  BY <1>1 DEF client_vars
<1>2. CASE HttpStep
  BY <1>2 DEF HttpStep
<1>3. CASE RequestsStep
  BY <1>3 DEF RequestsStep
<1>4. CASE SessionStep
  BY <1>4 DEF SessionStep
<1>5. CASE RfqStep
  BY <1>5 DEF RfqStep
<1>6. CASE CreationStep \/ AmountsStep
  BY <1>6 DEF CreationStep, AmountsStep
<1> QED BY <1>1, <1>2, <1>3, <1>4, <1>5, <1>6 DEF ClobNext

-----------------------------------------------------------------------------
(* The transport *)

HttpSteps == {"send", "sent", "executed", "close", "renew"} \cup Returned

\* An attempt executes a call at most once, and only the first may be repeated.
AttemptsCounted ==
    /\ http_pc \in [Callers -> HttpSteps]
    /\ http_try \in [Callers -> {1, 2}]
    /\ http_executed \in [Callers -> Nat] /\ http_lost \in [Callers -> Nat]
    /\ \A c \in Callers :
          /\ http_executed[c] <= IF http_pc[c] \in {"send", "sent"} THEN http_try[c] - 1 ELSE http_try[c]
          /\ http_executed[c] = http_lost[c] + IF http_pc[c] \in {"executed", "ok"} THEN 1 ELSE 0
          /\ http_pc[c] \in {"close", "renew"} => http_try[c] = 1

\* Until the network fails, the first client serves everybody.
QuietNetwork ==
    /\ http_faults \in Nat
    /\ http_using \in [Callers -> Nat]
    /\ http_faults = 0 =>
          /\ http_client = 1 /\ http_open = {1}
          /\ \A c \in Callers :
                /\ http_pc[c] \notin {"close", "renew", "closed"}
                /\ http_pc[c] \in {"sent", "executed"} => http_using[c] = 1

HttpInv == AttemptsCounted /\ QuietNetwork /\ http_client \in Nat

LEMMA HttpInvInit == HttpInit => HttpInv
BY DEF HttpInit, HttpInv, AttemptsCounted, QuietNetwork, HttpSteps

LEMMA HttpInvStep ==
    ASSUME HttpInv, [HttpNext]_http_vars
    PROVE  HttpInv'
<1> USE DEF HttpInv, AttemptsCounted, QuietNetwork, HttpSteps, Returned, Go
<1>1. ASSUME NEW c \in Callers, Send(c) PROVE HttpInv'
  BY <1>1 DEF Send
<1>2. ASSUME NEW c \in Callers, Execute(c) PROVE HttpInv'
  BY <1>2 DEF Execute
<1>3. ASSUME NEW c \in Callers, Answered(c) \/ Refused(c) PROVE HttpInv'
  BY <1>3 DEF Answered, Refused
<1>4. ASSUME NEW c \in Callers, NoAnswer(c) PROVE HttpInv'
  BY <1>4 DEF NoAnswer, Broken, MayRetryCall
<1>5. ASSUME NEW c \in Callers, ConnectionFails(c) PROVE HttpInv'
  BY <1>5 DEF ConnectionFails, Broken
<1>6. ASSUME NEW c \in Callers, CloseClient(c) PROVE HttpInv'
  BY <1>6 DEF CloseClient
<1>7. ASSUME NEW c \in Callers, RenewClient(c) PROVE HttpInv'
  BY <1>7 DEF RenewClient
<1>8. CASE UNCHANGED http_vars
  BY <1>8 DEF http_vars
<1> QED BY <1>1, <1>2, <1>3, <1>4, <1>5, <1>6, <1>7, <1>8 DEF HttpNext

LEMMA HttpInvExplains == HttpInv => CallsExplained
BY DEF HttpInv, AttemptsCounted, QuietNetwork, CallsExplained, HttpSteps, Returned

-----------------------------------------------------------------------------
(* Credentials *)

LEMMA CredsStep ==
    ASSUME CredsObtained, [SessionNext]_cs_vars
    PROVE  CredsObtained'
<1> USE DEF CredsObtained, accountState, keyCall, listing, Return, Outcome, NoAnswerYet, ListingDropped
<1>1. CASE CreateApiKey
  BY <1>1 DEF CreateApiKey, CreateFails, CreateRefused, KeyCreated
<1>2. CASE DeriveApiKey
  BY <1>2 DEF DeriveApiKey
<1>3. CASE SetApiCreds
  BY <1>3 DEF SetApiCreds
<1>4. CASE DeleteApiKey \/ ChangeReadonlyKey \/ PostOrder \/ CancelOrders \/ PostHeartbeat \/ QueryAccount
  <2>1. Return(Outcome("done")) \/ Return(Outcome("raised"))
    <3>1. CASE PostOrder
      BY <3>1 DEF PostOrder, RefusedBeforehand, Level2
    <3>2. CASE ~PostOrder
      <4>1. PICK carriedOut, nothing : Level2(carriedOut, nothing)
        BY <1>4, <3>2, Zenon DEF DeleteApiKey, ChangeReadonlyKey, CancelOrders, PostHeartbeat, QueryAccount
      <4> QED BY <4>1 DEF Level2
    <3> QED BY <3>1, <3>2
  <2> QED BY <2>1
<1>5. CASE GetOrders
  BY <1>5 DEF GetOrders
<1>6. CASE ReadOrdersPage
  BY <1>6 DEF ReadOrdersPage
<1>7. CASE ListingFails
  BY <1>7 DEF ListingFails
<1>8. CASE OrderLeaves \/ HeartbeatLapses
  <2>1. PICK left, open : Leaves(left, open)
    BY <1>8 DEF OrderLeaves, HeartbeatLapses
  <2>2. UNCHANGED <<cs_pc, cs_answer, cs_want, cs_keys, cs_disturbed>>
    BY <2>1 DEF Leaves
  <2> QED BY <2>2
<1>9. CASE KeyRevoked
  BY <1>9 DEF KeyRevoked
<1>10. CASE UNCHANGED cs_vars
  BY <1>10 DEF cs_vars
<1> QED
  BY <1>1, <1>2, <1>3, <1>4, <1>5, <1>6, <1>7, <1>8, <1>9, <1>10 DEF SessionNext

\* Whatever fails between create_api_key and derive_api_key, the credentials
\* create_or_derive_api_creds returns are those of the nonce it was given.
THEOREM CredsAreTheOnesAskedFor == ClobSpec => []CredsObtained
<1>1. ClobInit => CredsObtained
  BY DEF ClobInit, SessionInit, CredsObtained, NoAnswerYet
<1>2. CredsObtained /\ [ClobNext]_client_vars => CredsObtained'
  BY StepOfEachPart, CredsStep
<1> QED BY <1>1, <1>2, PTL DEF ClobSpec

-----------------------------------------------------------------------------
(* Requests *)

LEMMA ListingCalls ==
    /\ TradesCall = [method |-> "GET", path |-> "/data/trades", body |-> "none"]
    /\ BuilderTradesCall = [method |-> "GET", path |-> "/builder/trades", body |-> "none"]
BY DEF TradesCall, BuilderTradesCall, Reads, Calls

PublicPaths ==
    {"/auth/validate-readonly-api-key", "/midpoint", "/price", "/spread", "/midpoints", "/prices",
     "/spreads", "/book", "/books", "/last-trade-price", "/last-trades-prices", "/sampling-markets",
     "/sampling-simplified-markets", "/markets", "/simplified-markets", "/markets/",
     "/live-activity/events/"}

LEMMA PublicCallPaths == ASSUME NEW call \in PublicCalls PROVE call.path \in PublicPaths
BY DEF PublicCalls, QuotationCalls, BookCalls, LastTradeCalls, MarketCalls, Reads, Objects, Calls,
       PublicPaths

\* What tells a call of the signer, of the account and of an order apart.
SignerMarked(call) ==
    \/ call.path = "/auth/derive-api-key"
    \/ call.path = "/auth/api-key" /\ call.method = "POST"
PostMarked(call) == call.path \in {"/order", "/orders"} /\ call.method = "POST"

LEMMA SignerCallPaths == ASSUME NEW call \in KeyOfSigner PROVE SignerMarked(call)
BY DEF KeyOfSigner, Reads, Calls, SignerMarked

LEMMA PostCallPaths == ASSUME NEW call \in PostCalls PROVE PostMarked(call)
BY DEF PostCalls, Calls, PostMarked

LEMMA AccountCallPaths ==
    ASSUME NEW call \in Level2Calls
    PROVE  /\ ~SignerMarked(call) /\ ~PostMarked(call)
           /\ call.path \notin PublicPaths \cup {"/data/trades", "/builder/trades"}
<1> USE DEF Reads, Calls, SignerMarked, PostMarked, PublicPaths
<1>1. CASE call \in ApiKeyCalls
  BY <1>1 DEF ApiKeyCalls
<1>2. CASE call \in CancelCalls
  BY <1>2 DEF CancelCalls
<1>3. CASE call \in OrderReads \cup AccountCalls
  BY <1>3 DEF OrderReads, AccountCalls
<1>4. CASE call \in RfqReads \cup RfqQuoteReads \cup RfqConfig \cup RfqChanges
  BY <1>4 DEF RfqReads, RfqQuoteReads, RfqConfig, RfqChanges
<1> QED BY <1>1, <1>2, <1>3, <1>4 DEF Level2Calls

LastRequestVerifies == rq_request # NoRequest => SignaturesCover(rq_request) /\ SignersFit(rq_request)

\* The headers of a listing are made for its call, and its cursor is behind
\* what it has read.
ListingSound ==
    /\ rq_listing # NoRequest =>
          \/ rq_listing = TradesCall /\ rq_headers = {Level2Header(TradesCall, "none")}
          \/ /\ rq_listing = BuilderTradesCall
             /\ rq_headers \subseteq {BuilderHeader(BuilderTradesCall, "none")}
    /\ rq_start \in Nat /\ rq_cursor \in Nat /\ rq_read \in Seq(Nat)
    /\ rq_cursor = rq_start + Len(rq_read)
    /\ PagesOnce

RequestsInv == LastRequestVerifies /\ ListingSound

LEMMA ListingRequestVerifies ==
    ASSUME ListingSound, rq_listing # NoRequest
    PROVE  SignaturesCover(ListingRequest) /\ SignersFit(ListingRequest)
<1> DEFINE request == ListingRequest
<1>1. /\ request.call = rq_listing /\ request.text = "none" /\ request.headers = rq_headers
  BY DEF ListingRequest
<1>2. CASE rq_listing = TradesCall /\ rq_headers = {Level2Header(TradesCall, "none")}
  <2>1. /\ rq_listing.path = "/data/trades"
        /\ SignaturesOf(request) = {"account"}
    BY <1>1, <1>2, ListingCalls DEF SignaturesOf, Level2Header
  <2>2. SignaturesCover(request)
    BY <1>1, <1>2 DEF SignaturesCover, Level2Header, HmacText, BodyForSignature
  <2>3. /\ rq_listing \notin PublicCalls /\ rq_listing \notin KeyOfSigner
        /\ rq_listing \notin PostCalls /\ rq_listing # BuilderTradesCall
    BY <1>2, <2>1, ListingCalls, PublicCallPaths, SignerCallPaths, PostCallPaths
       DEF PublicPaths, SignerMarked, PostMarked
  <2> QED BY <1>1, <2>1, <2>2, <2>3 DEF SignersFit
<1>3. CASE /\ rq_listing = BuilderTradesCall
           /\ rq_headers \subseteq {BuilderHeader(BuilderTradesCall, "none")}
  <2>1. /\ rq_listing.path = "/builder/trades"
        /\ SignaturesOf(request) \subseteq {"builder"}
    BY <1>1, <1>3, ListingCalls DEF SignaturesOf, BuilderHeader
  <2>2. SignaturesCover(request)
    BY <1>1, <1>3 DEF SignaturesCover, BuilderHeader
  <2>3. /\ rq_listing \notin PublicCalls /\ rq_listing \notin KeyOfSigner
        /\ rq_listing \notin PostCalls /\ rq_listing \notin Level2Calls \cup {TradesCall}
    BY <1>3, <2>1, ListingCalls, PublicCallPaths, SignerCallPaths, PostCallPaths, AccountCallPaths
       DEF PublicPaths, SignerMarked, PostMarked
  <2> QED BY <1>1, <2>1, <2>2, <2>3 DEF SignersFit
<1> QED BY <1>2, <1>3 DEF ListingSound

LEMMA SentRequestVerifies ==
    ASSUME NEW call, NEW text, NEW headers, SendRequest(call, text, headers),
           \/ call \in PublicCalls /\ headers = {}
           \/ call \in KeyOfSigner /\ \E nonce \in {0, 1} : headers = {Level1Header(nonce)}
           \/ call \in Level2Calls /\ headers = {Level2Header(call, text)}
           \/ /\ call \in PostCalls
              /\ \E builder \in BuilderHeaders(call, text) :
                    headers = {Level2Header(call, text)} \cup builder
    PROVE  LastRequestVerifies'
<1> DEFINE request == [call |-> call, text |-> text, headers |-> headers]
<1>1. rq_request' = request /\ UNCHANGED rq_builder
  BY DEF SendRequest, config
<1>2. SignaturesCover(request)
  BY DEF SignaturesCover, Level1Header, Level2Header, BuilderHeader, BuilderHeaders, HmacText, BodyForSignature
<1>3. SignersFit(request)
  <2>1. TradesCall.path = "/data/trades" /\ BuilderTradesCall.path = "/builder/trades"
    BY ListingCalls
  <2>2. CASE call \in PublicCalls /\ headers = {}
    <3>1. call \notin KeyOfSigner /\ call \notin Level2Calls \cup {TradesCall} /\ call \notin PostCalls
      BY <2>1, <2>2, PublicCallPaths, SignerCallPaths, AccountCallPaths, PostCallPaths
         DEF PublicPaths, SignerMarked, PostMarked
    <3> QED BY <2>2, <3>1 DEF SignersFit, SignaturesOf
  <2>3. CASE call \in KeyOfSigner /\ \E nonce \in {0, 1} : headers = {Level1Header(nonce)}
    <3>1. /\ call \notin PublicCalls /\ call \notin Level2Calls \cup {TradesCall} /\ call \notin PostCalls
          /\ call # BuilderTradesCall
      BY <2>1, <2>3, PublicCallPaths, SignerCallPaths, AccountCallPaths, PostCallPaths
         DEF PublicPaths, SignerMarked, PostMarked
    <3>2. SignaturesOf(request) = {"signer"}
      BY <2>3 DEF SignaturesOf, Level1Header
    <3> QED BY <3>1, <3>2 DEF SignersFit
  <2>4. CASE call \in Level2Calls /\ headers = {Level2Header(call, text)}
    <3>1. /\ call \notin PublicCalls /\ call \notin KeyOfSigner /\ call \notin PostCalls
          /\ call # BuilderTradesCall
      BY <2>1, <2>4, PublicCallPaths, SignerCallPaths, AccountCallPaths, PostCallPaths
    <3>2. SignaturesOf(request) = {"account"}
      BY <2>4 DEF SignaturesOf, Level2Header
    <3> QED BY <3>1, <3>2 DEF SignersFit
  <2>5. CASE /\ call \in PostCalls
             /\ \E builder \in BuilderHeaders(call, text) :
                   headers = {Level2Header(call, text)} \cup builder
    <3>1. /\ call \notin PublicCalls /\ call \notin KeyOfSigner /\ call \notin Level2Calls \cup {TradesCall}
          /\ call # BuilderTradesCall
      BY <2>1, <2>5, PublicCallPaths, SignerCallPaths, AccountCallPaths, PostCallPaths
         DEF PublicPaths, SignerMarked, PostMarked
    <3>2. /\ "account" \in SignaturesOf(request)
          /\ ~CanBuilderAuth => SignaturesOf(request) = {"account"}
      <4> DEFINE h == Level2Header(call, text)
      <4>1. h.by = "account"
        BY DEF Level2Header
      <4>2. PICK builder \in BuilderHeaders(call, text) : headers = {h} \cup builder
        BY <2>5
      <4>3. ~CanBuilderAuth => builder = {}
        BY <4>2 DEF BuilderHeaders
      <4> HIDE DEF h
      <4> QED BY <4>1, <4>2, <4>3 DEF SignaturesOf
    <3> QED BY <3>1, <3>2 DEF SignersFit
  <2> QED BY <2>2, <2>3, <2>4, <2>5
<1> HIDE DEF request
<1> QED BY <1>1, <1>2, <1>3 DEF LastRequestVerifies, SignersFit, SignaturesCover, CanBuilderAuth

LEMMA RequestsInvInit == RequestsInit => RequestsInv
BY RequestsAssumption
   DEF RequestsInit, RequestsInv, LastRequestVerifies, ListingSound, PagesOnce, RequestsAssumption

LEMMA SendingKeepsListing ==
    ASSUME RequestsInv, UNCHANGED pages
    PROVE  ListingSound'
BY DEF RequestsInv, ListingSound, pages, PagesOnce

LEMMA KeepingRequestVerifies ==
    ASSUME RequestsInv, UNCHANGED <<rq_request, rq_builder>>
    PROVE  LastRequestVerifies'
BY DEF RequestsInv, LastRequestVerifies, SignersFit, SignaturesCover, CanBuilderAuth

LEMMA ListingRequestSent ==
    ASSUME RequestsInv, rq_listing # NoRequest, rq_request' = ListingRequest, UNCHANGED rq_builder
    PROVE  LastRequestVerifies'
<1>1. SignaturesCover(ListingRequest) /\ SignersFit(ListingRequest)
  BY ListingRequestVerifies DEF RequestsInv
<1> QED BY <1>1 DEF LastRequestVerifies, SignersFit, SignaturesCover, CanBuilderAuth

LEMMA PageAppended ==
    ASSUME ListingSound, rq_read' = Append(rq_read, rq_cursor), rq_cursor' = rq_cursor + 1,
           UNCHANGED <<rq_listing, rq_headers, rq_start>>
    PROVE  ListingSound'
<1>1. /\ rq_read' \in Seq(Nat) /\ Len(rq_read') = Len(rq_read) + 1
      /\ \A i \in 1 .. Len(rq_read) : rq_read'[i] = rq_read[i]
      /\ rq_read'[Len(rq_read) + 1] = rq_cursor
  BY DEF ListingSound
<1>2. rq_cursor' \in Nat /\ rq_cursor' = rq_start' + Len(rq_read')
  BY <1>1 DEF ListingSound
<1>3. PagesOnce'
  BY <1>1 DEF ListingSound, PagesOnce
<1> QED BY <1>1, <1>2, <1>3 DEF ListingSound

LEMMA RequestsInvStep ==
    ASSUME RequestsInv, [RequestsNext]_rq_vars
    PROVE  RequestsInv'
<1> USE DEF RequestsInv
<1>1. CASE SetCreds
  BY <1>1, SendingKeepsListing, KeepingRequestVerifies DEF SetCreds
<1>2. CASE PublicCall
  <2>1. PICK call \in PublicCalls : SendRequest(call, call.body, {})
    BY <1>2 DEF PublicCall
  <2> QED BY <2>1, SentRequestVerifies, SendingKeepsListing DEF SendRequest
<1>3. CASE SignerCall
  <2>1. PICK call \in KeyOfSigner, nonce \in {0, 1} : SendRequest(call, "none", {Level1Header(nonce)})
    BY <1>3 DEF SignerCall
  <2> QED BY <2>1, SentRequestVerifies, SendingKeepsListing DEF SendRequest
<1>4. CASE Level2Call
  <2>1. PICK call \in Level2Calls : \E text \in Texts(call) : SendRequest(call, text, {Level2Header(call, text)})
    BY <1>4 DEF Level2Call
  <2>2. PICK text \in Texts(call) : SendRequest(call, text, {Level2Header(call, text)})
    BY <2>1
  <2> QED BY <2>2, SentRequestVerifies, SendingKeepsListing DEF SendRequest
<1>5. CASE PostCall
  <2>1. PICK call \in PostCalls : \E text \in Texts(call) : \E builder \in BuilderHeaders(call, text) :
            SendRequest(call, text, {Level2Header(call, text)} \cup builder)
    BY <1>5 DEF PostCall
  <2>2. PICK text \in Texts(call) : \E builder \in BuilderHeaders(call, text) :
            SendRequest(call, text, {Level2Header(call, text)} \cup builder)
    BY <2>1
  <2>3. PICK builder \in BuilderHeaders(call, text) :
            SendRequest(call, text, {Level2Header(call, text)} \cup builder)
    BY <2>2
  <2> QED BY <2>3, SentRequestVerifies, SendingKeepsListing DEF SendRequest
<1>6. CASE GetTrades \/ GetBuilderTrades
  <2>1. PICK call, headers : StartListing(call, headers)
                             /\ \/ call = TradesCall /\ headers = {Level2Header(TradesCall, "none")}
                                \/ /\ call = BuilderTradesCall
                                   /\ headers \subseteq {BuilderHeader(BuilderTradesCall, "none")}
    BY <1>6 DEF GetTrades, GetBuilderTrades, BuilderHeaders
  <2>2. /\ rq_listing' = call /\ rq_headers' = headers /\ rq_start' \in 1 .. Pages + 1
        /\ rq_cursor' = rq_start' /\ rq_read' = <<>>
        /\ UNCHANGED <<rq_builder, rq_request>>
    BY <2>1 DEF StartListing, config
  <2>3. ListingSound'
    <3>1. rq_start' \in Nat /\ rq_cursor' = rq_start'
      BY <2>2, RequestsAssumption DEF RequestsAssumption
    <3>4. rq_read' \in Seq(Nat) /\ Len(rq_read') = 0 /\ PagesOnce'
      BY <2>2 DEF PagesOnce
    <3>2. \/ rq_listing' = TradesCall /\ rq_headers' = {Level2Header(TradesCall, "none")}
          \/ /\ rq_listing' = BuilderTradesCall
             /\ rq_headers' \subseteq {BuilderHeader(BuilderTradesCall, "none")}
      BY <2>1, <2>2
    <3>3. rq_cursor' \in Nat /\ rq_cursor' = rq_start' + Len(rq_read')
      <4>1. \A s, c, n : s \in Nat /\ c = s /\ n = 0 => c \in Nat /\ c = s + n
        OBVIOUS
      <4> QED BY <3>1, <3>4, <4>1
    <3> QED BY <3>2, <3>3, <3>4, <3>1 DEF ListingSound, Level2Header, BuilderHeader, TradesCall, BuilderTradesCall
  <2> QED BY <2>2, <2>3, KeepingRequestVerifies
<1>7. CASE ReadTradesPage
  <2>1. /\ rq_read' = Append(rq_read, rq_cursor) /\ rq_cursor' = rq_cursor + 1
        /\ rq_listing # NoRequest /\ rq_request' = ListingRequest
        /\ UNCHANGED <<rq_builder, rq_listing, rq_headers, rq_start>>
    BY <1>7 DEF ReadTradesPage, PageAsked, config
  <2> QED BY <2>1, PageAppended, ListingRequestSent
<1>8. CASE EndListing \/ FailListing
  <2>1. ListingSound' /\ UNCHANGED rq_builder
    <3>1. /\ rq_listing' = NoRequest /\ rq_read' = <<>> /\ rq_start' = 1 /\ rq_cursor' = 1
          /\ UNCHANGED rq_builder
      BY <1>8 DEF EndListing, FailListing, ListingDone, config
    <3>2. rq_read' \in Seq(Nat) /\ Len(rq_read') = 0 /\ PagesOnce'
      BY <3>1 DEF PagesOnce
    <3> QED BY <3>1, <3>2 DEF ListingSound
  <2>2. CASE UNCHANGED rq_request
    BY <2>1, <2>2, KeepingRequestVerifies
  <2>3. CASE rq_listing # NoRequest /\ rq_request' = ListingRequest
    BY <2>1, <2>3, ListingRequestSent
  <2> QED BY <1>8, <2>1, <2>2, <2>3 DEF EndListing, FailListing
<1>9. CASE UNCHANGED rq_vars
  BY <1>9, SendingKeepsListing, KeepingRequestVerifies DEF rq_vars, pages
<1> QED BY <1>1, <1>2, <1>3, <1>4, <1>5, <1>6, <1>7, <1>8, <1>9 DEF RequestsNext

\* Whatever a client is asked for, the exchange can verify its signatures, is
\* asked for each page once, and carries a call out as often as the lost answers
\* explain (client.py, headers.py, helpers.py), for any number of threads,
\* faults and pages.
THEOREM DeliveriesAreExplained == ClobSpec => []DeliveriesExplained
<1>1. ClobInit => HttpInv /\ RequestsInv
  BY HttpInvInit, RequestsInvInit DEF ClobInit
<1>2. HttpInv /\ RequestsInv /\ [ClobNext]_client_vars => HttpInv' /\ RequestsInv'
  BY StepOfEachPart, HttpInvStep, RequestsInvStep
<1>3. HttpInv /\ RequestsInv => DeliveriesExplained
  BY HttpInvExplains
     DEF DeliveriesExplained, RequestsVerify, RequestsInv, LastRequestVerifies, ListingSound
<1> QED BY <1>1, <1>2, <1>3, PTL DEF ClobSpec

-----------------------------------------------------------------------------
(* Request for quote *)

\* What the exchange lets into a quote.
QuoteSound(quote) ==
    /\ quote.side \in Sides /\ quote.token \in Outcomes /\ quote.price \in Int
    /\ Matches(rfq_request, quote.side, quote.token)

\* The orders of a quote are derived from the quote as it still stands.
RfqInv ==
    /\ rfq_quotes = [q \in QuoteIds |-> rfq_quotes[q]]
    /\ rfq_accepted = [q \in QuoteIds |-> rfq_accepted[q]]
    /\ rfq_approved = [q \in QuoteIds |-> rfq_approved[q]]
    /\ rfq_request # NoRfq => rfq_request.side \in Sides /\ rfq_request.token \in Outcomes
    /\ \A q \in QuoteIds :
          /\ rfq_quotes[q] # NoRfq => rfq_request # NoRfq /\ QuoteSound(rfq_quotes[q])
          /\ rfq_accepted[q] # NoRfq =>
                rfq_quotes[q] # NoRfq /\ rfq_accepted[q] = RequestOrder(rfq_quotes[q])
          /\ rfq_approved[q] # NoRfq =>
                rfq_quotes[q] # NoRfq /\ rfq_approved[q] = QuoteOrder(rfq_quotes[q])

LEMMA RfqInvInit == RfqInit => RfqInv
BY DEF RfqInit, RfqInv

LEMMA OnlyTwoOutcomes ==
    ASSUME NEW token \in Outcomes
    PROVE  /\ Complement(token) \in Outcomes /\ Complement(token) # token
           /\ \A other \in Outcomes : other # token => other = Complement(token)
BY RfqAssumption DEF RfqAssumption, Complement

LEMMA OffersAreSound ==
    ASSUME NEW side \in Sides, NEW token \in Outcomes, NEW price \in Int, NEW size,
           Matches(rfq_request, side, token)
    PROVE  QuoteSound(Offer(side, token, price, size))
BY DEF QuoteSound, Offer

LEMMA RfqInvStep ==
    ASSUME RfqInv, [RfqNext]_rfq_vars
    PROVE  RfqInv'
<1> USE DEF RfqInv
<1>1. CASE CreateRfqRequest
  <2>1. /\ rfq_request = NoRfq /\ UNCHANGED <<rfq_quotes, rfq_accepted, rfq_approved>>
        /\ rfq_request' # NoRfq => rfq_request'.side \in Sides /\ rfq_request'.token \in Outcomes
    BY <1>1 DEF CreateRfqRequest, Sent, Offer
  <2> QED BY <2>1
<1>2. CASE CancelRfqRequest
  BY <1>2 DEF CancelRfqRequest
<1>3. ASSUME NEW q \in QuoteIds, CreateRfqQuote(q) PROVE RfqInv'
  <2>1. /\ rfq_quotes[q] = NoRfq /\ rfq_request # NoRfq
        /\ UNCHANGED <<rfq_request, rfq_accepted, rfq_approved>>
    BY <1>3 DEF CreateRfqQuote
  <2>2. CASE UNCHANGED rfq_quotes
    BY <2>1, <2>2 DEF QuoteSound, RequestOrder, Complementary
  <2>3. CASE rfq_quotes' # rfq_quotes
    <3>1. PICK side \in Sides, token \in Outcomes, price \in 1 .. RfqOne - 1, size \in RfqSizes :
              /\ Matches(rfq_request, side, token)
              /\ rfq_quotes' = [rfq_quotes EXCEPT ![q] = Offer(side, token, price, size)]
      BY <1>3, <2>3 DEF CreateRfqQuote, Sent
    <3>2. QuoteSound(Offer(side, token, price, size))
      BY <3>1, OffersAreSound
    <3> DEFINE offer == Offer(side, token, price, size)
    <3>3. rfq_quotes' = [rfq_quotes EXCEPT ![q] = offer] /\ QuoteSound(offer)
      BY <3>1, <3>2
    <3> HIDE DEF offer
    <3> QED BY <2>1, <3>3 DEF QuoteSound, RequestOrder, Complementary
  <2> QED BY <2>2, <2>3
<1>4. ASSUME NEW q \in QuoteIds, CancelRfqQuote(q) PROVE RfqInv'
  BY <1>4 DEF CancelRfqQuote, QuoteSound, RequestOrder, Complementary
<1>5. ASSUME NEW q \in QuoteIds, AcceptRfqQuote(q) PROVE RfqInv'
  <2>1. /\ rfq_quotes[q] # NoRfq /\ UNCHANGED <<rfq_request, rfq_quotes, rfq_approved>>
        /\ \/ rfq_accepted' = [rfq_accepted EXCEPT ![q] = RequestOrder(rfq_quotes[q])]
           \/ UNCHANGED rfq_accepted
    BY <1>5 DEF AcceptRfqQuote, Sent
  <2> QED BY <2>1 DEF QuoteSound, RequestOrder, Complementary
<1>6. ASSUME NEW q \in QuoteIds, ApproveRfqOrder(q) PROVE RfqInv'
  <2>1. /\ rfq_quotes[q] # NoRfq /\ UNCHANGED <<rfq_request, rfq_quotes, rfq_accepted>>
        /\ \/ rfq_approved' = [rfq_approved EXCEPT ![q] = QuoteOrder(rfq_quotes[q])]
           \/ UNCHANGED rfq_approved
    BY <1>6 DEF ApproveRfqOrder, Sent
  <2> QED BY <2>1 DEF QuoteSound, RequestOrder, Complementary
<1>7. CASE UNCHANGED rfq_vars
  BY <1>7 DEF rfq_vars, QuoteSound, RequestOrder, Complementary
<1> QED BY <1>1, <1>2, <1>3, <1>4, <1>5, <1>6, <1>7 DEF RfqNext

\* The heart of it: the two ways to answer a request, with the other side on its
\* token or with its side on the other token.
LEMMA OrdersOfAQuoteMatch ==
    ASSUME RfqInv, NEW quote, QuoteSound(quote), rfq_request # NoRfq
    PROVE  LET mine == RequestOrder(quote)  theirs == QuoteOrder(quote) IN
           /\ mine.side = rfq_request.side /\ mine.token = rfq_request.token
           /\ mine.size = theirs.size
           /\ IF mine.token = theirs.token
              THEN mine.side # theirs.side /\ mine.price = theirs.price
              ELSE mine.side = theirs.side /\ mine.price + theirs.price = RfqOne
<1>1. rfq_request.side \in Sides /\ rfq_request.token \in Outcomes
  BY DEF RfqInv
<1>2. quote.side \in Sides /\ quote.token \in Outcomes /\ quote.price \in Int /\ RfqOne \in Int
  BY RfqAssumption DEF QuoteSound, RfqAssumption
<1>3. CASE Complementary(quote)
  <2>1. quote.token = rfq_request.token /\ quote.side # rfq_request.side
    BY <1>3 DEF QuoteSound, Matches, Complementary
  <2> QED BY <1>1, <1>2, <1>3, <2>1 DEF RequestOrder, QuoteOrder, Opposite, Sides
<1>4. CASE ~Complementary(quote)
  <2>1. quote.token # rfq_request.token /\ quote.side = rfq_request.side
    BY <1>4 DEF QuoteSound, Matches, Complementary
  <2>2. rfq_request.token = Complement(quote.token)
    BY <1>1, <1>2, <2>1, OnlyTwoOutcomes
  <2> QED BY <1>1, <1>2, <1>4, <2>1, <2>2 DEF RequestOrder, QuoteOrder
<1> QED BY <1>3, <1>4

\* The order the requester signs to accept a quote and the one the quoter signs to
\* approve it can be matched (rfq_client.py derives each at its own end), for any
\* prices, sizes and number of quotes, and whatever requests fail.
THEOREM OrdersOfQuotesMatch == ClobSpec => []RfqOrdersMatch
<1>1. ClobInit => RfqInv
  BY RfqInvInit DEF ClobInit
<1>2. RfqInv /\ [ClobNext]_client_vars => RfqInv'
  BY StepOfEachPart, RfqInvStep
<1>3. RfqInv => RfqOrdersMatch
  <2> SUFFICES ASSUME RfqInv, NEW q \in QuoteIds,
                      rfq_accepted[q] # NoRfq
               PROVE  LET mine == rfq_accepted[q]  theirs == rfq_approved[q] IN
                      /\ mine.side = rfq_request.side /\ mine.token = rfq_request.token
                      /\ theirs # NoRfq =>
                            /\ mine.size = theirs.size
                            /\ IF mine.token = theirs.token
                               THEN mine.side # theirs.side /\ mine.price = theirs.price
                               ELSE mine.side = theirs.side /\ mine.price + theirs.price = RfqOne
    BY DEF RfqOrdersMatch
  <2> DEFINE quote == rfq_quotes[q]
  <2>1. /\ rfq_request # NoRfq /\ QuoteSound(quote)
        /\ rfq_accepted[q] = RequestOrder(quote)
        /\ rfq_approved[q] # NoRfq => rfq_approved[q] = QuoteOrder(quote)
    BY DEF RfqInv
  <2> HIDE DEF quote
  <2> QED BY <2>1, OrdersOfAQuoteMatch
<1> QED BY <1>1, <1>2, <1>3, PTL DEF ClobSpec

-----------------------------------------------------------------------------
(* Order creation *)

\* The cache is never older than it says: its tick size was the market's at most
\* its age ago, as was the one a call has resolved.
AgesSound ==
    /\ co_tickAge[co_market.tick] = 0
    /\ co_tickCache.tick # NoTick =>
          co_tickAge[co_tickCache.tick] <= co_tickCache.age /\ co_tickCache.age <= co_time
    /\ co_rules.least # NoTick =>
          /\ co_tickAge[co_rules.least] < Ttl + co_since /\ co_since <= co_time
          /\ co_tickAge[co_rules.least] <= co_time

FeesSound ==
    /\ co_market.fee \in co_fees
    /\ co_feeCache # Unknown => co_feeCache \in co_fees
    /\ co_pc = "sign" => co_args.fee \in co_fees
    /\ co_signed # NoOrder => co_signed.fee \in co_fees

NegsSound ==
    /\ co_market.neg \in co_negs
    /\ co_negCache # Unknown => co_negCache \in co_negs
    /\ co_pc \in {"fee", "sign"} => IF co_args.neg THEN co_rules.neg ELSE co_rules.neg \in co_negs
    /\ co_signed # NoOrder => IF co_args.neg THEN co_signed.neg ELSE co_signed.neg \in co_negs

TickSound ==
    /\ co_pc \in {"price", "neg", "fee", "sign"} <=> co_rules.least # NoTick
    /\ co_rules.least # NoTick => TickAllowed(co_rules.tick, co_rules.least)
    /\ co_signed # NoOrder =>
          \E least \in TickSizes : co_tickAge[least] <= co_time /\ TickAllowed(co_signed.tick, least)
    /\ co_pc # "idle" => co_signed = NoOrder

PriceSound ==
    /\ co_pc \in {"price", "neg", "fee", "sign"} => co_rules.tick \in TickSizes
    /\ co_pc \in {"neg", "fee", "sign"} => PriceValid
    /\ co_signed # NoOrder =>
          /\ co_signed.price % co_signed.tick = 0
          /\ co_signed.price \in co_signed.tick .. One - co_signed.tick

CreationInv == CreationTypeOK /\ AgesSound /\ FeesSound /\ NegsSound /\ TickSound /\ PriceSound

LEMMA Remainders ==
    ASSUME NEW a \in Int, NEW t \in Nat \ {0}
    PROVE  a % t \in 0 .. t - 1 /\ a = t * (a \div t) + (a % t) /\ a \div t \in Int
OBVIOUS

LEMMA MultipleRemainder ==
    ASSUME NEW k \in Int, NEW t \in Nat \ {0}
    PROVE  (t * k) % t = 0
<1> DEFINE a == t * k
           q == a \div t
           r == a % t
<1>0. a \in Int
  OBVIOUS
<1>1. a \in Int /\ r \in 0 .. t - 1 /\ a = t * q + r /\ q \in Int
  <2> HIDE DEF a
  <2> QED BY <1>0, Remainders
<1>2. t * (k - q) = r
  <2>1. \A x, y, z \in Int : z * (x - y) = z * x - z * y
    OBVIOUS
  <2> HIDE DEF q, r
  <2> QED BY <1>1, <2>1
<1>3. k - q = 0
  <2> DEFINE d == k - q
  <2>1. d \in Int /\ t * d = r /\ r >= 0 /\ r < t
    BY <1>1, <1>2
  <2>2. \A x \in Int : (x >= 1 => t * x >= t) /\ (x <= -1 => t * x <= -t)
    OBVIOUS
  <2> HIDE DEF d, r, q
  <2>3. d = 0
    BY <2>1, <2>2
  <2> QED BY <2>3 DEF d
<1>4. r = t * 0
  BY <1>2, <1>3
<1> QED BY <1>4

\* Rounding a price inside (0, 1) to the nearest tick leaves it inside.
LEMMA RoundedInside ==
    ASSUME NEW tick \in TickSizes, NEW price \in tick .. One - tick, NEW p \in Rounded(price, tick)
    PROVE  p % tick = 0 /\ p \in tick .. One - tick /\ p \in Int
<1>1. tick \in Nat \ {0} /\ One \in Nat /\ One % tick = 0
  BY CreationAssumption DEF CreationAssumption
<1>2. price \in Int /\ price >= tick /\ price <= One - tick
  BY <1>1
<1> DEFINE q == price \div tick
           n == One \div tick
<1>3. q \in Int /\ price = tick * q + (price % tick) /\ price % tick \in 0 .. tick - 1
  BY <1>1, <1>2, Remainders
<1>4. n \in Int /\ One = tick * n
  BY <1>1, Remainders
<1>5. PICK k \in Int : p = tick * k
  <2>1. tick * q + tick = tick * (q + 1)
    BY <1>1, <1>3
  <2>2. p = tick * q \/ p = tick * q + tick
    BY DEF Rounded
  <2> QED BY <1>3, <2>1, <2>2
<1>6. 2 * (p - price) >= -tick /\ 2 * (p - price) <= tick /\ p \in Int
  BY <1>1, <1>2, <1>5 DEF Rounded
<1>7. p > 0 /\ p < One
  BY <1>1, <1>2, <1>6
<1>8. \A a, b \in Int : tick * a < tick * b => a <= b - 1
  BY <1>1
<1>9. k >= 1 /\ k <= n - 1
  <2>1. tick * 0 < tick * k /\ tick * k < tick * n
    BY <1>1, <1>4, <1>5, <1>7
  <2>2. 0 <= k - 1 /\ k <= n - 1
    BY <1>4, <1>8, <2>1
  <2> QED BY <2>2
<1>10. \A a, b \in Int : a <= b => tick * a <= tick * b
  BY <1>1
<1>11. tick * 1 <= tick * k /\ tick * k <= tick * (n - 1) /\ tick * (n - 1) = tick * n - tick
  BY <1>1, <1>4, <1>9, <1>10
<1>12. p \in tick .. One - tick
  BY <1>1, <1>4, <1>5, <1>6, <1>11
<1>13. p % tick = 0
  BY <1>1, <1>5, MultipleRemainder
<1> QED BY <1>6, <1>12, <1>13

LEMMA CreationInvInit == CreationInit => CreationInv
<1> SUFFICES ASSUME CreationInit PROVE CreationInv
  OBVIOUS
<1> USE CreationAssumption DEF CreationAssumption, CreationInit, Uncached, NoRules
<1>1. CreationTypeOK
  <2>1. co_market.tick \in TickSizes /\ co_market.fee \in FeeRates
    OBVIOUS
  <2> QED BY <2>1 DEF CreationTypeOK
<1>2. AgesSound /\ FeesSound /\ NegsSound /\ TickSound /\ PriceSound
  BY DEF AgesSound, FeesSound, NegsSound, TickSound, PriceSound
<1> QED BY <1>1, <1>2 DEF CreationInv

\* A failure forgets what was resolved and leaves the rest alone.
LEMMA RaiseIsSound ==
    ASSUME CreationInv, Raise, co_tickCache' \in [tick : TickSizes \cup {NoTick}, age : 0 .. MaxTime],
           co_tickCache'.tick # NoTick =>
              co_tickAge[co_tickCache'.tick] <= co_tickCache'.age /\ co_tickCache'.age <= co_time,
           UNCHANGED co_negCache, co_feeCache' \in FeeRates \cup {Unknown},
           co_feeCache' # Unknown => co_feeCache' \in co_fees
    PROVE  CreationInv'
<1> USE CreationAssumption
    DEF CreationAssumption, CreationInv, Raise, exchangeSide, NoRules
<1>1. CreationTypeOK'
  BY DEF CreationTypeOK
<1>2. AgesSound' /\ FeesSound' /\ PriceSound'
  BY DEF AgesSound, FeesSound, PriceSound
<1>3. NegsSound' /\ TickSound'
  BY DEF NegsSound, TickSound, TickAllowed
<1> QED BY <1>1, <1>2, <1>3

LEMMA ResolveIsSound ==
    ASSUME CreationInv, NEW least \in TickSizes, Resolve(least), co_pc # "idle",
           co_tickAge[least] < Ttl, co_tickAge[least] <= co_time,
           co_tickCache' \in [tick : TickSizes \cup {NoTick}, age : 0 .. MaxTime],
           co_tickCache'.tick # NoTick =>
              co_tickAge[co_tickCache'.tick] <= co_tickCache'.age /\ co_tickCache'.age <= co_time,
           UNCHANGED <<co_negCache, co_feeCache>>
    PROVE  CreationInv'
<1> DEFINE asked == co_args.tick
<1>1. CASE asked # NoTick /\ asked < least
  BY <1>1, RaiseIsSound DEF Resolve, CreationInv, CreationTypeOK, FeesSound
<1>2. CASE ~(asked # NoTick /\ asked < least)
  <2>1. /\ co_rules' = [co_rules EXCEPT !.least = least, !.tick = IF asked = NoTick THEN least ELSE asked]
        /\ co_since' = 0 /\ co_pc' = "price" /\ UNCHANGED <<exchangeSide, co_signed, co_args>>
    BY <1>2 DEF Resolve, Goes
  <2> USE <2>1, CreationAssumption DEF CreationAssumption, CreationInv, exchangeSide
  <2>2. CreationTypeOK'
    <3>1. asked \in TickSizes \cup {NoTick} /\ co_rules \in [least : TickSizes \cup {NoTick}, tick : TickSizes \cup {NoTick}, neg : BOOLEAN]
      BY DEF CreationTypeOK
    <3>2. co_rules' \in [least : TickSizes \cup {NoTick}, tick : TickSizes \cup {NoTick}, neg : BOOLEAN]
      BY <3>1
    <3>3. 0 \in 0 .. MaxTime
      OBVIOUS
    <3> QED BY <3>2, <3>3 DEF CreationTypeOK
  <2>3. AgesSound'
    BY DEF AgesSound, CreationTypeOK
  <2>4. FeesSound' /\ NegsSound' /\ PriceSound'
    BY DEF FeesSound, NegsSound, PriceSound, CreationTypeOK
  <2>5. TickSound'
    <3>1. co_rules'.least = least /\ co_rules'.tick = IF asked = NoTick THEN least ELSE asked
      BY DEF CreationTypeOK
    <3>2. least \in Int /\ (asked # NoTick => asked \in Int /\ least <= asked)
      BY <1>2 DEF CreationTypeOK
    <3>3. least <= co_rules'.tick /\ co_rules'.tick = IF co_args'.tick = NoTick THEN least ELSE co_args'.tick
      BY <3>1, <3>2
    <3>4. co_signed' = NoOrder
      BY DEF TickSound
    <3> QED BY <3>1, <3>3, <3>4 DEF TickSound, TickAllowed
  <2> QED BY <2>2, <2>3, <2>4, <2>5
<1> QED BY <1>1, <1>2

LEMMA SignOrderIsSound ==
    ASSUME CreationInv, SignOrder
    PROVE  CreationInv'
<1> USE CreationAssumption DEF CreationAssumption
<1>1. PICK price \in Rounded(co_args.price, co_rules.tick) :
          co_signed' = [tick |-> co_rules.tick, price |-> price, fee |-> co_args.fee, neg |-> co_rules.neg]
  BY DEF SignOrder
<1>2. /\ co_rules.tick \in TickSizes /\ co_args.price \in co_rules.tick .. One - co_rules.tick
      /\ co_args.fee \in co_fees /\ co_args.fee \in FeeRates /\ co_rules.neg \in BOOLEAN
  BY DEF SignOrder, CreationInv, PriceSound, PriceValid, FeesSound, CreationTypeOK
<1>3. price % co_rules.tick = 0 /\ price \in co_rules.tick .. One - co_rules.tick /\ price \in Int
  BY <1>2, RoundedInside
<1>4. price \in 1 .. One
  <2>1. co_rules.tick \in 1 .. One /\ One \in Nat
    BY <1>2
  <2> QED BY <1>3, <2>1
<1>5. /\ co_pc' = "idle" /\ co_rules' = NoRules /\ co_since' = 0
      /\ UNCHANGED <<exchangeSide, co_tickCache, co_negCache, co_feeCache, co_args>>
  BY DEF SignOrder
<1>6. co_signed' \in [tick : TickSizes, price : 1 .. One, fee : FeeRates, neg : BOOLEAN]
  BY <1>1, <1>2, <1>4
<1>7. CreationTypeOK'
  BY <1>5, <1>6 DEF CreationInv, CreationTypeOK, exchangeSide, NoRules
<1>8. AgesSound' /\ FeesSound'
  BY <1>1, <1>2, <1>5 DEF CreationInv, AgesSound, FeesSound, exchangeSide, NoRules
<1>9. PriceSound'
  BY <1>1, <1>3, <1>5 DEF PriceSound
<1>10. NegsSound'
  BY <1>1, <1>5 DEF CreationInv, NegsSound, SignOrder, exchangeSide
<1>11. TickSound'
  <2>1. /\ co_rules.least \in TickSizes /\ co_tickAge[co_rules.least] <= co_time
        /\ TickAllowed(co_rules.tick, co_rules.least)
    BY DEF CreationInv, CreationTypeOK, AgesSound, TickSound, SignOrder
  <2>2. co_signed'.tick = co_rules.tick /\ co_pc' = "idle" /\ co_rules'.least = NoTick
    BY <1>1, <1>5 DEF NoRules
  <2>3. UNCHANGED <<co_tickAge, co_time, co_args>>
    BY <1>5 DEF exchangeSide
  <2> QED BY <2>1, <2>2, <2>3 DEF TickSound, TickAllowed
<1> QED BY <1>7, <1>8, <1>9, <1>10, <1>11 DEF CreationInv

\* A change can only make a tick size younger; a rate once had stays known.
LEMMA MarketChangesIsSound ==
    ASSUME CreationInv, MarketChanges
    PROVE  CreationInv'
<1> USE CreationAssumption DEF CreationAssumption
<1>1. PICK market \in [tick : TickSizes, fee : FeeRates, neg : BOOLEAN] :
          /\ co_market' = market
          /\ co_tickAge' = [co_tickAge EXCEPT ![market.tick] = 0]
          /\ co_fees' = co_fees \cup {market.fee} /\ co_negs' = co_negs \cup {market.neg}
  BY DEF MarketChanges
<1>2. /\ co_changes < MaxMarketChanges /\ co_changes' = co_changes + 1
      /\ UNCHANGED <<co_tickCache, co_negCache, co_feeCache, co_args, co_pc, co_rules, co_since, co_signed, co_time>>
  BY DEF MarketChanges
<1>3. CreationTypeOK'
  <2>1. co_market' \in [tick : TickSizes, fee : FeeRates, neg : BOOLEAN]
    BY <1>1 DEF CreationInv, CreationTypeOK
  <2>2. co_tickAge' \in [TickSizes -> 0 .. MaxTime + 1] /\ co_fees' \in SUBSET FeeRates
    <3>1. market.tick \in TickSizes /\ market.fee \in FeeRates
      OBVIOUS
    <3>2. co_tickAge \in [TickSizes -> 0 .. MaxTime + 1] /\ co_fees \in SUBSET FeeRates /\ 0 \in 0 .. MaxTime + 1
      BY DEF CreationInv, CreationTypeOK
    <3>3. co_fees' \in SUBSET FeeRates
      BY <1>1, <3>1, <3>2, Zenon
    <3> QED BY <1>1, <3>1, <3>2, <3>3
  <2>3. co_changes' \in 0 .. MaxMarketChanges
    BY <1>2 DEF CreationInv, CreationTypeOK
  <2>4. co_negs' \in SUBSET BOOLEAN
    <3>1. market.neg \in BOOLEAN
      OBVIOUS
    <3>2. co_negs \in SUBSET BOOLEAN /\ co_negs' = co_negs \cup {market.neg}
      BY <1>1 DEF CreationInv, CreationTypeOK
    <3> QED BY <3>1, <3>2, Zenon
  <2> QED BY <1>2, <2>1, <2>2, <2>3, <2>4 DEF CreationInv, CreationTypeOK
<1>4. /\ market.tick \in TickSizes
      /\ \A t \in TickSizes : co_tickAge'[t] <= co_tickAge[t] /\ co_tickAge'[t] \in Int /\ co_tickAge[t] \in Int
      /\ co_tickAge'[market.tick] = 0
  BY <1>1 DEF CreationInv, CreationTypeOK
<1>5. AgesSound'
  <2>1. /\ co_tickCache.tick \in TickSizes \cup {NoTick} /\ co_rules.least \in TickSizes \cup {NoTick}
        /\ co_tickCache.age \in Int /\ co_since \in Int /\ Ttl \in Int
    BY DEF CreationInv, CreationTypeOK
  <2>2. \A t \in TickSizes, bound \in Int :
           /\ co_tickAge[t] < bound => co_tickAge'[t] < bound
           /\ co_tickAge[t] <= bound => co_tickAge'[t] <= bound
    BY <1>4
  <2>3. co_rules.least # NoTick => co_tickAge'[co_rules.least] < Ttl + co_since /\ co_since <= co_time
    <3>1. Ttl + co_since \in Int
      BY <2>1
    <3> QED BY <2>1, <2>2, <3>1 DEF CreationInv, AgesSound
  <2>4. co_tickCache.tick # NoTick => co_tickAge'[co_tickCache.tick] <= co_tickCache.age /\ co_tickCache.age <= co_time
    BY <2>1, <2>2 DEF CreationInv, AgesSound
  <2>5. co_rules.least # NoTick => co_tickAge'[co_rules.least] <= co_time
    <3>1. co_time \in Int
      BY DEF CreationInv, CreationTypeOK
    <3> QED BY <2>1, <2>2, <3>1 DEF CreationInv, AgesSound
  <2> QED BY <1>1, <1>2, <1>4, <2>3, <2>4, <2>5 DEF AgesSound
<1>6. FeesSound' /\ NegsSound' /\ PriceSound'
  BY <1>1, <1>2, <1>4 DEF CreationInv, FeesSound, NegsSound, PriceSound, PriceValid
<1>7. TickSound'
  <2>1. \A least \in TickSizes : co_tickAge[least] <= co_time => co_tickAge'[least] <= co_time
    BY <1>4 DEF CreationInv, CreationTypeOK
  <2> QED BY <1>2, <2>1 DEF CreationInv, TickSound, TickAllowed
<1> QED BY <1>3, <1>5, <1>6, <1>7 DEF CreationInv

\* What was resolved and what is cached grow old with the market's tick sizes.
LEMMA TimePassesIsSound ==
    ASSUME CreationInv, TimePasses
    PROVE  CreationInv'
<1> USE CreationAssumption DEF CreationAssumption
<1>1. /\ co_time < MaxTime /\ co_time' = co_time + 1 /\ co_time \in 0 .. MaxTime
      /\ UNCHANGED <<co_market, co_fees, co_negs, co_negCache, co_feeCache, co_args, co_pc, co_rules, co_signed, co_changes>>
  BY DEF TimePasses, CreationInv, CreationTypeOK
<1>2. /\ \A t \in TickSizes : /\ co_tickAge'[t] \in 0 .. MaxTime + 1 /\ co_tickAge[t] \in 0 .. MaxTime + 1
                              /\ co_tickAge'[t] <= co_tickAge[t] + 1
      /\ co_tickAge'[co_market.tick] = 0 /\ co_tickAge' \in [TickSizes -> 0 .. MaxTime + 1]
  BY DEF TimePasses, CreationInv, CreationTypeOK
<1>3. /\ co_tickCache'.tick = co_tickCache.tick
      /\ co_tickCache' \in [tick : TickSizes \cup {NoTick}, age : 0 .. MaxTime]
      /\ co_tickCache.tick # NoTick => co_tickCache'.age = Older(co_tickCache.age)
  BY DEF TimePasses, CreationInv, CreationTypeOK, Older
<1>4. co_since' \in 0 .. MaxTime /\ (co_rules.least # NoTick => co_since' = Older(co_since))
  BY DEF TimePasses, CreationInv, CreationTypeOK, Older
<1>5. CreationTypeOK'
  BY <1>1, <1>2, <1>3, <1>4 DEF CreationInv, CreationTypeOK
<1>6. AgesSound'
  <2>0. \A t \in TickSizes : /\ co_tickAge'[t] \in Int /\ co_tickAge[t] \in Int
                              /\ co_tickAge'[t] <= co_tickAge[t] + 1
    BY <1>2
  <2>1. /\ co_tickCache.tick \in TickSizes \cup {NoTick} /\ co_rules.least \in TickSizes \cup {NoTick}
        /\ co_tickCache.age \in Int /\ co_since \in Int /\ Ttl \in Int /\ MaxTime \in Int
    BY DEF CreationInv, CreationTypeOK
  <2>2. co_tickCache.tick # NoTick =>
           co_tickAge'[co_tickCache.tick] <= co_tickCache'.age /\ co_tickCache'.age <= co_time'
    <3> SUFFICES ASSUME co_tickCache.tick # NoTick
                 PROVE  co_tickAge'[co_tickCache.tick] <= co_tickCache'.age /\ co_tickCache'.age <= co_time'
      OBVIOUS
    <3>1. co_tickAge[co_tickCache.tick] <= co_tickCache.age /\ co_tickCache.age <= co_time
      BY DEF CreationInv, AgesSound
    <3>2. co_tickCache'.age = co_tickCache.age + 1
      BY <1>1, <1>3, <2>1, <3>1 DEF Older
    <3>3. /\ co_tickAge'[co_tickCache.tick] <= co_tickAge[co_tickCache.tick] + 1
          /\ co_tickAge'[co_tickCache.tick] \in Int /\ co_tickAge[co_tickCache.tick] \in Int
      BY <2>0, <2>1
    <3> QED BY <1>1, <2>1, <3>1, <3>2, <3>3
  <2>3. co_rules.least # NoTick =>
           co_tickAge'[co_rules.least] < Ttl + co_since' /\ co_since' <= co_time'
    <3> SUFFICES ASSUME co_rules.least # NoTick
                 PROVE  co_tickAge'[co_rules.least] < Ttl + co_since' /\ co_since' <= co_time'
      OBVIOUS
    <3>1. co_tickAge[co_rules.least] < Ttl + co_since /\ co_since <= co_time
      BY DEF CreationInv, AgesSound
    <3>2. co_since' = co_since + 1
      BY <1>1, <1>4, <2>1, <3>1 DEF Older
    <3>3. /\ co_tickAge'[co_rules.least] <= co_tickAge[co_rules.least] + 1
          /\ co_tickAge'[co_rules.least] \in Int /\ co_tickAge[co_rules.least] \in Int
      BY <2>0, <2>1
    <3> QED BY <1>1, <2>1, <3>1, <3>2, <3>3
  <2>4. co_rules.least # NoTick => co_tickAge'[co_rules.least] <= co_time'
    <3> SUFFICES ASSUME co_rules.least # NoTick
                 PROVE  co_tickAge'[co_rules.least] <= co_time'
      OBVIOUS
    <3>1. co_tickAge[co_rules.least] <= co_time
      BY DEF CreationInv, AgesSound
    <3>2. /\ co_tickAge'[co_rules.least] <= co_tickAge[co_rules.least] + 1
          /\ co_tickAge'[co_rules.least] \in Int /\ co_tickAge[co_rules.least] \in Int
      BY <2>0, <2>1
    <3> QED BY <1>1, <3>1, <3>2
  <2> QED BY <1>1, <1>2, <1>3, <2>2, <2>3, <2>4 DEF AgesSound
<1>7. FeesSound' /\ NegsSound' /\ PriceSound'
  BY <1>1 DEF CreationInv, FeesSound, NegsSound, PriceSound, PriceValid
<1>8. TickSound'
  <2>1. \A least \in TickSizes : co_tickAge[least] <= co_time => co_tickAge'[least] <= co_time'
    BY <1>1, <1>2
  <2> QED BY <1>1, <2>1 DEF CreationInv, TickSound, TickAllowed
<1> QED BY <1>5, <1>6, <1>7, <1>8 DEF CreationInv

LEMMA CreationInvStep ==
    ASSUME CreationInv, [CreationNext]_co_vars
    PROVE  CreationInv'
<1> USE CreationAssumption DEF CreationAssumption
<1> DEFINE Kept == UNCHANGED <<exchangeSide, co_tickCache, co_negCache, co_feeCache>>
<1>0. /\ co_tickCache \in [tick : TickSizes \cup {NoTick}, age : 0 .. MaxTime]
      /\ co_tickCache.tick # NoTick =>
            co_tickAge[co_tickCache.tick] <= co_tickCache.age /\ co_tickCache.age <= co_time
      /\ co_feeCache \in FeeRates \cup {Unknown} /\ (co_feeCache # Unknown => co_feeCache \in co_fees)
      /\ co_market.tick \in TickSizes /\ co_tickAge[co_market.tick] = 0
      /\ [tick |-> co_market.tick, age |-> 0] \in [tick : TickSizes \cup {NoTick}, age : 0 .. MaxTime]
      /\ co_time \in 0 .. MaxTime
  BY DEF CreationInv, CreationTypeOK, AgesSound, FeesSound
<1>1. CASE CreateOrder
  <2>1. co_pc' = "tick" /\ UNCHANGED <<exchangeSide, co_signed, co_tickCache, co_negCache, co_feeCache, co_args, co_rules, co_since>>
    BY <1>1 DEF CreateOrder, Goes
  <2>2. co_signed = NoOrder
    BY <1>1 DEF CreateOrder
  <2>3. TickSound'
    <3>1. co_pc = "idle" /\ co_rules.least = NoTick
      BY <1>1 DEF CreateOrder, CreationInv, TickSound
    <3> QED BY <2>1, <2>2, <3>1 DEF TickSound
  <2>4. NegsSound'
    BY <2>1, <2>2 DEF CreationInv, NegsSound, exchangeSide
  <2> QED BY <2>1, <2>3, <2>4 DEF CreationInv, CreationTypeOK, AgesSound, FeesSound, PriceSound, exchangeSide
<1>2. CASE ResolveTickSize
  <2>1. CASE TickCached
    <3>1. /\ Resolve(co_tickCache.tick) /\ UNCHANGED <<co_tickCache, co_negCache, co_feeCache>>
          /\ co_tickCache.tick \in TickSizes
      BY <1>0, <1>2, <2>1 DEF ResolveTickSize, TickCached
    <3>2. co_tickAge[co_tickCache.tick] < Ttl
      <4>1. co_tickAge[co_tickCache.tick] <= co_tickCache.age /\ co_tickCache.age < Ttl
        BY <1>0, <2>1 DEF TickCached
      <4>2. \A t \in TickSizes : co_tickAge[t] \in Int
        BY DEF CreationInv, CreationTypeOK
      <4>3. co_tickAge[co_tickCache.tick] \in Int
        BY <3>1, <4>2
      <4>4. co_tickCache.age \in 0 .. MaxTime
        BY DEF CreationInv, CreationTypeOK
      <4> QED BY <4>1, <4>3, <4>4
    <3>3. co_tickAge[co_tickCache.tick] <= co_time
      <4>1. \A t \in TickSizes : co_tickAge[t] \in Int
        BY DEF CreationInv, CreationTypeOK
      <4>2. co_tickCache.age \in Int /\ co_time \in Int
        BY <1>0
      <4>3. co_tickAge[co_tickCache.tick] <= co_tickCache.age /\ co_tickCache.age <= co_time
        BY <1>0, <2>1 DEF TickCached
      <4>4. co_tickAge[co_tickCache.tick] \in Int
        BY <3>1, <4>1
      <4> QED BY <4>2, <4>3, <4>4
    <3> QED BY <1>0, <1>2, <3>1, <3>2, <3>3, ResolveIsSound DEF ResolveTickSize
  <2>2. CASE ~TickCached
    <3>1. /\ Resolve(co_market.tick) /\ co_tickCache' = [tick |-> co_market.tick, age |-> 0]
          /\ UNCHANGED <<co_negCache, co_feeCache>>
      BY <1>2, <2>2 DEF ResolveTickSize
    <3>2. /\ co_tickAge[co_market.tick] < Ttl /\ co_tickAge[co_market.tick] <= co_time
          /\ co_market.tick \in TickSizes
          /\ co_tickCache' \in [tick : TickSizes \cup {NoTick}, age : 0 .. MaxTime]
          /\ co_tickCache'.tick # NoTick =>
                co_tickAge[co_tickCache'.tick] <= co_tickCache'.age /\ co_tickCache'.age <= co_time
      BY <1>0, <3>1
    <3> QED BY <1>2, <3>1, <3>2, ResolveIsSound DEF ResolveTickSize
  <2> QED BY <2>1, <2>2
<1>3. CASE CalculateMarketPrice
  <2>1. /\ co_pc = "price" /\ co_tickCache' = [tick |-> co_market.tick, age |-> 0]
        /\ UNCHANGED <<co_negCache, co_feeCache>>
    BY <1>3 DEF CalculateMarketPrice, BookRenewsTick
  <2>2. CASE Raise
    BY <1>0, <2>1, <2>2, RaiseIsSound
  <2>3. CASE \E price \in BookPrices :
             /\ price % co_market.tick = 0 /\ price \in co_market.tick .. One - co_market.tick
             /\ co_args' = [co_args EXCEPT !.price = price]
             /\ Goes("price") /\ UNCHANGED <<co_rules, co_since>>
    <3>1. PICK price \in BookPrices :
             /\ price \in co_market.tick .. One - co_market.tick
             /\ co_args' = [co_args EXCEPT !.price = price]
             /\ Goes("price") /\ UNCHANGED <<co_rules, co_since>>
      BY <2>3
    <3>2. price \in 0 .. One
      BY <1>0, <3>1
    <3>3. co_pc' = "price" /\ UNCHANGED <<exchangeSide, co_signed, co_rules, co_since>>
      BY <3>1 DEF Goes
    <3>4. CreationTypeOK'
      BY <1>0, <2>1, <3>1, <3>2, <3>3 DEF CreationInv, CreationTypeOK, exchangeSide
    <3>5. AgesSound' /\ FeesSound' /\ NegsSound' /\ PriceSound'
      BY <1>0, <2>1, <3>3 DEF CreationInv, AgesSound, FeesSound, NegsSound, PriceSound, TickSound, exchangeSide
    <3>6. TickSound'
      <4>1. co_args'.tick = co_args.tick
        BY <3>1 DEF CreationInv, CreationTypeOK
      <4>2. co_signed = NoOrder
        BY <2>1 DEF CreationInv, TickSound
      <4> QED BY <2>1, <3>3, <4>1, <4>2 DEF CreationInv, TickSound, TickAllowed, exchangeSide
    <3> QED BY <3>4, <3>5, <3>6 DEF CreationInv
  <2> QED BY <1>3, <2>2, <2>3 DEF CalculateMarketPrice
<1>4. CASE CheckPrice
  <2>1. co_pc = "price" /\ UNCHANGED <<co_tickCache, co_negCache, co_feeCache>>
    BY <1>4 DEF CheckPrice
  <2>2. CASE Raise
    BY <1>0, <2>1, <2>2, RaiseIsSound
  <2>3. CASE PriceValid /\ Goes("neg") /\ UNCHANGED <<co_args, co_rules, co_since>>
    <3>1. PriceValid' /\ co_pc' = "neg" /\ UNCHANGED <<exchangeSide, co_signed>>
      BY <2>3 DEF PriceValid, Goes
    <3> QED BY <2>1, <2>3, <3>1
            DEF CreationInv, CreationTypeOK, AgesSound, FeesSound, NegsSound, TickSound, PriceSound, TickAllowed, exchangeSide
  <2> QED BY <1>4, <2>2, <2>3 DEF CheckPrice
<1>5. CASE ResolveNegRisk
  <2>1. PICK cached \in BOOLEAN \cup {Unknown} :
            /\ co_negCache' = cached /\ co_rules' = [co_rules EXCEPT !.neg = co_args.neg \/ cached = TRUE]
            /\ cached # Unknown => cached \in co_negs
            /\ co_args.neg \/ cached \in co_negs
    <3> DEFINE asks == ~co_args.neg /\ co_negCache = Unknown
               flag == IF asks THEN co_market.neg ELSE co_negCache
    <3>1. /\ co_market.neg \in BOOLEAN /\ co_market.neg \in co_negs
          /\ co_negCache \in BOOLEAN \cup {Unknown} /\ (co_negCache # Unknown => co_negCache \in co_negs)
      BY DEF CreationInv, CreationTypeOK, NegsSound
    <3>2. flag \in BOOLEAN \cup {Unknown} /\ (flag # Unknown => flag \in co_negs)
      BY <3>1, Zenon
    <3>3. co_args.neg \/ flag \in co_negs
      BY <3>1, Zenon
    <3>4. co_negCache' = flag /\ co_rules' = [co_rules EXCEPT !.neg = co_args.neg \/ flag = TRUE]
      BY <1>5 DEF ResolveNegRisk, NegSigned
    <3> HIDE DEF flag
    <3> QED BY <3>2, <3>3, <3>4, Zenon
  <2>2. /\ co_pc = "neg" /\ co_pc' = "fee"
        /\ UNCHANGED <<exchangeSide, co_signed, co_args, co_since, co_tickCache, co_feeCache>>
    BY <1>5 DEF ResolveNegRisk, Goes
  <2>3. CreationTypeOK'
    <3>1. co_rules' \in [least : TickSizes \cup {NoTick}, tick : TickSizes \cup {NoTick}, neg : BOOLEAN]
      <4>1. (co_args.neg \/ cached = TRUE) \in BOOLEAN
        BY Zenon
      <4> QED BY <2>1, <4>1 DEF CreationInv, CreationTypeOK
    <3> QED BY <2>1, <2>2, <3>1 DEF CreationInv, CreationTypeOK, exchangeSide
  <2>4. co_rules'.least = co_rules.least /\ co_rules'.tick = co_rules.tick
    BY <2>1 DEF CreationInv, CreationTypeOK
  <2>5. NegsSound'
    <3>1. IF co_args.neg THEN co_rules'.neg ELSE co_rules'.neg \in co_negs
      <4>1. co_rules'.neg = (co_args.neg \/ cached = TRUE)
        BY <2>1 DEF CreationInv, CreationTypeOK
      <4>2. CASE co_args.neg
        BY <4>1, <4>2
      <4>3. CASE ~co_args.neg
        <5>1. cached \in BOOLEAN /\ cached \in co_negs
          BY <2>1, <4>3, Zenon DEF CreationInv, CreationTypeOK
        <5>2. cached = TRUE <=> cached
          BY <5>1, Zenon
        <5> QED BY <4>1, <4>3, <5>1, <5>2
      <4> QED BY <4>2, <4>3
    <3> QED BY <2>1, <2>2, <3>1 DEF CreationInv, NegsSound, TickSound, exchangeSide
  <2> QED BY <2>2, <2>3, <2>4, <2>5
          DEF CreationInv, AgesSound, FeesSound, TickSound, PriceSound, TickAllowed, PriceValid, exchangeSide
<1>6. CASE ResolveFeeRate
  <2> DEFINE market == IF co_feeCache = Unknown THEN co_market.fee ELSE co_feeCache
  <2>1. market \in FeeRates /\ market \in co_fees
    BY DEF CreationInv, CreationTypeOK, FeesSound
  <2>2. co_pc = "fee" /\ co_feeCache' = market /\ UNCHANGED <<co_tickCache, co_negCache>>
    BY <1>6 DEF ResolveFeeRate
  <2> HIDE DEF market
  <2>3. CASE Raise
    BY <1>0, <2>1, <2>2, <2>3, RaiseIsSound
  <2>4. CASE co_args' = [co_args EXCEPT !.fee = market] /\ Goes("sign") /\ UNCHANGED <<co_rules, co_since>>
    <3>1. co_pc' = "sign" /\ UNCHANGED <<exchangeSide, co_signed>>
      BY <2>4 DEF Goes
    <3>2. co_args'.fee = market /\ co_args'.price = co_args.price /\ CreationTypeOK'
      BY <2>1, <2>2, <2>4, <3>1 DEF CreationInv, CreationTypeOK, exchangeSide
    <3> QED BY <2>1, <2>2, <2>4, <3>1, <3>2
            DEF CreationInv, AgesSound, FeesSound, NegsSound, TickSound, PriceSound, TickAllowed, PriceValid, exchangeSide
  <2> QED BY <1>6, <2>3, <2>4 DEF ResolveFeeRate, FeeSigned, market
<1>7. CASE SignOrder
  BY <1>7, SignOrderIsSound
<1>8. CASE RulesRequestFails
  BY <1>0, <1>8, RaiseIsSound DEF RulesRequestFails
<1>9. CASE NewArguments
  <2>1. /\ co_pc = "idle" /\ co_args' \in CallerArguments /\ co_signed' = NoOrder
        /\ UNCHANGED <<exchangeSide, co_tickCache, co_negCache, co_feeCache, co_pc, co_rules, co_since>>
    BY <1>9 DEF NewArguments
  <2>2. co_rules.least = NoTick
    BY <2>1 DEF CreationInv, TickSound
  <2>3. TickSound' /\ NegsSound'
    BY <2>1, <2>2 DEF CreationInv, TickSound, NegsSound, exchangeSide
  <2> QED BY <2>1, <2>3 DEF CreationInv, CreationTypeOK, AgesSound, FeesSound, PriceSound, exchangeSide
<1>10. CASE GetOrderBook \/ ClearTickSizeCache
  <2>1. /\ co_pc = "idle" /\ co_tickCache' \in {[tick |-> co_market.tick, age |-> 0], [tick |-> NoTick, age |-> 0]}
        /\ UNCHANGED <<exchangeSide, co_negCache, co_feeCache, co_args, co_pc, co_rules, co_since, co_signed>>
    BY <1>10 DEF GetOrderBook, ClearTickSizeCache, BookRenewsTick, Uncached
  <2>2. CreationTypeOK'
    BY <1>0, <2>1 DEF CreationInv, CreationTypeOK, exchangeSide
  <2> QED BY <1>0, <2>1, <2>2 DEF CreationInv, AgesSound, FeesSound, NegsSound, TickSound, PriceSound, TickAllowed, exchangeSide
<1>11. CASE MarketChanges
  BY <1>11, MarketChangesIsSound
<1>12. CASE TimePasses
  BY <1>12, TimePassesIsSound
<1>13. CASE UNCHANGED co_vars
  BY <1>13 DEF CreationInv, CreationTypeOK, AgesSound, FeesSound, NegsSound, TickSound, PriceSound, TickAllowed, PriceValid, co_vars
<1> QED BY <1>1, <1>2, <1>3, <1>4, <1>5, <1>6, <1>7, <1>8, <1>9, <1>10, <1>11, <1>12, <1>13
        DEF CreationNext

\* Whatever refreshes, clears or outlives the caches between the steps of
\* create_order and whatever the caller reuses (client.py), the order is validated
\* against a tick size the market had less than the time to live before; it is signed
\* with that one or a coarser one of the caller's, and its price is on a tick inside
\* (0, 1); its fee is one the market has had, and so is its neg-risk flag unless the
\* caller set it.
THEOREM OrdersAreSignedUnderMarketRules == ClobSpec => []SignedUnderMarketRules
<1>1. ClobInit => CreationInv
  BY CreationInvInit DEF ClobInit
<1>2. CreationInv /\ [ClobNext]_client_vars => CreationInv'
  BY StepOfEachPart, CreationInvStep
<1>3. CreationInv => SignedUnderMarketRules
  BY DEF CreationInv, AgesSound, FeesSound, NegsSound, TickSound, PriceSound, SignedUnderMarketRules
<1> QED BY <1>1, <1>2, <1>3, PTL DEF ClobSpec

-----------------------------------------------------------------------------
(* Listings *)

\* What stays of the open orders is some of them, each once.
LEMMA WithoutKeeps ==
    ASSUME cs_open \in Seq(Orders), IsInjective(cs_open), NEW cancelled
    PROVE  Without(cancelled) \in Seq(Orders) /\ IsInjective(Without(cancelled))
<1> DEFINE N == Len(cs_open)
           V == Seq(Orders)
           Body(f) == [n \in 0 .. N |->
                          IF n = 0 THEN <<>>
                          ELSE IF cs_open[n] \in cancelled THEN f[n - 1] ELSE Append(f[n - 1], cs_open[n])]
           kept == CHOOSE f : f = Body(f)
           step == [p \in (1 .. N) \X V |->
                       IF cs_open[p[1]] \in cancelled THEN p[2] ELSE Append(p[2], cs_open[p[1]])]
<1>1. N \in Nat /\ \A n \in 1 .. N : cs_open[n] \in Orders
  OBVIOUS
<1>2. kept = Body(kept)
  <2>1. step \in [(1 .. N) \X V -> V] /\ <<>> \in V
    BY <1>1
  <2>2. \A n \in 1 .. N, v \in V :
            step[<<n, v>>] = IF cs_open[n] \in cancelled THEN v ELSE Append(v, cs_open[n])
    OBVIOUS
  <2> DEFINE base == <<>>
  <2> HIDE DEF V, step, N, base
  <2>0. base \in V
    BY <2>1 DEF base
  <2>6. PICK f : IsRecursion(f, N, V, base, step)
    <3>1. N \in Nat /\ IsStep(step, N, V)
      BY <1>1, <2>1 DEF IsStep
    <3> QED BY <3>1, <2>0, RecursionExists
  <2>3. f[0] = <<>> /\ f \in [0 .. N -> V] /\ \A n \in 1 .. N : f[n] = step[<<n, f[n - 1]>>]
    BY <2>6 DEF base, IsRecursion
  <2>4. ASSUME NEW n \in 0 .. N PROVE f[n] = Body(f)[n]
    <3>1. CASE n = 0
      BY <2>3, <3>1
    <3>2. CASE n # 0
      <4>1. n \in 1 .. N /\ n - 1 \in 0 .. N
        BY <1>1, <3>2
      <4>2. f[n - 1] \in V
        BY <2>3, <4>1
      <4> QED BY <2>2, <2>3, <3>2, <4>1, <4>2
    <3> QED BY <3>1, <3>2
  <2>5. f = Body(f)
    BY <2>3, <2>4
  <2> HIDE DEF Body
  <2> QED BY <2>5
<1>3. /\ kept[0] = <<>>
      /\ \A n \in 1 .. N : kept[n] = IF cs_open[n] \in cancelled THEN kept[n - 1]
                                     ELSE Append(kept[n - 1], cs_open[n])
  <2> HIDE DEF kept, N
  <2>1. 0 \in 0 .. N /\ \A n \in 1 .. N : n \in 0 .. N /\ n # 0
    BY <1>1
  <2>2. \A n \in 0 .. N : kept[n] = Body(kept)[n]
    BY <1>2, Zenon
  <2> QED BY <2>1, <2>2
<1> DEFINE From(v, n) == \A j \in 1 .. Len(v) : \E i \in 1 .. n : v[j] = cs_open[i]
           Good == {n \in 0 .. N : kept[n] \in V /\ IsInjective(kept[n]) /\ From(kept[n], n)}
<1> HIDE DEF kept, N
<1>4. 0 \in Good
  <2>1. IsInjective(<<>>) /\ <<>> \in V /\ From(<<>>, 0)
    BY DEF IsInjective
  <2>2. kept[0] \in V /\ IsInjective(kept[0]) /\ From(kept[0], 0)
    BY <1>3, <2>1
  <2> QED BY <1>1, <2>2
<1>5. ASSUME NEW n \in 1 .. N, n - 1 \in Good PROVE n \in Good
  <2> DEFINE v == kept[n - 1]
             w == kept[n]
  <2>1. v \in V /\ IsInjective(v) /\ From(v, n - 1)
    BY <1>5
  <2>2. w = IF cs_open[n] \in cancelled THEN v ELSE Append(v, cs_open[n])
    BY <1>3
  <2> HIDE DEF v, w
  <2>3. From(v, n) /\ n \in 0 .. N
    BY <1>1, <2>1
  <2>4. CASE cs_open[n] \in cancelled
    BY <2>1, <2>2, <2>3, <2>4 DEF w
  <2>5. CASE cs_open[n] \notin cancelled
    <3>1. w = Append(v, cs_open[n]) /\ cs_open[n] \in Orders
      BY <1>1, <2>2, <2>5
    <3>2. /\ w \in V /\ Len(w) = Len(v) + 1 /\ w[Len(v) + 1] = cs_open[n]
          /\ \A j \in 1 .. Len(v) : w[j] = v[j]
          /\ Len(v) \in Nat /\ DOMAIN w = 1 .. Len(v) + 1 /\ DOMAIN v = 1 .. Len(v)
      BY <2>1, <3>1
    <3>3. From(w, n)
      BY <1>1, <2>3, <3>2
    <3>4. \A j \in 1 .. Len(v) : v[j] # cs_open[n]
      <4> SUFFICES ASSUME NEW j \in 1 .. Len(v), v[j] = cs_open[n] PROVE FALSE
        OBVIOUS
      <4>1. PICK i \in 1 .. n - 1 : v[j] = cs_open[i]
        BY <2>1
      <4>2. i \in DOMAIN cs_open /\ n \in DOMAIN cs_open /\ i # n
        BY <1>1 DEF N
      <4> QED BY <4>1, <4>2 DEF IsInjective
    <3>5. IsInjective(w)
      <4> SUFFICES ASSUME NEW a \in DOMAIN w, NEW b \in DOMAIN w, w[a] = w[b], a # b PROVE FALSE
        BY DEF IsInjective
      <4>1. CASE a \in 1 .. Len(v) /\ b \in 1 .. Len(v)
        BY <2>1, <3>2, <4>1 DEF IsInjective
      <4>2. CASE a = Len(v) + 1 /\ b \in 1 .. Len(v)
        BY <3>2, <3>4, <4>2
      <4>3. CASE b = Len(v) + 1 /\ a \in 1 .. Len(v)
        BY <3>2, <3>4, <4>3
      <4> QED BY <3>2, <4>1, <4>2, <4>3
    <3> QED BY <2>3, <3>2, <3>3, <3>5 DEF w
  <2> QED BY <2>4, <2>5
<1>6. N \in Good
  <2> HIDE DEF Good
  <2>1. 0 .. N \subseteq Good
    BY <1>1, <1>4, <1>5, UpToInduction
  <2> QED BY <1>1, <2>1
<1>7. Without(cancelled) = kept[N]
  BY DEF Without, kept, N
<1> QED BY <1>6, <1>7

\* The standing orders a listing has passed without returning them.
Missed ==
    {o \in (cs_standing \cap ToSet(cs_open)) \ cs_listed :
        \E i \in DOMAIN cs_open : i <= cs_offset /\ cs_open[i] = o}

ListingInv ==
    /\ SessionTypeOK
    /\ cs_pc = "list" => Cardinality(Missed) <= cs_gone /\ cs_answer.kind # "listed"
    /\ ListingComplete

LEMMA ListingInvInit == SessionInit => ListingInv
<1> SUFFICES ASSUME SessionInit PROVE ListingInv
  OBVIOUS
<1> USE SessionAssumption DEF SessionAssumption, SessionInit, NoAnswerYet
<1>1. SessionTypeOK
  <2>1. cs_want \in Nonces
    OBVIOUS
  <2>2. cs_open \in Seq(Orders) /\ IsInjective(cs_open)
    BY DEF IsInjective
  <2>3. cs_answer.kind = "none" /\ cs_answer.creds = NoCreds /\ 0 \in 0 .. MaxSessionFaults
    OBVIOUS
  <2> QED BY <2>1, <2>2, <2>3 DEF SessionTypeOK
<1> QED BY <1>1 DEF ListingInv, ListingComplete

\* A call forgets what the last listing found.
LEMMA CallsKeepListing ==
    ASSUME ListingInv, SessionTypeOK', ListingDropped, cs_pc' # "list"
    PROVE  ListingInv'
<1>1. Cardinality({}) = 0
  BY FS_EmptySet
<1>2. (cs_standing' \cap ToSet(cs_open)') \ cs_listed' = {} /\ cs_gone' = 0
  BY DEF ListingDropped
<1> QED BY <1>1, <1>2 DEF ListingInv, ListingComplete

LEMMA FaultsCounted ==
    ASSUME SessionTypeOK, Fault \/ UNCHANGED cs_faults
    PROVE  cs_faults' \in 0 .. MaxSessionFaults
BY SessionAssumption DEF SessionAssumption, SessionTypeOK, Fault

\* What a level 2 call may do to the account.
LEMMA Level2Sound ==
    ASSUME SessionTypeOK,
           DeleteApiKey \/ ChangeReadonlyKey \/ PostOrder \/ CancelOrders \/ PostHeartbeat \/ QueryAccount
    PROVE  SessionTypeOK' /\ ListingDropped /\ cs_pc' # "list"
<1> USE DEF accountState, Becomes, Return, Outcome, keyCall
<1>0. /\ cs_keys \in SUBSET Nonces /\ cs_readonly \in BOOLEAN /\ cs_beating \in BOOLEAN
      /\ cs_open \in Seq(Orders) /\ IsInjective(cs_open)
  BY DEF SessionTypeOK
<1> DEFINE Account == /\ cs_keys' \in SUBSET Nonces /\ cs_readonly' \in BOOLEAN /\ cs_beating' \in BOOLEAN
                      /\ cs_open' \in Seq(Orders) /\ IsInjective(cs_open')
           Call == /\ cs_pc' = "idle" /\ (cs_answer' = Outcome("done") \/ cs_answer' = Outcome("raised"))
                   /\ Fault \/ UNCHANGED cs_faults
                   /\ ListingDropped /\ UNCHANGED <<cs_signer, cs_creds, cs_want, cs_disturbed>>
<1>9. ASSUME Account, Call PROVE SessionTypeOK' /\ ListingDropped /\ cs_pc' # "list"
  <2>1. cs_faults' \in 0 .. MaxSessionFaults
    BY <1>9, FaultsCounted
  <2>2. cs_answer'.kind \in {"done", "raised"} /\ cs_answer'.creds = NoCreds
    BY <1>9
  <2> QED BY <1>9, <2>1, <2>2 DEF SessionTypeOK, ListingDropped
<1>1. CASE DeleteApiKey
  <2>1. Call
    BY <1>1 DEF DeleteApiKey, Level2
  <2>2. cs_keys' \in {cs_keys, cs_keys \ {cs_creds}} /\ UNCHANGED <<cs_readonly, cs_open, cs_beating>>
    BY <1>1 DEF DeleteApiKey, Level2
  <2> QED BY <1>0, <1>9, <2>1, <2>2
<1>2. CASE ChangeReadonlyKey
  <2>1. Call
    BY <1>2 DEF ChangeReadonlyKey, Level2
  <2>2. cs_readonly' \in BOOLEAN /\ UNCHANGED <<cs_keys, cs_open, cs_beating>>
    BY <1>0, <1>2 DEF ChangeReadonlyKey, Level2
  <2> QED BY <1>0, <1>9, <2>1, <2>2
<1>3. CASE PostOrder
  <2>1. Call
    BY <1>3 DEF PostOrder, RefusedBeforehand, Level2
  <2>2. PICK o \in Orders \ ToSet(cs_open) : cs_open' \in {cs_open, Append(cs_open, o)}
    BY <1>3 DEF PostOrder, RefusedBeforehand, Level2
  <2>3. UNCHANGED <<cs_keys, cs_readonly, cs_beating>>
    BY <1>3 DEF PostOrder, RefusedBeforehand, Level2
  <2>4. Append(cs_open, o) \in Seq(Orders) /\ IsInjective(Append(cs_open, o))
    BY <1>0 DEF IsInjective, ToSet
  <2> QED BY <1>0, <1>9, <2>1, <2>2, <2>3, <2>4
<1>4. CASE CancelOrders
  <2>1. Call
    BY <1>4 DEF CancelOrders, Level2
  <2>2. PICK cancelled : cs_open' \in {cs_open, Without(cancelled)}
    BY <1>4 DEF CancelOrders, Level2
  <2>3. UNCHANGED <<cs_keys, cs_readonly, cs_beating>>
    BY <1>4 DEF CancelOrders, Level2
  <2>4. cs_open' \in Seq(Orders) /\ IsInjective(cs_open')
    BY <1>0, <2>2, WithoutKeeps
  <2> QED BY <1>0, <1>9, <2>1, <2>3, <2>4
<1>5. CASE PostHeartbeat \/ QueryAccount
  <2>1. Call
    BY <1>5 DEF PostHeartbeat, QueryAccount, Level2
  <2>2. cs_beating' \in {cs_beating, TRUE} /\ UNCHANGED <<cs_keys, cs_readonly, cs_open>>
    BY <1>5 DEF PostHeartbeat, QueryAccount, Level2
  <2> QED BY <1>0, <1>9, <2>1, <2>2
<1> QED BY <1>1, <1>2, <1>3, <1>4, <1>5

\* A page moves the offset past the orders it returns.
LEMMA PageKeepsListing ==
    ASSUME ListingInv, ReadOrdersPage
    PROVE  ListingInv'
<1>1. /\ cs_pc = "list" /\ cs_creds \in cs_keys
      /\ cs_listed' = cs_listed \cup ExchangePage /\ cs_offset' = cs_offset + OrdersPerPage
      /\ UNCHANGED <<accountState, keyCall, cs_standing, cs_gone, cs_faults, cs_signer, cs_creds>>
      /\ IF IsLastPage THEN cs_pc' = "idle" /\ cs_answer' = Outcome("listed")
                       ELSE UNCHANGED <<cs_pc, cs_answer>>
  BY DEF ReadOrdersPage, Return
<1>2. /\ cs_open \in Seq(Orders) /\ cs_offset \in Nat /\ OrdersPerPage \in Nat \ {0} /\ Len(cs_open) \in Nat
      /\ cs_listed \subseteq Orders /\ cs_gone \in Nat /\ DOMAIN cs_open = 1 .. Len(cs_open)
  BY SessionAssumption DEF SessionAssumption, ListingInv, SessionTypeOK
<1>3. ExchangePage \subseteq Orders
  BY <1>2 DEF ExchangePage
<1>4. SessionTypeOK'
  BY <1>1, <1>2, <1>3 DEF ListingInv, SessionTypeOK, accountState, keyCall, Outcome
<1>5. Missed' \subseteq Missed
  <2> SUFFICES ASSUME NEW o \in Missed' PROVE o \in Missed
    OBVIOUS
  <2>1. /\ o \in (cs_standing \cap ToSet(cs_open)) \ (cs_listed \cup ExchangePage)
        /\ \E i \in DOMAIN cs_open : i <= cs_offset + OrdersPerPage /\ cs_open[i] = o
    BY <1>1 DEF Missed, accountState
  <2>2. PICK i \in DOMAIN cs_open : i <= cs_offset + OrdersPerPage /\ cs_open[i] = o
    BY <2>1
  <2>3. i <= cs_offset
    <3>1. ~(i > cs_offset)
      BY <2>1, <2>2 DEF ExchangePage
    <3> QED BY <1>2, <3>1
  <2> QED BY <2>1, <2>2, <2>3 DEF Missed
<1>6. IsFiniteSet(Missed)
  BY <1>2, RangeFinite, FS_Subset DEF Missed
<1>7. Cardinality(Missed') <= cs_gone'
  <2>1. Cardinality(Missed') \in Nat /\ Cardinality(Missed) \in Nat /\ Cardinality(Missed') <= Cardinality(Missed)
    BY <1>5, <1>6, CardinalityShrinks
  <2> QED BY <1>1, <1>2, <2>1 DEF ListingInv
<1>8. CASE IsLastPage
  <2>1. (cs_standing' \cap ToSet(cs_open)') \ cs_listed' = Missed'
    BY <1>1, <1>2, <1>8 DEF Missed, IsLastPage, ToSet, accountState
  <2> QED BY <1>1, <1>4, <1>7, <1>8, <2>1 DEF ListingInv, ListingComplete
<1>9. CASE ~IsLastPage
  BY <1>1, <1>4, <1>7, <1>9 DEF ListingInv, ListingComplete
<1> QED BY <1>8, <1>9

\* An order that leaves pulls at most one other across the offset.
LEMMA LeavingKeepsListing ==
    ASSUME ListingInv, OrderLeaves \/ HeartbeatLapses
    PROVE  ListingInv'
<1>1. PICK left, open : /\ Leaves(left, open)
                        /\ \/ left = 1 /\ \E p \in DOMAIN cs_open : open = RemoveAt(cs_open, p)
                           \/ left = Len(cs_open) /\ open = <<>>
  BY DEF OrderLeaves, HeartbeatLapses
<1>2. Fault \/ UNCHANGED cs_faults
  BY DEF OrderLeaves, HeartbeatLapses
<1>3. /\ cs_open' = open /\ cs_gone' = cs_gone + (IF cs_pc = "list" THEN left ELSE 0)
      /\ UNCHANGED <<cs_signer, cs_creds, cs_keys, cs_readonly, cs_beating, cs_pc, cs_answer, cs_want,
                     cs_disturbed, cs_offset, cs_listed, cs_standing>>
  BY <1>1 DEF Leaves, keyCall
<1>4. /\ cs_open \in Seq(Orders) /\ IsInjective(cs_open) /\ cs_offset \in Nat /\ cs_gone \in Nat
      /\ Len(cs_open) \in Nat /\ DOMAIN cs_open = 1 .. Len(cs_open)
  BY DEF ListingInv, SessionTypeOK
<1>5. /\ left \in Nat /\ open \in Seq(Orders) /\ IsInjective(open)
      /\ ToSet(open) \subseteq ToSet(cs_open)
      /\ \E x : Missed' \subseteq Missed \cup {x}
      /\ open = <<>> \/ left = 1
  <2>1. CASE left = Len(cs_open) /\ open = <<>>
    BY <1>3, <1>4, <2>1 DEF IsInjective, ToSet, Missed
  <2>2. CASE left = 1 /\ \E p \in DOMAIN cs_open : open = RemoveAt(cs_open, p)
    <3>1. PICK p \in DOMAIN cs_open : open = RemoveAt(cs_open, p)
      BY <2>2
    <3>2. /\ open \in Seq(Orders) /\ IsInjective(open) /\ ToSet(open) \subseteq ToSet(cs_open)
          /\ Len(open) = Len(cs_open) - 1
          /\ \A j \in 1 .. Len(cs_open) - 1 : open[j] = IF j < p THEN cs_open[j] ELSE cs_open[j + 1]
      BY <1>4, <3>1, Removed
    <3>3. Missed' \subseteq Missed \cup {cs_open[cs_offset + 1]}
      <4> SUFFICES ASSUME NEW o \in Missed', o # cs_open[cs_offset + 1] PROVE o \in Missed
        OBVIOUS
      <4>1. /\ o \in (cs_standing \cap ToSet(open)) \ cs_listed
            /\ \E i \in DOMAIN open : i <= cs_offset /\ open[i] = o
        BY <1>3 DEF Missed
      <4>2. PICK i \in DOMAIN open : i <= cs_offset /\ open[i] = o
        BY <4>1
      <4>3. i \in 1 .. Len(cs_open) - 1
        BY <3>2
      <4>4. PICK k \in {i, i + 1} : cs_open[k] = o
        BY <3>2, <4>2, <4>3
      <4>5. k \in DOMAIN cs_open /\ k <= cs_offset
        <5>1. k # cs_offset + 1
          BY <4>4
        <5> QED BY <1>4, <4>2, <4>3, <5>1
      <4> QED BY <3>2, <4>1, <4>4, <4>5 DEF Missed
    <3> QED BY <2>2, <3>2, <3>3
  <2> QED BY <1>1, <2>1, <2>2
<1>6. cs_gone' \in Nat
  BY <1>3, <1>4, <1>5
<1>7. SessionTypeOK'
  BY <1>2, <1>3, <1>5, <1>6, FaultsCounted DEF ListingInv, SessionTypeOK
<1>8. ListingComplete'
  <2> DEFINE lost == (cs_standing \cap ToSet(cs_open)) \ cs_listed
             lostNow == (cs_standing \cap ToSet(open)) \ cs_listed
  <2>1. IsFiniteSet(lost) /\ lostNow \in SUBSET lost
    BY <1>4, <1>5, RangeFinite, FS_Subset
  <2>2. Cardinality(lostNow) \in Nat /\ Cardinality(lost) \in Nat /\ Cardinality(lostNow) <= Cardinality(lost)
    BY <2>1, CardinalityShrinks
  <2>3. cs_gone <= cs_gone'
    BY <1>3, <1>4, <1>5
  <2> SUFFICES ASSUME cs_answer.kind = "listed" PROVE Cardinality(lostNow) <= cs_gone'
    BY <1>3 DEF ListingComplete
  <2>4. Cardinality(lost) <= cs_gone
    BY DEF ListingInv, ListingComplete
  <2> QED BY <1>4, <1>6, <2>2, <2>3, <2>4
<1>9. cs_pc = "list" => Cardinality(Missed') <= cs_gone'
  <2> SUFFICES ASSUME cs_pc = "list" PROVE Cardinality(Missed') <= cs_gone'
    OBVIOUS
  <2>1. Cardinality(Missed) <= cs_gone /\ cs_gone' = cs_gone + left
    BY <1>3 DEF ListingInv
  <2>2. CASE open = <<>>
    <3>1. Missed' = {}
      BY <1>3, <2>2 DEF Missed
    <3> QED BY <1>6, <3>1, FS_EmptySet
  <2>3. CASE left = 1
    <3>1. IsFiniteSet(Missed)
      BY <1>4, RangeFinite, FS_Subset DEF Missed
    <3>2. PICK x : Missed' \subseteq Missed \cup {x}
      BY <1>5
    <3>3. /\ Cardinality(Missed') \in Nat /\ Cardinality(Missed) \in Nat
          /\ Cardinality(Missed') <= Cardinality(Missed) + 1
      BY <3>1, <3>2, CardinalityGrows
    <3> QED BY <1>4, <2>1, <2>3, <3>3
  <2> QED BY <1>5, <2>2, <2>3
<1> QED BY <1>3, <1>7, <1>8, <1>9 DEF ListingInv

LEMMA ListingInvStep ==
    ASSUME ListingInv, [SessionNext]_cs_vars
    PROVE  ListingInv'
<1> USE SessionAssumption DEF SessionAssumption, accountState, keyCall, listing, Return, Outcome, NoAnswerYet
<1>0. SessionTypeOK
  BY DEF ListingInv
<1>1. CASE CreateApiKey
  <2>1. PICK nonce \in Nonces :
            /\ cs_want' = nonce
            /\ CreateFails(nonce) \/ CreateRefused(nonce) \/ KeyCreated(nonce)
    BY <1>1 DEF CreateApiKey
  <2>2. ListingDropped /\ UNCHANGED <<cs_readonly, cs_open, cs_beating>>
    BY <1>1 DEF CreateApiKey
  <2>3. /\ cs_keys' \in SUBSET Nonces /\ cs_disturbed' \in BOOLEAN /\ cs_pc' \in {"idle", "derive"}
        /\ UNCHANGED <<cs_signer, cs_creds>>
        /\ cs_answer'.kind \in {"none", "creds", "unparsed", "raised", "done", "listed"}
        /\ cs_answer'.creds \in Nonces \cup {NoCreds}
        /\ Fault \/ UNCHANGED cs_faults
    <3>1. CASE CreateFails(nonce)
      BY <1>0, <3>1 DEF CreateFails, SessionTypeOK
    <3>2. CASE CreateRefused(nonce)
      BY <1>0, <3>2 DEF CreateRefused, SessionTypeOK
    <3>3. CASE KeyCreated(nonce)
      <4>1. \/ cs_answer' = [kind |-> "creds", creds |-> nonce] /\ UNCHANGED cs_faults
            \/ cs_answer' = [kind |-> "unparsed", creds |-> NoCreds] /\ Fault
        BY <3>3 DEF KeyCreated
      <4>2. /\ cs_keys' = cs_keys \cup {nonce} /\ cs_disturbed' = FALSE /\ cs_pc' = "idle"
            /\ UNCHANGED <<cs_signer, cs_creds>>
        BY <3>3 DEF KeyCreated
      <4>3. cs_answer'.kind \in {"creds", "unparsed"} /\ cs_answer'.creds \in {nonce, NoCreds}
        BY <4>1
      <4>4. cs_keys' \in SUBSET Nonces
        BY <1>0, <4>2 DEF SessionTypeOK
      <4> QED BY <4>1, <4>2, <4>3, <4>4
    <3> QED BY <2>1, <3>1, <3>2, <3>3
  <2>4. SessionTypeOK'
    BY <1>0, <2>1, <2>2, <2>3, FaultsCounted DEF SessionTypeOK, ListingDropped
  <2> QED BY <2>2, <2>3, <2>4, CallsKeepListing
<1>2. CASE DeriveApiKey
  <2>1. /\ cs_pc = "derive" /\ cs_pc' = "idle" /\ cs_disturbed' \in BOOLEAN
        /\ UNCHANGED <<cs_signer, cs_creds, cs_keys, cs_readonly, cs_open, cs_beating, cs_want,
                       cs_offset, cs_listed, cs_standing, cs_gone>>
        /\ cs_answer'.kind \in {"creds", "unparsed", "raised"}
        /\ cs_answer'.creds \in Nonces \cup {NoCreds}
        /\ Fault \/ UNCHANGED cs_faults
    <3>1. cs_want \in Nonces /\ cs_disturbed \in BOOLEAN
      BY <1>0 DEF SessionTypeOK
    <3>2. \/ cs_answer' = [kind |-> "creds", creds |-> cs_want]
          \/ cs_answer' = [kind |-> "unparsed", creds |-> NoCreds]
          \/ cs_answer' = [kind |-> "raised", creds |-> NoCreds]
      BY <1>2 DEF DeriveApiKey
    <3>3. /\ cs_pc = "derive" /\ cs_pc' = "idle" /\ cs_disturbed' \in BOOLEAN
          /\ UNCHANGED <<cs_signer, cs_creds>>
          /\ Fault \/ UNCHANGED cs_faults
      BY <1>2, <3>1 DEF DeriveApiKey
    <3>4. UNCHANGED <<accountState, cs_want, listing>>
      BY <1>2 DEF DeriveApiKey
    <3> QED BY <3>1, <3>2, <3>3, <3>4
  <2>2. SessionTypeOK'
    BY <1>0, <2>1, FaultsCounted DEF SessionTypeOK
  <2> QED BY <2>1, <2>2 DEF ListingInv, ListingComplete
<1>3. CASE SetApiCreds
  <2>1. SessionTypeOK'
    BY <1>0, <1>3 DEF SetApiCreds, SessionTypeOK
  <2> QED BY <1>3, <2>1 DEF SetApiCreds, ListingInv, ListingComplete
<1>4. CASE DeleteApiKey \/ ChangeReadonlyKey \/ PostOrder \/ CancelOrders \/ PostHeartbeat \/ QueryAccount
  <2>1. SessionTypeOK' /\ ListingDropped /\ cs_pc' # "list"
    BY <1>0, <1>4, Level2Sound
  <2> QED BY <2>1, CallsKeepListing
<1>5. CASE GetOrders
  <2>1. /\ cs_pc' = "list" /\ cs_offset' = 0 /\ cs_listed' = {} /\ cs_standing' = ToSet(cs_open)
        /\ cs_gone' = 0 /\ cs_answer' = NoAnswerYet
        /\ UNCHANGED <<cs_signer, cs_creds, cs_keys, cs_readonly, cs_open, cs_beating, cs_want, cs_disturbed, cs_faults>>
    BY <1>5 DEF GetOrders
  <2>2. cs_open \in Seq(Orders)
    BY <1>0 DEF SessionTypeOK
  <2>3. SessionTypeOK'
    BY <1>0, <2>1, <2>2, RangeFinite DEF SessionTypeOK
  <2>4. Missed' = {}
    BY <2>1, <2>2 DEF Missed
  <2> QED BY <2>1, <2>3, <2>4, FS_EmptySet DEF ListingInv, ListingComplete
<1>6. CASE ReadOrdersPage
  BY <1>6, PageKeepsListing
<1>7. CASE ListingFails
  <2>1. /\ cs_pc' = "idle" /\ cs_answer' = Outcome("raised")
        /\ Fault \/ UNCHANGED cs_faults
        /\ UNCHANGED <<cs_signer, cs_creds, cs_keys, cs_readonly, cs_open, cs_beating, cs_want, cs_disturbed,
                       cs_offset, cs_listed, cs_standing, cs_gone>>
    BY <1>7 DEF ListingFails
  <2>2. SessionTypeOK'
    BY <1>0, <2>1, FaultsCounted DEF SessionTypeOK
  <2> QED BY <2>1, <2>2 DEF ListingInv, ListingComplete
<1>8. CASE OrderLeaves \/ HeartbeatLapses
  BY <1>8, LeavingKeepsListing
<1>9. CASE KeyRevoked
  <2>1. /\ Fault /\ cs_keys' \in SUBSET cs_keys /\ cs_disturbed' = TRUE
        /\ UNCHANGED <<cs_signer, cs_creds, cs_readonly, cs_open, cs_beating, cs_pc, cs_want, cs_answer,
                       cs_offset, cs_listed, cs_standing, cs_gone>>
    BY <1>9 DEF KeyRevoked
  <2>2. SessionTypeOK'
    BY <1>0, <2>1, FaultsCounted DEF SessionTypeOK
  <2> QED BY <2>1, <2>2 DEF ListingInv, ListingComplete, Missed
<1>10. CASE UNCHANGED cs_vars
  BY <1>10 DEF cs_vars, ListingInv, SessionTypeOK, ListingComplete, Missed
<1> QED
  BY <1>1, <1>2, <1>3, <1>4, <1>5, <1>6, <1>7, <1>8, <1>9, <1>10 DEF SessionNext

\* get_orders reads pages at an offset while orders leave (client.py): it misses
\* no more standing orders than left meanwhile, for any number of orders, any
\* page size and any faults.
THEOREM ListingsAreComplete == ClobSpec => []ListingComplete
<1>1. ClobInit => ListingInv
  BY ListingInvInit DEF ClobInit
<1>2. ListingInv /\ [ClobNext]_client_vars => ListingInv'
  BY StepOfEachPart, ListingInvStep
<1>3. ListingInv => ListingComplete
  BY DEF ListingInv
<1> QED BY <1>1, <1>2, <1>3, PTL DEF ClobSpec

-----------------------------------------------------------------------------
(* Amounts and prices *)

AmountsNumbers ==
    /\ PriceScale \in Nat \ {0, 1} /\ Guard \in Nat \ {0, 1} /\ Fine \in Nat \ {0, 1}
    /\ AmountTokens \in Nat \ {0} /\ MaxSize \in Nat

LEMMA ProductNumbers ==
    /\ \A x, y \in Int : x * y \in Int /\ x * y = y * x
    /\ \A x, y, z \in Int : x * (y + z) = x * y + x * z /\ x * (y * z) = (x * y) * z
    /\ \A x, y \in Int, t \in Nat \ {0} : (x <= y <=> t * x <= t * y) /\ (x < y <=> t * x < t * y)
<1>1. \A x, y \in Int : x * y \in Int /\ x * y = y * x
  OBVIOUS
<1>2. \A x, y, z \in Int : x * (y + z) = x * y + x * z /\ x * (y * z) = (x * y) * z
  OBVIOUS
<1>3. ASSUME NEW x \in Int, NEW y \in Int, NEW t \in Nat \ {0}, x < y PROVE t * x < t * y
  BY <1>3
<1>4. ASSUME NEW x \in Int, NEW y \in Int, NEW t \in Nat \ {0}
      PROVE  (x <= y <=> t * x <= t * y) /\ (x < y <=> t * x < t * y)
  <2>1. x < y => t * x < t * y
    BY <1>3
  <2>2. y < x => t * y < t * x
    BY <1>3
  <2>3. x = y => t * x = t * y
    OBVIOUS
  <2>4. t * x \in Int /\ t * y \in Int
    OBVIOUS
  <2> QED BY <2>1, <2>2, <2>3, <2>4
<1> QED BY <1>1, <1>2, <1>4

\* The fine units of an amount, and what Adjust makes of a count of them: the
\* count rounded up to guard digits and down to amounts.
Unit == Guard * Fine

\* Adjust(x) is at most a guard digit above x, and at most what rounding x down to
\* amounts loses below it.
LEMMA AdjustBounds ==
    ASSUME AmountsNumbers, NEW x \in Nat
    PROVE  /\ Adjust(x) \in Int
           /\ Unit * Adjust(x) <= x + Fine - 1
           /\ x + Fine <= Unit * Adjust(x) + Unit
<1>1. Guard \in Nat \ {0} /\ Fine \in Nat \ {0} /\ Unit \in Nat \ {0} /\ Fine <= Unit
  BY DEF AmountsNumbers, Unit
<1>2. CASE x % Unit = 0
  <2>1. Adjust(x) = x \div Unit
    BY <1>2 DEF Adjust, Unit
  <2>2. x = Unit * (x \div Unit) /\ x \div Unit \in Int
    BY <1>1, <1>2, Remainders
  <2>3. Unit * (x \div Unit) \in Int
    BY <2>2
  <2> QED BY <1>1, <2>1, <2>2, <2>3
<1>3. CASE x % Unit # 0
  <2> DEFINE u == UpToGuard(x)
             a == u \div Guard
  <2>1. Adjust(x) = a
    BY <1>3 DEF Adjust, Unit
  <2>2. u \in Int /\ Fine * u <= x + Fine - 1 /\ x <= Fine * u
    <3> DEFINE y == x + Fine - 1
    <3>1. y \in Int /\ u = y \div Fine
      BY <1>1 DEF UpToGuard
    <3>2. y % Fine \in 0 .. Fine - 1 /\ y = Fine * u + (y % Fine) /\ u \in Int
      <4> HIDE DEF y, u
      <4> QED BY <1>1, <3>1, Remainders
    <3>3. Fine * u \in Int
      BY <1>1, <3>2
    <3> HIDE DEF u
    <3> QED BY <1>1, <3>2, <3>3
  <2> HIDE DEF u
  <2>3. a \in Int /\ u % Guard \in 0 .. Guard - 1 /\ u = Guard * a + (u % Guard)
    BY <1>1, <2>2, Remainders
  <2> HIDE DEF a
  <2>4. Guard * a <= u /\ u + 1 <= Guard * a + Guard
    <3>1. Guard * a \in Int
      BY <1>1, <2>3
    <3> QED BY <1>1, <2>3, <3>1
  <2>5. Fine * (Guard * a) <= Fine * u /\ Fine * (u + 1) <= Fine * (Guard * a + Guard)
    <3>1. Guard * a \in Int /\ u + 1 \in Int /\ Guard * a + Guard \in Int
      BY <1>1, <2>2, <2>3
    <3> QED BY <1>1, <2>2, <2>4, <3>1, ProductNumbers
  <2>6. Fine * (Guard * a) = Unit * a /\ Fine * (Guard * a + Guard) = Unit * a + Unit /\ Fine * (u + 1) = Fine * u + Fine
    <3>1. Fine * (Guard * a) = (Guard * Fine) * a
      BY <1>1, <2>3
    <3>2. Fine * (Guard * a + Guard) = Fine * (Guard * a) + Guard * Fine
      BY <1>1, <2>3
    <3>3. Fine * (u + 1) = Fine * u + Fine
      BY <1>1, <2>2
    <3> QED BY <3>1, <3>2, <3>3 DEF Unit
  <2>7. Fine * u \in Int /\ Unit * a \in Int
    BY <1>1, <2>2, <2>3
  <2> QED BY <1>1, <2>1, <2>2, <2>3, <2>5, <2>6, <2>7
<1> QED BY <1>2, <1>3

\* An amount that the noise moved by less than a fine unit times Fine is found again.
LEMMA AdjustExact ==
    ASSUME AmountsNumbers, NEW n \in Nat, NEW noise \in (1 - Fine) .. (Fine - 1),
           n * Unit + noise >= 0
    PROVE  Adjust(n * Unit + noise) = n
<1> DEFINE x == n * Unit + noise
           a == Adjust(x)
<1>1. Fine \in Nat \ {0, 1} /\ Unit \in Nat \ {0} /\ 2 * Fine <= Unit
  BY DEF AmountsNumbers, Unit
<1>2. n * Unit = Unit * n /\ Unit * n \in Int /\ x \in Nat /\ x = Unit * n + noise
  BY <1>1
<1> HIDE DEF x
<1>3. a \in Int /\ Unit * a <= x + Fine - 1 /\ x + Fine <= Unit * a + Unit
  BY <1>2, AdjustBounds
<1> HIDE DEF a
<1>4. a <= n
  <2>1. CASE n + 1 <= a
    <3>1. Unit * (n + 1) <= Unit * a /\ Unit * (n + 1) = Unit * n + Unit
      BY <1>1, <1>3, <2>1, ProductNumbers
    <3>2. Unit * a \in Int
      BY <1>1, <1>3
    <3> QED BY <1>1, <1>2, <1>3, <3>1, <3>2
  <2> QED BY <1>3, <2>1
<1>5. n <= a
  <2>1. CASE a + 1 <= n
    <3>1. Unit * (a + 1) <= Unit * n /\ Unit * (a + 1) = Unit * a + Unit
      BY <1>1, <1>3, <2>1, ProductNumbers
    <3>2. Unit * a \in Int
      BY <1>1, <1>3
    <3> QED BY <1>1, <1>2, <1>3, <3>1, <3>2
  <2> QED BY <1>3, <2>1
<1> QED BY <1>3, <1>4, <1>5 DEF a, x

\* A market order's tokens: what Adjust makes of an amount divided by a price.
LEMMA QuotientWithinAnAmount ==
    ASSUME AmountsNumbers, NEW worth \in Nat, NEW price \in Nat \ {0},
           NEW noise \in (1 - Fine) .. (Fine - 1),
           (worth * Unit) \div price + noise >= 0
    PROVE  LET a == Adjust((worth * Unit) \div price + noise)
           IN /\ a \in Int
              /\ (a * price) * Guard <= worth * Guard + 2 * price
              /\ worth < (a + 1) * price
<1> DEFINE d == (worth * Unit) \div price
           x == d + noise
           a == Adjust(x)
<1>1. /\ Fine \in Nat \ {0, 1} /\ Guard \in Nat \ {0, 1} /\ Unit \in Nat \ {0} /\ 2 * Fine <= Unit
      /\ Unit = Fine * Guard
  BY DEF AmountsNumbers, Unit
<1>2. worth * Unit \in Int /\ (worth * Unit) % price \in 0 .. price - 1
      /\ worth * Unit = price * d + ((worth * Unit) % price) /\ d \in Int
  <2>1. worth * Unit \in Int
    BY <1>1
  <2> DEFINE w == worth * Unit
  <2> HIDE DEF w
  <2>2. w \in Int => w % price \in 0 .. price - 1 /\ w = price * (w \div price) + (w % price) /\ w \div price \in Int
    BY Remainders
  <2> QED BY <2>1, <2>2 DEF w
<1> HIDE DEF d
<1>3. x \in Nat
  BY <1>1, <1>2 DEF d
<1> HIDE DEF x
<1>4. a \in Int /\ Unit * a <= x + Fine - 1 /\ x + Fine <= Unit * a + Unit
  BY <1>3, AdjustBounds
<1> HIDE DEF a
<1>5. x = d + noise
  BY DEF x
<1>6. Unit * a \in Int /\ Unit * a <= d + 2 * Fine /\ d + 1 <= Unit * a + Unit
  BY <1>1, <1>2, <1>4, <1>5
<1>7. price * d \in Int /\ price * d <= worth * Unit /\ worth * Unit < price * d + price
  BY <1>1, <1>2
<1>8. Fine * ((a * price) * Guard) <= Fine * (worth * Guard + 2 * price)
  <2>1. price * (Unit * a) <= price * (d + 2 * Fine)
    BY <1>1, <1>2, <1>6, ProductNumbers
  <2>2. price * (d + 2 * Fine) = price * d + 2 * (Fine * price)
    BY <1>1, <1>2
  <2>3. price * (Unit * a) = Fine * ((a * price) * Guard)
    BY <1>1, <1>4
  <2>4. Fine * (worth * Guard + 2 * price) = worth * Unit + 2 * (Fine * price)
    BY <1>1
  <2>5. price * (Unit * a) \in Int /\ Fine * price \in Int
    BY <1>1, <1>6
  <2> QED BY <1>1, <1>2, <1>7, <2>1, <2>2, <2>3, <2>4, <2>5
<1>9. Unit * worth < Unit * ((a + 1) * price)
  <2>1. price * (d + 1) <= price * (Unit * a + Unit)
    BY <1>1, <1>2, <1>6, ProductNumbers
  <2>2. price * (d + 1) = price * d + price
    BY <1>2
  <2>3. price * (Unit * a + Unit) = Unit * ((a + 1) * price)
    <3>1. Unit * a + Unit = Unit * (a + 1)
      BY <1>1, <1>4
    <3> QED BY <1>1, <1>4, <3>1
  <2>4. Unit * worth = worth * Unit /\ Unit * ((a + 1) * price) \in Int
    BY <1>1, <1>4
  <2> QED BY <1>1, <1>2, <1>7, <2>1, <2>2, <2>3, <2>4
<1>10. (a * price) * Guard <= worth * Guard + 2 * price
  <2>1. (a * price) * Guard \in Int /\ worth * Guard + 2 * price \in Int
    BY <1>1, <1>4
  <2> QED BY <1>1, <1>8, <2>1, ProductNumbers
<1>11. worth < (a + 1) * price
  <2>1. (a + 1) * price \in Int
    BY <1>4
  <2> QED BY <1>1, <1>9, <2>1, ProductNumbers
<1> QED BY <1>4, <1>10, <1>11 DEF a, x, d

LEMMA SizeKept ==
    ASSUME NEW size \in Nat \ {0}, NEW short \in BOOLEAN
    PROVE  RoundDown(size, short) \in Nat /\ RoundDown(size, short) \in {size, size - 1}
BY DEF RoundDown

LEMMA LimitOrderSound ==
    ASSUME SignLimitOrder
    PROVE  LimitOrderAtItsPrice' /\ oa_order'.kind = "limit" /\ AmountsTypeOK'
<1>1. AmountsNumbers
  BY AmountsAssumption DEF AmountsAssumption, AmountsNumbers
<1>2. PICK side \in {"BUY", "SELL"}, size \in 1 .. MaxSize, price \in 1 .. PriceScale - 1,
           short \in BOOLEAN, noise \in (1 - Fine) .. (Fine - 1) :
         /\ RoundDown(size, short) * price * (Guard * Fine) + noise >= 0
         /\ oa_order' = [kind |-> "limit", side |-> side, size |-> size, price |-> price]
         /\ oa_result' = GetOrderAmounts(side, RoundDown(size, short), price, noise)
  BY DEF SignLimitOrder
<1> DEFINE kept == RoundDown(size, short)
<1>3. kept \in Nat /\ kept \in {size, size - 1} /\ price \in Nat
  <2>1. size \in Nat \ {0} /\ price \in Nat
    BY <1>1 DEF AmountsNumbers
  <2> QED BY <2>1, SizeKept
<1> HIDE DEF kept
<1>4. kept * price \in Nat
  BY <1>3
<1>5. (kept * price) * Unit + noise >= 0
  BY <1>2 DEF kept, Unit
<1>6. Adjust((kept * price) * Unit + noise) = kept * price
  BY <1>1, <1>4, <1>5, AdjustExact
<1> DEFINE usdc == AmountTokens * (kept * price)
           shares == AmountTokens * PriceScale * kept
<1>7. oa_result' = Side(side, usdc, shares)
  BY <1>2, <1>6 DEF kept, Unit, GetOrderAmounts
<1> HIDE DEF usdc, shares
<1>8. oa_order'.kind = "limit" /\ oa_order'.side = side /\ oa_order'.size = size /\ oa_order'.price = price
  BY <1>2
<1>9. Usdc' = usdc /\ Shares' = shares
  BY <1>7, <1>8 DEF Usdc, Shares, Side
<1>10. usdc * PriceScale = shares * price
  BY <1>1, <1>3 DEF usdc, shares, AmountsNumbers
<1>11. AmountsTypeOK'
  <2>1. usdc \in Nat /\ shares \in Nat
    BY <1>1, <1>3 DEF usdc, shares, AmountsNumbers
  <2>2. oa_result' \in [maker : Nat, taker : Nat]
    BY <1>7, <2>1 DEF Side
  <2> QED BY <1>8, <2>2 DEF AmountsTypeOK
<1> QED BY <1>3, <1>8, <1>9, <1>10, <1>11 DEF LimitOrderAtItsPrice, shares

LEMMA MarketBuySound ==
    ASSUME SignMarketBuy
    PROVE  MarketBuyWithinAnAmount' /\ oa_order'.kind = "market" /\ AmountsTypeOK'
<1>1. AmountsNumbers /\ AmountTokens \in Nat \ {0} /\ PriceScale \in Nat \ {0, 1} /\ Guard \in Nat \ {0, 1}
      /\ Fine \in Nat \ {0, 1}
  BY AmountsAssumption DEF AmountsAssumption, AmountsNumbers
<1>2. PICK size \in 1 .. MaxSize, price \in 1 .. PriceScale - 1,
           short \in BOOLEAN, noise \in (1 - Fine) .. (Fine - 1) :
         /\ (RoundDown(size, short) * PriceScale * PriceScale * Guard * Fine) \div price + noise >= 0
         /\ oa_order' = [kind |-> "market", side |-> "BUY", size |-> size, price |-> price]
         /\ oa_result' = GetMarketBuyAmounts(RoundDown(size, short), price, noise)
  BY DEF SignMarketBuy
<1> DEFINE kept == RoundDown(size, short)
           worth == kept * PriceScale * PriceScale
<1>3. kept \in Nat /\ kept \in {size, size - 1} /\ price \in Nat \ {0}
  <2>1. size \in Nat \ {0} /\ price \in Nat \ {0}
    BY <1>1 DEF AmountsNumbers
  <2> QED BY <2>1, SizeKept
<1>4. kept * PriceScale * PriceScale * Guard * Fine = worth * Unit /\ worth \in Nat
  <2> HIDE DEF kept
  <2>1. worth \in Nat
    BY <1>1, <1>3
  <2> HIDE DEF worth
  <2>2. worth * Guard * Fine = worth * (Guard * Fine)
    BY <1>1, <2>1
  <2> QED BY <2>1, <2>2 DEF worth, Unit
<1> DEFINE a == Adjust((worth * Unit) \div price + noise)
           maker == AmountTokens * PriceScale * kept
           taker == AmountTokens * a
           exact == AmountTokens * kept * PriceScale * PriceScale
<1>5. oa_result' = Side("BUY", maker, taker) /\ (worth * Unit) \div price + noise >= 0
  BY <1>2, <1>4 DEF GetMarketBuyAmounts
<1> HIDE DEF kept, worth
<1>6. a \in Int /\ (a * price) * Guard <= worth * Guard + 2 * price /\ worth < (a + 1) * price
  BY <1>1, <1>3, <1>4, <1>5, QuotientWithinAnAmount
<1> HIDE DEF a
<1>7. oa_result'.maker = maker /\ oa_result'.taker = taker /\ oa_result' = [maker |-> maker, taker |-> taker]
  BY <1>5 DEF Side
<1> HIDE DEF maker
<1>8. exact = AmountTokens * worth
  BY <1>1, <1>3 DEF worth
<1> HIDE DEF exact
<1>9. taker * price * Guard <= exact * Guard + 2 * AmountTokens * price
  <2>1. AmountTokens * ((a * price) * Guard) <= AmountTokens * (worth * Guard + 2 * price)
    <3>1. (a * price) * Guard \in Int /\ worth * Guard + 2 * price \in Int
      BY <1>1, <1>3, <1>4, <1>6
    <3> QED BY <1>1, <1>6, <3>1, ProductNumbers
  <2>2. AmountTokens * ((a * price) * Guard) = taker * price * Guard
    BY <1>1, <1>3, <1>6
  <2>3. AmountTokens * (worth * Guard + 2 * price) = exact * Guard + 2 * AmountTokens * price
    BY <1>1, <1>3, <1>4, <1>8
  <2> QED BY <2>1, <2>2, <2>3
<1>10. (taker + AmountTokens) * price > exact
  <2>1. AmountTokens * worth < AmountTokens * ((a + 1) * price)
    <3>1. (a + 1) * price \in Int
      BY <1>3, <1>6
    <3> QED BY <1>1, <1>4, <1>6, <3>1, ProductNumbers
  <2>2. AmountTokens * ((a + 1) * price) = (taker + AmountTokens) * price
    <3>1. AmountTokens * (a + 1) = taker + AmountTokens
      BY <1>1, <1>6
    <3> QED BY <1>1, <1>3, <1>6, <3>1
  <2>3. (taker + AmountTokens) * price \in Int /\ AmountTokens * worth \in Int
    BY <1>1, <1>3, <1>4, <1>6
  <2> QED BY <1>8, <2>1, <2>2, <2>3
<1> HIDE DEF taker
<1>11. oa_order'.kind = "market" /\ oa_order'.side = "BUY" /\ oa_order'.size = size /\ oa_order'.price = price
  BY <1>2
<1>12. Shares' = taker
  BY <1>7, <1>11 DEF Shares
<1>13. AmountsTypeOK'
  <2>1. a >= 0
    <3>1. CASE a + 1 <= 0
      <4>1. price * (a + 1) <= price * 0 /\ price * 0 = 0 /\ price * (a + 1) = (a + 1) * price
        BY <1>3, <1>6, <3>1, ProductNumbers
      <4> QED BY <1>4, <1>6, <4>1
    <3> QED BY <1>6, <3>1
  <2>2. taker \in Nat
    BY <1>1, <1>6, <2>1 DEF taker
  <2>3. maker \in Nat
    BY <1>1, <1>3 DEF maker
  <2>4. oa_result' \in [maker : Nat, taker : Nat]
    BY <1>7, <2>2, <2>3
  <2> QED BY <1>11, <2>4 DEF AmountsTypeOK
<1> QED
  <2>1. LET exactly == AmountTokens * kept * PriceScale * PriceScale
        IN  /\ oa_result'.maker = AmountTokens * PriceScale * kept
            /\ Shares' * oa_order'.price * Guard <= exactly * Guard + 2 * AmountTokens * oa_order'.price
            /\ (Shares' + AmountTokens) * oa_order'.price > exactly
    BY <1>7, <1>9, <1>10, <1>11, <1>12 DEF exact, maker
  <2> QED BY <1>3, <1>11, <1>13, <2>1 DEF MarketBuyWithinAnAmount

-----------------------------------------------------------------------------
(* The price of a market order *)

Books == Seq([size : Nat, price : Nat])
Weights(side, book) == [k \in DOMAIN book |-> Weight(side, book[k])]
BestLevels(book, k) == {j \in DOMAIN book : j > Len(book) - k}

LEMMA WeightsSummable ==
    ASSUME NEW side, NEW book \in Books, NEW levels \in SUBSET DOMAIN book
    PROVE  /\ DOMAIN book = 1 .. Len(book) /\ Len(book) \in Nat
           /\ \A k \in DOMAIN book : Weights(side, book)[k] \in Nat
           /\ Summable(Weights(side, book), levels)
           /\ Reach(side, book, levels) = SumFunctionOnSet(Weights(side, book), levels)
           /\ Reach(side, book, levels) \in Int
<1>1. /\ DOMAIN book = 1 .. Len(book) /\ Len(book) \in Nat
      /\ \A k \in 1 .. Len(book) : book[k] \in [size : Nat, price : Nat]
  <2> DEFINE levelsOf == [size : Nat, price : Nat]
  <2>1. book \in Seq(levelsOf)
    BY DEF Books
  <2> HIDE DEF levelsOf
  <2>2. /\ DOMAIN book = 1 .. Len(book) /\ Len(book) \in Nat
        /\ \A k \in 1 .. Len(book) : book[k] \in levelsOf
    BY <2>1
  <2> QED BY <2>2 DEF levelsOf
<1>2. ASSUME NEW k \in DOMAIN book PROVE Weights(side, book)[k] \in Nat
  <2>1. book[k] \in [size : Nat, price : Nat]
    BY <1>1
  <2>2. book[k].size \in Nat /\ book[k].price \in Nat
    BY <2>1
  <2> QED BY <2>2 DEF Weights, Weight
<1>3. IsFiniteSet(levels)
  <2>1. IsFiniteSet(1 .. Len(book))
    BY <1>1, FS_Interval
  <2> QED BY <1>1, <2>1, FS_Subset
<1>4. Summable(Weights(side, book), levels)
  BY <1>2, <1>3 DEF Summable
<1>5. Reach(side, book, levels) = SumFunctionOnSet(Weights(side, book), levels)
  BY DEF Reach, Weights
<1> QED BY <1>1, <1>2, <1>4, <1>5, SetSumDef

LEMMA ReachGrows ==
    ASSUME NEW side, NEW book \in Books, NEW more \in SUBSET DOMAIN book, NEW fewer \in SUBSET more
    PROVE  Reach(side, book, fewer) <= Reach(side, book, more)
<1> DEFINE w == Weights(side, book)
           rest == more \ fewer
           none == [k \in DOMAIN book |-> 0]
<1>1. /\ Summable(w, more) /\ Summable(w, fewer) /\ Summable(w, rest)
      /\ \A k \in DOMAIN book : w[k] \in Nat
      /\ Reach(side, book, fewer) = SumFunctionOnSet(w, fewer)
      /\ Reach(side, book, more) = SumFunctionOnSet(w, more)
  <2>1. fewer \in SUBSET DOMAIN book /\ rest \in SUBSET DOMAIN book
    OBVIOUS
  <2> QED BY <2>1, WeightsSummable
<1> HIDE DEF w
<1>2. SumFunctionOnSet(w, more) = SumFunctionOnSet(w, fewer) + SumFunctionOnSet(w, rest)
  <2>1. fewer \cup rest = more /\ fewer \cap rest = {}
    OBVIOUS
  <2> QED BY <1>1, <2>1, SetSumUnion
<1>3. SumFunctionOnSet(w, rest) >= 0
  <2>1. Summable(none, rest) /\ \A k \in rest : none[k] = 0 /\ none[k] <= w[k]
    BY <1>1 DEF Summable
  <2> HIDE DEF none, rest
  <2>2. SumFunctionOnSet(none, rest) = 0
    BY <2>1, SetSumZero
  <2>3. SumFunctionOnSet(none, rest) <= SumFunctionOnSet(w, rest)
    BY <1>1, <2>1, SetSumMonotonic
  <2> QED BY <2>2, <2>3
<1>4. SumFunctionOnSet(w, fewer) \in Int /\ SumFunctionOnSet(w, rest) \in Int
  BY <1>1, SetSumDef
<1> QED BY <1>1, <1>2, <1>3, <1>4

\* The running total from the best level on is what the best levels reach, but
\* for the error of the sum.
LEMMA DepthIsReach ==
    ASSUME NEW side, NEW book \in Books, NEW error
    PROVE  \A k \in 1 .. Len(book) :
              Depth(side, book, error)[k] = Fine * Reach(side, book, BestLevels(book, k)) + error[k]
<1> DEFINE n == Len(book)
           w == Weights(side, book)
           reach == [k \in 0 .. n |-> Reach(side, book, BestLevels(book, k))]
           Rec(f) == [k \in 0 .. n |-> IF k = 0 THEN 0 ELSE f[k - 1] + Weight(side, book[n - k + 1])]
<1>1. /\ DOMAIN book = 1 .. n /\ n \in Nat
      /\ \A k \in DOMAIN book : w[k] \in Nat /\ w[k] = Weight(side, book[k])
      /\ \A levels \in SUBSET DOMAIN book :
            /\ Summable(w, levels)
            /\ Reach(side, book, levels) = SumFunctionOnSet(w, levels)
            /\ Reach(side, book, levels) \in Int
  BY WeightsSummable DEF Weights
<1> HIDE DEF w
<1>2. \A k \in 0 .. n : BestLevels(book, k) \in SUBSET DOMAIN book
  BY DEF BestLevels
<1>3. reach[0] = 0
  <2>1. BestLevels(book, 0) = {}
    BY <1>1 DEF BestLevels
  <2>2. Summable(w, {}) /\ Reach(side, book, {}) = SumFunctionOnSet(w, {})
    BY <1>1
  <2>3. SumFunctionOnSet(w, {}) = 0
    BY <2>2, SetSumDef
  <2>4. 0 \in 0 .. n
    BY <1>1
  <2> QED BY <2>1, <2>2, <2>3, <2>4
<1>4. ASSUME NEW k \in 1 .. n
      PROVE  reach[k] = reach[k - 1] + Weight(side, book[n - k + 1])
  <2> DEFINE next == n - k + 1
             more == BestLevels(book, k)
             fewer == BestLevels(book, k - 1)
  <2>1. k \in 0 .. n /\ k - 1 \in 0 .. n /\ next \in DOMAIN book
    BY <1>1
  <2>2. next \in more /\ more \ {next} = fewer
    BY <1>1, <2>1 DEF BestLevels
  <2>3. more \in SUBSET DOMAIN book /\ fewer \in SUBSET DOMAIN book
    BY <1>2, <2>1
  <2>4. reach[k] = SumFunctionOnSet(w, more) /\ reach[k - 1] = SumFunctionOnSet(w, fewer)
    BY <1>1, <2>1, <2>3
  <2> HIDE DEF reach, more, fewer, next
  <2>5. SumFunctionOnSet(w, more) = w[next] + SumFunctionOnSet(w, fewer)
    <3>1. Summable(w, more)
      BY <1>1, <2>3
    <3> QED BY <2>2, <3>1, SetSumRemove
  <2>6. SumFunctionOnSet(w, fewer) \in Int /\ w[next] \in Int
    BY <1>1, <2>1, <2>3
  <2>7. reach[k] = reach[k - 1] + Weight(side, book[next])
    BY <1>1, <2>1, <2>4, <2>5, <2>6
  <2> QED BY <2>7 DEF next
<1>5. reach = Rec(reach)
  <2>1. \A k \in 0 .. n : reach[k] = IF k = 0 THEN 0 ELSE reach[k - 1] + Weight(side, book[n - k + 1])
    <3>1. ASSUME NEW k \in 0 .. n, k # 0
          PROVE  reach[k] = reach[k - 1] + Weight(side, book[n - k + 1])
      <4>1. k \in 1 .. n
        BY <1>1, <3>1
      <4> HIDE DEF reach
      <4> QED BY <1>4, <4>1
    <3> HIDE DEF reach
    <3> QED BY <1>3, <3>1
  <2>2. reach = [k \in 0 .. n |-> reach[k]]
    OBVIOUS
  <2> HIDE DEF reach
  <2> QED BY <2>1, <2>2
<1> DEFINE depth == CHOOSE f : f = Rec(f)
<1>6. Depth(side, book, error) = [k \in 1 .. n |-> Fine * depth[k] + error[k]]
  BY DEF Depth
<1>7. depth = Rec(depth)
  <2> HIDE DEF reach, Rec
  <2> QED BY <1>5
<1> HIDE DEF depth, reach
<1>8. \A k \in 0 .. n : depth[k] = reach[k]
  <2> DEFINE Good == {k \in 0 .. n : depth[k] = reach[k]}
  <2>1. 0 \in Good
    BY <1>1, <1>3, <1>7
  <2>2. ASSUME NEW k \in 1 .. n, k - 1 \in Good PROVE k \in Good
    <3>1. k \in 0 .. n /\ k # 0
      OBVIOUS
    <3>2. depth[k] = depth[k - 1] + Weight(side, book[n - k + 1])
      BY <1>7, <3>1
    <3> QED BY <1>4, <2>2, <3>1, <3>2
  <2> HIDE DEF Good
  <2>3. 0 .. n \subseteq Good
    BY <1>1, <2>1, <2>2, UpToInduction
  <2> QED BY <2>3 DEF Good
<1> QED
  <2>1. ASSUME NEW k \in 1 .. n
        PROVE  Depth(side, book, error)[k] = Fine * Reach(side, book, BestLevels(book, k)) + error[k]
    <3>1. k \in 0 .. n
      BY <1>1
    <3>2. Depth(side, book, error)[k] = Fine * reach[k] + error[k]
      BY <1>6, <1>8, <3>1
    <3>3. reach[k] = Reach(side, book, BestLevels(book, k))
      BY <3>1 DEF reach
    <3> QED BY <3>2, <3>3
  <2> QED BY <2>1

\* In a book sorted towards its best price the levels not worse than one of them
\* are the best ones as far as it, and the better ones those before.
LEMMA LevelsByPrice ==
    ASSUME NEW side \in {"BUY", "SELL"}, NEW book \in Books, BestLast(side, book),
           NEW k \in 1 .. Len(book)
    PROVE  LET price == book[Len(book) + 1 - k].price
           IN /\ {j \in DOMAIN book : ~Better(side, price, book[j].price)} = BestLevels(book, k)
              /\ {j \in DOMAIN book : Better(side, book[j].price, price)} = BestLevels(book, k - 1)
<1> DEFINE n == Len(book)
           at == n + 1 - k
           price == book[at].price
<1>1. /\ DOMAIN book = 1 .. n /\ n \in Nat
      /\ \A j \in 1 .. n : book[j].price \in Nat
  <2> DEFINE levelsOf == [size : Nat, price : Nat]
  <2>1. book \in Seq(levelsOf)
    BY DEF Books
  <2>2. \A level \in levelsOf : level.price \in Nat
    OBVIOUS
  <2> HIDE DEF levelsOf
  <2>3. /\ DOMAIN book = 1 .. Len(book) /\ Len(book) \in Nat
        /\ \A k_1 \in 1 .. Len(book) : book[k_1] \in levelsOf
    BY <2>1
  <2> QED BY <2>2, <2>3
<1>2. at \in 1 .. n
  BY <1>1
<1>3. ASSUME NEW j \in 1 .. n
      PROVE  /\ j < at => Better(side, price, book[j].price) /\ ~Better(side, book[j].price, price)
             /\ j = at => ~Better(side, price, book[j].price) /\ ~Better(side, book[j].price, price)
             /\ at < j => ~Better(side, price, book[j].price) /\ Better(side, book[j].price, price)
  <2>1. \A p, q \in Nat : Better(side, p, q) => ~Better(side, q, p) /\ p # q
    BY DEF Better
  <2>2. \A p \in Nat : ~Better(side, p, p)
    BY DEF Better
  <2>3. book[j].price \in Nat /\ price \in Nat /\ j \in DOMAIN book /\ at \in DOMAIN book
    BY <1>1, <1>2
  <2>4. j < at => Better(side, price, book[j].price)
    BY <2>3 DEF BestLast
  <2>5. at < j => Better(side, book[j].price, price)
    BY <2>3 DEF BestLast
  <2> QED BY <2>1, <2>2, <2>3, <2>4, <2>5
<1> HIDE DEF price
<1>4. \A j \in DOMAIN book : ~Better(side, price, book[j].price) <=> j > n - k
  BY <1>1, <1>2, <1>3
<1>5. \A j \in DOMAIN book : Better(side, book[j].price, price) <=> j > n - (k - 1)
  BY <1>1, <1>2, <1>3
<1>6. {j \in DOMAIN book : ~Better(side, price, book[j].price)} = BestLevels(book, k)
  BY <1>4 DEF BestLevels
<1>7. {j \in DOMAIN book : Better(side, book[j].price, price)} = BestLevels(book, k - 1)
  BY <1>5 DEF BestLevels
<1> QED BY <1>6, <1>7 DEF price

\* An error of less than a unit decides nothing but a tie.
LEMMA ErrorDecidesTies ==
    ASSUME NEW held \in Int, NEW asked \in Int, NEW error \in (1 - Fine) .. (Fine - 1)
    PROVE  /\ Fine * held + error \in Int
           /\ Fine * held + error >= Fine * asked => held >= asked
           /\ held > asked => Fine * held + error >= Fine * asked
<1>1. Fine \in Nat \ {0} /\ error \in Int /\ error < Fine /\ -Fine < error
  BY AmountsAssumption DEF AmountsAssumption
<1>2. Fine * held \in Int /\ Fine * asked \in Int
  BY <1>1
<1>3. Fine * (held + 1) = Fine * held + Fine /\ Fine * (asked + 1) = Fine * asked + Fine
  BY <1>1
<1>4. ASSUME held < asked PROVE Fine * (held + 1) <= Fine * asked
  BY <1>1, <1>4, ProductNumbers
<1>5. ASSUME held > asked PROVE Fine * (asked + 1) <= Fine * held
  BY <1>1, <1>5, ProductNumbers
<1> QED BY <1>1, <1>2, <1>3, <1>4, <1>5

LEMMA PriceFromBookSound ==
    ASSUME PriceFromBook
    PROVE  PriceReachesAmount' /\ oa_order'.kind = "price" /\ AmountsTypeOK'
<1>1. PICK side \in {"BUY", "SELL"}, book \in DepthBooks, amount \in 1 .. MaxSize, fillOrKill \in BOOLEAN :
      \E error \in SumErrors(side, book) :
        /\ oa_order' = [kind |-> "price", side |-> side, book |-> book, size |-> amount, fillOrKill |-> fillOrKill]
        /\ oa_result' = WalkMarketPrice(side, book, amount, fillOrKill, error)
  BY DEF PriceFromBook
<1>2. book \in Books /\ amount \in Nat \ {0}
  BY AmountsAssumption DEF AmountsAssumption, Books
<1>3. /\ oa_order'.kind = "price" /\ oa_order'.side = side /\ oa_order'.book = book
      /\ oa_order'.size = amount /\ oa_order'.fillOrKill = fillOrKill
  BY <1>1
<1> DEFINE n == Len(book)
<1>4. n \in Nat /\ DOMAIN book = 1 .. n
  BY <1>2, WeightsSummable
<1>5. PICK error \in SumErrors(side, book) : oa_result' = WalkMarketPrice(side, book, amount, fillOrKill, error)
  BY <1>1
<1> DEFINE depth == Depth(side, book, error)
           reached == {k \in 1 .. n : depth[k] >= Fine * amount}
           held == Reach(side, book, DOMAIN book)
           before(k) == Reach(side, book, BestLevels(book, k))
           NoPrice == IF book = <<>> \/ fillOrKill THEN NoMatch ELSE book[1].price
<1>6. oa_result' = IF reached # {} THEN book[n + 1 - CHOOSE k \in reached : \A j \in reached : k <= j].price
                   ELSE NoPrice
  BY <1>5 DEF WalkMarketPrice
<1>7. /\ held \in Int /\ \A k \in 0 .. n : before(k) \in Int /\ before(k) <= held
      /\ before(0) = 0 /\ before(n) = held
  <2>1. \A k \in 0 .. n : BestLevels(book, k) \in SUBSET DOMAIN book
    BY DEF BestLevels
  <2>2. \A levels \in SUBSET DOMAIN book : Reach(side, book, levels) \in Int
    BY <1>2, WeightsSummable
  <2>3. ASSUME NEW k \in 0 .. n PROVE before(k) <= held
    BY <1>2, <2>1, ReachGrows
  <2>4. BestLevels(book, 0) = {} /\ BestLevels(book, n) = DOMAIN book
    BY <1>4 DEF BestLevels
  <2>5. Reach(side, book, {}) = 0
    <3>1. /\ Summable(Weights(side, book), {})
          /\ Reach(side, book, {}) = SumFunctionOnSet(Weights(side, book), {})
      <4>1. {} \in SUBSET DOMAIN book
        OBVIOUS
      <4> QED BY <1>2, <4>1, WeightsSummable
    <3> QED BY <3>1, SetSumDef
  <2> QED BY <2>1, <2>2, <2>3, <2>4, <2>5
<1>8. \A k \in 1 .. n : (k \in reached => before(k) >= amount) /\ (before(k) > amount => k \in reached)
  <2> SUFFICES ASSUME NEW k \in 1 .. n
               PROVE  /\ depth[k] >= Fine * amount => before(k) >= amount
                      /\ before(k) > amount => depth[k] >= Fine * amount
    OBVIOUS
  <2>1. depth[k] = Fine * before(k) + error[k]
    BY <1>2, DepthIsReach
  <2>2. error[k] \in (1 - Fine) .. (Fine - 1)
    BY DEF SumErrors
  <2>3. before(k) \in Int /\ amount \in Int
    BY <1>2, <1>4, <1>7
  <2>4. \A h, a \in Int, e \in (1 - Fine) .. (Fine - 1) :
           (Fine * h + e >= Fine * a => h >= a) /\ (h > a => Fine * h + e >= Fine * a)
    BY ErrorDecidesTies
  <2> HIDE DEF depth, before
  <2> QED BY <2>1, <2>2, <2>3, <2>4
<1> HIDE DEF depth, reached
<1> DEFINE ReachesHere ==
             /\ \E k \in DOMAIN book : oa_result' = book[k].price
             /\ Reach(side, book, {k \in DOMAIN book : ~Better(side, oa_result', book[k].price)}) >= amount
             /\ Reach(side, book, {k \in DOMAIN book : Better(side, book[k].price, oa_result')}) <= amount
<1>9. ASSUME BestLast(side, book), NEW k \in 1 .. n, oa_result' = book[n + 1 - k].price,
             before(k) >= amount, before(k - 1) <= amount
      PROVE  ReachesHere
  <2>1. /\ {j \in DOMAIN book : ~Better(side, oa_result', book[j].price)} = BestLevels(book, k)
        /\ {j \in DOMAIN book : Better(side, book[j].price, oa_result')} = BestLevels(book, k - 1)
    BY <1>2, <1>9, LevelsByPrice
  <2>2. n + 1 - k \in DOMAIN book
    BY <1>4
  <2> QED BY <1>9, <2>1, <2>2
<1>10. \A k \in reached : k \in 1 .. n
  BY DEF reached
<1>11. ASSUME reached # {}
       PROVE  \E k \in reached : /\ oa_result' = book[n + 1 - k].price
                                 /\ \A j \in reached : k <= j
  <2> DEFINE k == CHOOSE m \in reached : \A j \in reached : m <= j
  <2>1. \E least \in reached : \A j \in reached : least <= j
    <3>1. reached \in SUBSET Nat
      BY <1>4, <1>10
    <3> QED BY <1>11, <3>1, LeastNatural
  <2>2. k \in reached /\ \A j \in reached : k <= j
    BY <2>1
  <2>3. oa_result' = book[n + 1 - k].price
    BY <1>6, <1>11
  <2> HIDE DEF k
  <2> QED BY <2>2, <2>3
<1>12. ASSUME BestLast(side, book), reached # {} PROVE ReachesHere
  <2>1. PICK k \in reached : oa_result' = book[n + 1 - k].price /\ \A j \in reached : k <= j
    BY <1>11, <1>12
  <2>2. k \in 1 .. n /\ before(k) >= amount
    BY <1>8, <1>10
  <2>3. before(k - 1) <= amount
    <3>1. CASE k = 1
      <4>1. k - 1 = 0
        BY <3>1
      <4> QED BY <1>2, <1>7, <4>1
    <3>2. CASE k # 1
      <4>1. k - 1 \in 1 .. n /\ k - 1 \in 0 .. n
        BY <1>4, <2>2, <3>2
      <4>2. k - 1 \notin reached
        BY <2>1, <2>2
      <4>3. ~(before(k - 1) > amount) /\ before(k - 1) \in Int
        BY <1>7, <1>8, <4>1, <4>2
      <4> HIDE DEF before
      <4> QED BY <1>2, <4>3
    <3> QED BY <3>1, <3>2
  <2> HIDE DEF before, ReachesHere
  <2> QED BY <1>9, <1>12, <2>1, <2>2, <2>3
<1>13. ASSUME book # <<>> PROVE n \in 1 .. n /\ 1 \in 1 .. n
  BY <1>2, <1>4, <1>13 DEF Books
<1>14. ASSUME BestLast(side, book), book # <<>>, held > amount PROVE ReachesHere
  <2>1. n \in reached
    BY <1>7, <1>8, <1>13, <1>14
  <2> QED BY <1>12, <1>14, <2>1
<1>15. ASSUME BestLast(side, book), book # <<>>, held = amount
       PROVE  ReachesHere \/ (fillOrKill /\ oa_result' = NoMatch)
  <2>1. CASE reached # {}
    BY <1>12, <1>15, <2>1
  <2>2. CASE reached = {} /\ fillOrKill
    BY <1>6, <2>2
  <2>3. CASE reached = {} /\ ~fillOrKill
    <3>1. oa_result' = book[1].price
      BY <1>6, <1>15, <2>3
    <3>2. n \in 1 .. n /\ n - 1 \in 0 .. n /\ n + 1 - n = 1
      BY <1>4, <1>13, <1>15
    <3>3. before(n) >= amount /\ before(n - 1) <= amount
      <4>1. before(n) = held /\ held \in Int /\ before(n - 1) <= held
        BY <1>7, <3>2
      <4> HIDE DEF before, held
      <4> QED BY <1>2, <1>15, <4>1
    <3>4. oa_result' = book[n + 1 - n].price
      BY <3>1, <3>2
    <3> HIDE DEF before, ReachesHere
    <3> QED BY <1>9, <1>15, <3>2, <3>3, <3>4
  <2> QED BY <2>1, <2>2, <2>3
<1>16. ASSUME book = <<>> \/ held < amount PROVE oa_result' = NoPrice
  <2>1. reached = {}
    <3> SUFFICES ASSUME NEW k \in reached PROVE FALSE
      OBVIOUS
    <3>1. k \in 1 .. n /\ book # <<>>
      BY <1>4, <1>10
    <3>2. before(k) >= amount /\ before(k) <= held /\ before(k) \in Int /\ held \in Int
      BY <1>7, <1>8, <3>1
    <3> HIDE DEF before, held
    <3> QED BY <1>2, <1>16, <3>1, <3>2
  <2> QED BY <1>6, <2>1
<1>17. PriceReachesAmount'
  <2> SUFFICES ASSUME BestLast(side, book)
               PROVE  CASE book # <<>> /\ held > amount -> ReachesHere
                        [] book # <<>> /\ held = amount -> ReachesHere \/ (fillOrKill /\ oa_result' = NoMatch)
                        [] OTHER -> oa_result' = NoPrice
    BY <1>3 DEF PriceReachesAmount
  <2>1. held \in Int
    BY <1>7
  <2>2. (held > amount /\ ~(held = amount)) \/ (held = amount /\ ~(held > amount))
           \/ (held < amount /\ ~(held = amount) /\ ~(held > amount))
    <3> HIDE DEF held
    <3> QED BY <1>2, <2>1
  <2> HIDE DEF ReachesHere, NoPrice, held
  <2>3. CASE book = <<>>
    BY <1>16, <2>3
  <2>4. CASE book # <<>> /\ held > amount
    BY <1>14, <2>2, <2>4
  <2>5. CASE book # <<>> /\ held = amount
    BY <1>15, <2>2, <2>5
  <2>6. CASE book # <<>> /\ held < amount
    <3>1. oa_result' = NoPrice
      BY <1>16, <2>6
    <3>2. ~(held > amount) /\ ~(held = amount)
      BY <1>2, <2>1, <2>6
    <3> QED BY <3>1, <3>2
  <2> QED BY <2>2, <2>3, <2>4, <2>5, <2>6
<1>18. AmountsTypeOK'
  <2> DEFINE levelsOf == [size : Nat, price : Nat]
  <2>1. \A j \in 1 .. n : book[j].price \in Nat
    <3>1. \A level \in levelsOf : level.price \in Nat
      OBVIOUS
    <3>2. book \in Seq(levelsOf)
      BY <1>2 DEF Books
    <3> HIDE DEF levelsOf
    <3> QED BY <1>4, <3>1, <3>2
  <2>2. oa_result' \in Nat
    <3>1. CASE reached # {}
      <4>1. PICK k \in reached : oa_result' = book[n + 1 - k].price
        BY <1>11, <3>1
      <4>2. n + 1 - k \in 1 .. n
        BY <1>4, <1>10, <4>1
      <4> QED BY <2>1, <4>1, <4>2
    <3>2. CASE reached = {}
      BY <1>6, <1>13, <2>1, <3>2 DEF NoMatch
    <3> QED BY <3>1, <3>2
  <2> QED BY <1>3, <2>2 DEF AmountsTypeOK
<1> QED BY <1>3, <1>17, <1>18

LEMMA AmountsStepSound ==
    ASSUME AmountsAndPrices, AmountsTypeOK, [AmountsNext]_oa_vars
    PROVE  AmountsAndPrices' /\ AmountsTypeOK'
<1>1. CASE SignLimitOrder
  BY <1>1, LimitOrderSound DEF AmountsAndPrices, SignedAmountsAtPrice, MarketBuyWithinAnAmount, PriceReachesAmount
<1>2. CASE SignMarketBuy
  BY <1>2, MarketBuySound DEF AmountsAndPrices, SignedAmountsAtPrice, LimitOrderAtItsPrice, PriceReachesAmount
<1>3. CASE PriceFromBook
  BY <1>3, PriceFromBookSound DEF AmountsAndPrices, SignedAmountsAtPrice, LimitOrderAtItsPrice, MarketBuyWithinAnAmount
<1>4. CASE UNCHANGED oa_vars
  BY <1>4 DEF oa_vars, AmountsAndPrices, SignedAmountsAtPrice, LimitOrderAtItsPrice, MarketBuyWithinAnAmount,
              PriceReachesAmount, Usdc, Shares, AmountsTypeOK
<1> QED BY <1>1, <1>2, <1>3, <1>4 DEF AmountsNext

\* An order's amounts stand in the ratio of its price, whatever its floats do by
\* less than Fine units; a market order's are worth what was asked; and its price
\* is the one the book reaches, the float sum of the levels deciding only when they
\* hold exactly the amount (order_builder/builder.py), for any scale, guard digits,
\* sizes and books.
THEOREM AmountsAreAtThePrice == ClobSpec => []AmountsAndPrices
<1>1. ClobInit => AmountsAndPrices /\ AmountsTypeOK
  BY DEF ClobInit, AmountsInit, NoOrderYet, NoAmounts, AmountsTypeOK, AmountsAndPrices, SignedAmountsAtPrice,
         LimitOrderAtItsPrice, MarketBuyWithinAnAmount, PriceReachesAmount
<1>2. AmountsAndPrices /\ AmountsTypeOK /\ [ClobNext]_client_vars => AmountsAndPrices' /\ AmountsTypeOK'
  BY StepOfEachPart, AmountsStepSound
<1> QED BY <1>1, <1>2, PTL DEF ClobSpec

-----------------------------------------------------------------------------
(* Types *)

LEMMA HttpTypeStep ==
    ASSUME HttpTypeOK, HttpInv, [HttpNext]_http_vars
    PROVE  HttpTypeOK'
<1> USE HttpAssumption DEF HttpTypeOK, HttpInv, AttemptsCounted, QuietNetwork, HttpSteps, Returned, Go, HttpAssumption
<1>0. HttpInv'
  BY HttpInvStep
<1>1. ASSUME NEW c \in Callers, Send(c) PROVE HttpTypeOK'
  BY <1>0, <1>1 DEF Send
<1>2. ASSUME NEW c \in Callers, Execute(c) \/ Answered(c) \/ Refused(c) PROVE HttpTypeOK'
  BY <1>0, <1>2 DEF Execute, Answered, Refused
<1>3. ASSUME NEW c \in Callers, NoAnswer(c) \/ ConnectionFails(c) PROVE HttpTypeOK'
  <2>1. http_faults' \in 0 .. MaxFaults
    BY <1>3 DEF NoAnswer, ConnectionFails, Broken
  <2> QED BY <1>0, <1>3, <2>1 DEF NoAnswer, ConnectionFails
<1>4. ASSUME NEW c \in Callers, CloseClient(c) PROVE HttpTypeOK'
  BY <1>0, <1>4 DEF CloseClient
<1>5. ASSUME NEW c \in Callers, RenewClient(c) PROVE HttpTypeOK'
  BY <1>0, <1>5 DEF RenewClient
<1>6. CASE UNCHANGED http_vars
  BY <1>6 DEF http_vars
<1> QED BY <1>1, <1>2, <1>3, <1>4, <1>5, <1>6 DEF HttpNext

\* What the headers of a call for the account are made of.
Spoken(call) ==
    call.method \in {"GET", "POST", "DELETE"} /\ call.path \in {c.path : c \in SignedCalls} /\ call.body \in {"none", "text"}

LEMMA CallsSpoken ==
    ASSUME NEW call \in SignedCalls
    PROVE  Spoken(call)
<1> SUFFICES call.method \in {"GET", "POST", "DELETE"} /\ call.body \in {"none", "text"}
  BY DEF Spoken
<1> USE DEF Reads, Calls
<1>1. CASE call \in ApiKeyCalls
  BY <1>1 DEF ApiKeyCalls
<1>2. CASE call \in CancelCalls
  BY <1>2 DEF CancelCalls
<1>3. CASE call \in OrderReads \cup AccountCalls
  BY <1>3 DEF OrderReads, AccountCalls
<1>4. CASE call \in RfqReads \cup RfqQuoteReads \cup RfqConfig \cup RfqChanges
  BY <1>4 DEF RfqReads, RfqQuoteReads, RfqConfig, RfqChanges
<1>5. CASE call \in PostCalls
  BY <1>5 DEF PostCalls
<1>6. CASE call \in {TradesCall, BuilderTradesCall}
  BY <1>6, ListingCalls
<1> QED BY <1>1, <1>2, <1>3, <1>4, <1>5, <1>6 DEF SignedCalls, Level2Calls

LEMMA HeadersOfACall ==
    ASSUME NEW call, Spoken(call), NEW text \in Texts(call) \cup {"none"}
    PROVE  /\ Level2Header(call, text) \in Headers
           /\ \A builder \in BuilderHeaders(call, text) : builder \subseteq Headers
<1>1. text \in {"none", "plain", "apostrophe"}
  BY DEF Texts, Spoken
<1>2. Level2Header(call, text) \in Headers
  BY <1>1 DEF Level2Header, HmacText, BodyForSignature, Headers, Spoken
<1>3. BuilderHeader(call, text) \in Headers
  BY <1>1 DEF BuilderHeader, Headers, Spoken
<1> DEFINE h == BuilderHeader(call, text)
<1> HIDE DEF h
<1>4. \A builder \in BuilderHeaders(call, text) : builder \subseteq {h}
  BY DEF BuilderHeaders, h
<1> QED BY <1>2, <1>3, <1>4 DEF h

LEMMA SentRequestTyped ==
    ASSUME RequestsTypeOK, NEW call, NEW text, NEW headers, SendRequest(call, text, headers),
           headers \subseteq Headers
    PROVE  RequestsTypeOK'
<1>1. rq_request'.headers = headers
  BY DEF SendRequest
<1> QED BY <1>1 DEF SendRequest, RequestsTypeOK, config, pages

LEMMA RequestsTypeStep ==
    ASSUME RequestsTypeOK, [RequestsNext]_rq_vars
    PROVE  RequestsTypeOK'
<1>0. Pages \in Nat \ {0}
  BY RequestsAssumption DEF RequestsAssumption
<1>1. CASE SetCreds
  BY <1>1 DEF SetCreds, RequestsTypeOK, ClientMode, pages
<1>2. CASE PublicCall
  <2>1. PICK call \in PublicCalls : SendRequest(call, call.body, {})
    BY <1>2 DEF PublicCall
  <2> QED BY <2>1, SentRequestTyped
<1>3. CASE SignerCall
  <2>1. PICK call \in KeyOfSigner, nonce \in {0, 1} : SendRequest(call, "none", {Level1Header(nonce)})
    BY <1>3 DEF SignerCall
  <2>2. Level1Header(nonce) \in Headers
    BY DEF Level1Header, Headers
  <2> QED BY <2>1, <2>2, SentRequestTyped
<1>4. CASE Level2Call
  <2>1. PICK call \in Level2Calls : \E text \in Texts(call) : SendRequest(call, text, {Level2Header(call, text)})
    BY <1>4 DEF Level2Call
  <2>2. PICK text \in Texts(call) : SendRequest(call, text, {Level2Header(call, text)})
    BY <2>1
  <2>3. Level2Header(call, text) \in Headers
    BY CallsSpoken, HeadersOfACall DEF SignedCalls
  <2> QED BY <2>2, <2>3, SentRequestTyped
<1>5. CASE PostCall
  <2>1. PICK call \in PostCalls : \E text \in Texts(call) : \E builder \in BuilderHeaders(call, text) :
            SendRequest(call, text, {Level2Header(call, text)} \cup builder)
    BY <1>5 DEF PostCall
  <2>2. PICK text \in Texts(call) : \E builder \in BuilderHeaders(call, text) :
            SendRequest(call, text, {Level2Header(call, text)} \cup builder)
    BY <2>1
  <2>3. PICK builder \in BuilderHeaders(call, text) :
            SendRequest(call, text, {Level2Header(call, text)} \cup builder)
    BY <2>2
  <2>4. Level2Header(call, text) \in Headers /\ builder \subseteq Headers
    BY CallsSpoken, HeadersOfACall DEF SignedCalls
  <2>5. {Level2Header(call, text)} \cup builder \subseteq Headers
    BY <2>4
  <2> QED BY <2>3, <2>5, SentRequestTyped
<1>6. CASE GetTrades \/ GetBuilderTrades
  <2>1. PICK call \in {TradesCall, BuilderTradesCall}, headers \in SUBSET Headers : StartListing(call, headers)
    <3>1. CASE GetTrades
      <4>1. {Level2Header(TradesCall, "none")} \in SUBSET Headers
        BY CallsSpoken, HeadersOfACall DEF SignedCalls
      <4> QED BY <3>1, <4>1 DEF GetTrades
    <3>2. CASE GetBuilderTrades
      <4>1. \A headers \in BuilderHeaders(BuilderTradesCall, "none") : headers \in SUBSET Headers
        BY CallsSpoken, HeadersOfACall DEF SignedCalls
      <4> QED BY <3>2, <4>1 DEF GetBuilderTrades
    <3> QED BY <1>6, <3>1, <3>2
  <2> QED BY <1>0, <2>1 DEF StartListing, RequestsTypeOK, config
<1>7. CASE ReadTradesPage
  <2>1. /\ rq_cursor \in 1 .. Pages /\ rq_cursor' = rq_cursor + 1 /\ rq_read' = Append(rq_read, rq_cursor)
        /\ rq_request'.headers = rq_headers /\ UNCHANGED <<config, rq_listing, rq_headers, rq_filters, rq_start>>
    BY <1>0, <1>7 DEF ReadTradesPage, PageAsked, ListingRequest, RequestsTypeOK
  <2>2. rq_read' \in Seq(1 .. Pages) /\ rq_cursor' \in 1 .. Pages + 1
    BY <1>0, <2>1 DEF RequestsTypeOK
  <2> QED BY <2>1, <2>2 DEF RequestsTypeOK, config
<1>8. CASE EndListing \/ FailListing
  <2>1. ListingDone /\ (UNCHANGED rq_request \/ rq_request'.headers = rq_headers)
    BY <1>8 DEF EndListing, FailListing, ListingRequest
  <2>2. rq_read' \in Seq(1 .. Pages) /\ 1 \in 1 .. Pages + 1
    BY <1>0, <2>1 DEF ListingDone
  <2> QED BY <2>1, <2>2 DEF ListingDone, RequestsTypeOK, config
<1>9. CASE UNCHANGED rq_vars
  BY <1>9 DEF rq_vars, RequestsTypeOK
<1> QED BY <1>1, <1>2, <1>3, <1>4, <1>5, <1>6, <1>7, <1>8, <1>9 DEF RequestsNext

LEMMA OffersTyped ==
    ASSUME NEW side \in Sides, NEW token \in Outcomes, NEW price \in 1 .. RfqOne - 1, NEW size \in RfqSizes
    PROVE  Offer(side, token, price, size) \in Offers
<1>1. price \in Nat /\ size \in Nat
  BY RfqAssumption DEF RfqAssumption
<1>2. size * price \in Nat
  BY <1>1, ProductNumbers
<1> QED BY <1>1, <1>2 DEF Offer, Offers

LEMMA OrdersTyped ==
    ASSUME NEW quote \in Offers
    PROVE  RequestOrder(quote) \in RfqOrders /\ QuoteOrder(quote) \in RfqOrders
<1>1. /\ quote.side \in Sides /\ quote.token \in Outcomes /\ quote.price \in 1 .. RfqOne - 1
      /\ quote.sizeIn \in Nat /\ quote.sizeOut \in Nat
  BY DEF Offers
<1>2. Complement(quote.token) \in Outcomes
  BY <1>1, OnlyTwoOutcomes
<1>3. RfqOne - quote.price \in 1 .. RfqOne - 1
  BY <1>1, RfqAssumption DEF RfqAssumption
<1> QED BY <1>1, <1>2, <1>3 DEF RequestOrder, QuoteOrder, RfqOrders, Opposite, Sides

LEMMA RfqTypeStep ==
    ASSUME RfqTypeOK, RfqInv, [RfqNext]_rfq_vars
    PROVE  RfqTypeOK'
<1> USE DEF RfqTypeOK
<1>0. MaxRfqFaults \in Nat
  BY RfqAssumption DEF RfqAssumption
<1>1. CASE CreateRfqRequest
  <2>1. PICK side \in Sides, token \in Outcomes, price \in 1 .. RfqOne - 1, size \in RfqSizes :
            Sent(rfq_request' = Offer(side, token, price, size), UNCHANGED rfq_request)
    BY <1>1 DEF CreateRfqRequest
  <2> DEFINE offer == Offer(side, token, price, size)
  <2>2. offer \in Offers
    BY OffersTyped
  <2>3. Sent(rfq_request' = offer, UNCHANGED rfq_request)
    BY <2>1
  <2> HIDE DEF offer
  <2> QED BY <1>0, <1>1, <2>2, <2>3 DEF CreateRfqRequest, Sent
<1>2. CASE CancelRfqRequest
  BY <1>2 DEF CancelRfqRequest
<1>3. ASSUME NEW q \in QuoteIds, CreateRfqQuote(q) PROVE RfqTypeOK'
  <2>1. PICK side \in Sides, token \in Outcomes, price \in 1 .. RfqOne - 1, size \in RfqSizes :
            Sent(rfq_quotes' = [rfq_quotes EXCEPT ![q] = Offer(side, token, price, size)], UNCHANGED rfq_quotes)
    BY <1>3 DEF CreateRfqQuote
  <2> DEFINE offer == Offer(side, token, price, size)
  <2>2. offer \in Offers
    BY OffersTyped
  <2>3. Sent(rfq_quotes' = [rfq_quotes EXCEPT ![q] = offer], UNCHANGED rfq_quotes)
    BY <2>1
  <2> HIDE DEF offer
  <2>4. /\ UNCHANGED <<rfq_request, rfq_accepted, rfq_approved, rfq_short>>
        /\ rfq_faults' \in 0 .. MaxRfqFaults
        /\ rfq_quotes' = [rfq_quotes EXCEPT ![q] = offer] \/ UNCHANGED rfq_quotes
    BY <1>0, <1>3, <2>3 DEF CreateRfqQuote, Sent
  <2> QED BY <2>2, <2>4 DEF RfqInv
<1>4. ASSUME NEW q \in QuoteIds, CancelRfqQuote(q) PROVE RfqTypeOK'
  BY <1>4 DEF CancelRfqQuote, RfqInv
<1>5. ASSUME NEW q \in QuoteIds, AcceptRfqQuote(q) \/ ApproveRfqOrder(q) PROVE RfqTypeOK'
  <2> DEFINE mine == RequestOrder(rfq_quotes[q])
             theirs == QuoteOrder(rfq_quotes[q])
  <2>1. rfq_quotes[q] \in Offers
    BY <1>5 DEF AcceptRfqQuote, ApproveRfqOrder
  <2>2. mine \in RfqOrders /\ theirs \in RfqOrders
    BY <2>1, OrdersTyped
  <2>3. /\ UNCHANGED <<rfq_request, rfq_quotes, rfq_short>>
        /\ rfq_faults' \in 0 .. MaxRfqFaults
        /\ rfq_accepted' = [rfq_accepted EXCEPT ![q] = mine] \/ UNCHANGED rfq_accepted
        /\ rfq_approved' = [rfq_approved EXCEPT ![q] = theirs] \/ UNCHANGED rfq_approved
    BY <1>0, <1>5 DEF AcceptRfqQuote, ApproveRfqOrder, Sent
  <2> HIDE DEF mine, theirs
  <2> QED BY <2>2, <2>3 DEF RfqInv
<1>6. CASE UNCHANGED rfq_vars
  BY <1>6 DEF rfq_vars
<1> QED BY <1>1, <1>2, <1>3, <1>4, <1>5, <1>6 DEF RfqNext

TypesInv ==
    /\ ClobTypeOK
    /\ HttpInv /\ RfqInv /\ CreationInv /\ ListingInv /\ AmountsAndPrices

LEMMA TypesInvInit == ClobInit => TypesInv
<1> SUFFICES ASSUME ClobInit PROVE TypesInv
  OBVIOUS
<1>1. HttpInv /\ RfqInv /\ CreationInv /\ ListingInv
  BY HttpInvInit, RfqInvInit, CreationInvInit, ListingInvInit DEF ClobInit
<1>2. HttpTypeOK /\ RfqTypeOK
  BY HttpAssumption, RfqAssumption DEF ClobInit, HttpInit, HttpTypeOK, RfqInit, RfqTypeOK, HttpAssumption, RfqAssumption, Returned
<1>3. RequestsTypeOK
  <2>1. 1 \in 1 .. Pages + 1 /\ <<>> \in Seq(1 .. Pages)
    BY RequestsAssumption DEF RequestsAssumption
  <2>2. rq_mode \in 0 .. 2
    BY DEF ClobInit, RequestsInit, ClientMode
  <2>3. RequestsInit
    BY DEF ClobInit
  <2> QED BY <2>1, <2>2, <2>3 DEF RequestsInit, RequestsTypeOK
<1>4. AmountsAndPrices /\ AmountsTypeOK
  BY DEF ClobInit, AmountsInit, NoOrderYet, NoAmounts, AmountsTypeOK, AmountsAndPrices, SignedAmountsAtPrice,
         LimitOrderAtItsPrice, MarketBuyWithinAnAmount, PriceReachesAmount
<1> QED BY <1>1, <1>2, <1>3, <1>4 DEF ClobInit, TypesInv, ClobTypeOK, CreationInv, ListingInv

\* The types of the client: what any interleaving of its calls, with whatever the
\* network and the exchange do, leaves in its caches, cursors, clients and orders.
THEOREM ClobTypeCorrect == ClobSpec => []ClobTypeOK
<1>1. TypesInv /\ [ClobNext]_client_vars => TypesInv'
  <2> SUFFICES ASSUME TypesInv, [ClobNext]_client_vars PROVE TypesInv'
    OBVIOUS
  <2>1. HttpInv' /\ RfqInv' /\ CreationInv' /\ ListingInv'
    BY StepOfEachPart, HttpInvStep, RfqInvStep, CreationInvStep, ListingInvStep DEF TypesInv
  <2>2. HttpTypeOK' /\ RequestsTypeOK' /\ RfqTypeOK'
    BY StepOfEachPart, HttpTypeStep, RequestsTypeStep, RfqTypeStep DEF TypesInv, ClobTypeOK
  <2>3. AmountsAndPrices' /\ AmountsTypeOK'
    BY StepOfEachPart, AmountsStepSound DEF TypesInv, ClobTypeOK
  <2>4. (clob_part \in ClobParts)'
    BY DEF TypesInv, ClobTypeOK, ClobNext, HttpStep, RequestsStep, SessionStep, CreationStep, AmountsStep, RfqStep, client_vars
  <2> QED BY <2>1, <2>2, <2>3, <2>4 DEF TypesInv, ClobTypeOK, CreationInv, ListingInv
<1>2. TypesInv => ClobTypeOK
  BY DEF TypesInv
<1> QED BY <1>1, <1>2, TypesInvInit, PTL DEF ClobSpec
=============================================================================
