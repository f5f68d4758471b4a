---------------------------- MODULE ClobRequests ----------------------------
(***************************************************************************)
(* The requests of one ClobClient (client.py, rfq/rfq_client.py): which    *)
(* headers each call carries, what their signatures cover, and which page  *)
(* of a trade history each request asks for.  The catalogue of calls is    *)
(* the code's, by the level it asks of the client.  ClobHttp has what      *)
(* happens to a request afterwards, ClobSession what it does.              *)
(***************************************************************************)
EXTENDS Integers, Sequences

CONSTANTS
    NoRequest,
    Pages       \* of the trade history; the cursor Pages + 1 is END_CURSOR

ASSUME RequestsAssumption == Pages \in Nat \ {0}

VARIABLES
    rq_signer, rq_creds,    \* the client has a private key; credentials
    rq_mode,
    rq_builder,             \* its builder_config: "none", "invalid" or "valid"
    rq_request,             \* the last request sent
    rq_listing,             \* the call whose pages are being read, or NoRequest
    rq_headers,             \* its headers, made once
    rq_filters,             \* TradeParams has a filter
    rq_start, rq_cursor,
    rq_read                 \* the pages gathered

rq_vars == <<rq_signer, rq_creds, rq_mode, rq_builder, rq_request, rq_listing, rq_headers,
             rq_filters, rq_start, rq_cursor, rq_read>>

config == <<rq_signer, rq_creds, rq_mode, rq_builder>>
pages == <<rq_listing, rq_headers, rq_filters, rq_start, rq_cursor, rq_read>>

-----------------------------------------------------------------------------
(* The calls.  A body that is signed is serialized first, and sent as that. *)

Calls(method, body, paths) == {[method |-> method, path |-> p, body |-> body] : p \in paths}
Reads(paths) == Calls("GET", "none", paths)
Objects(paths) == Calls("POST", "object", paths)

ApiKeyCalls ==
    Reads({"/auth/api-keys", "/auth/ban-status/closed-only", "/auth/readonly-api-keys"})
        \cup Calls("DELETE", "none", {"/auth/api-key"})
        \cup Calls("POST", "none", {"/auth/readonly-api-key"})
        \cup Calls("DELETE", "text", {"/auth/readonly-api-key"})
QuotationCalls ==
    Reads({"/auth/validate-readonly-api-key", "/midpoint", "/price", "/spread"})
        \cup Objects({"/midpoints", "/prices", "/spreads"})
BookCalls == Reads({"/book"}) \cup Objects({"/books"})
LastTradeCalls == Reads({"/last-trade-price"}) \cup Objects({"/last-trades-prices"})
MarketCalls ==
    Reads({"/sampling-markets", "/sampling-simplified-markets", "/markets", "/simplified-markets",
           "/markets/", "/live-activity/events/"})
CancelCalls ==
    Calls("DELETE", "text", {"/order", "/orders", "/cancel-market-orders"})
        \cup Calls("DELETE", "none", {"/cancel-all"})
        \cup Calls("POST", "text", {"/v1/heartbeats"})
OrderReads == Reads({"/data/orders", "/data/order/"})
AccountCalls ==
    Reads({"/notifications", "/balance-allowance", "/balance-allowance/update", "/order-scoring"})
        \cup Calls("DELETE", "none", {"/notifications"})
        \cup Calls("POST", "text", {"/orders-scoring"})
RfqReads == Reads({"/rfq/data/requests"})
RfqQuoteReads == Reads({"/rfq/data/requester/quotes", "/rfq/data/quoter/quotes", "/rfq/data/best-quote"})
RfqConfig == Reads({"/rfq/config"})
RfqChanges ==
    Calls("POST", "text", {"/rfq/request", "/rfq/quote", "/rfq/request/accept", "/rfq/quote/approve"})
        \cup Calls("DELETE", "text", {"/rfq/request", "/rfq/quote"})
PostCalls == Calls("POST", "text", {"/order", "/orders"})
KeyOfSigner == Calls("POST", "none", {"/auth/api-key"}) \cup Reads({"/auth/derive-api-key"})
TradesCall == CHOOSE c \in Reads({"/data/trades"}) : TRUE
BuilderTradesCall == CHOOSE c \in Reads({"/builder/trades"}) : TRUE

PublicCalls == QuotationCalls \cup BookCalls \cup LastTradeCalls \cup MarketCalls
Level2Calls ==
    UNION {ApiKeyCalls, CancelCalls, OrderReads, AccountCalls, RfqReads, RfqQuoteReads, RfqConfig, RfqChanges}
SignedCalls == Level2Calls \cup PostCalls \cup {TradesCall, BuilderTradesCall}

-----------------------------------------------------------------------------
(* Headers *)

\* What a caller put into a body may hold an apostrophe.
Texts(call) == IF call.body = "text" THEN {"plain", "apostrophe"} ELSE {call.body}

\* The serialized body is what is signed.  Altered: the body is left out.
NoBodyForSignature(text) == "none"
BodyForSignature(text) == text

\* build_hmac_signature puts a quotation mark for every apostrophe.
HmacText(text) == IF text = "apostrophe" THEN "quoted" ELSE text

Level1Header(nonce) == [by |-> "signer", nonce |-> nonce]
Level2Header(call, text) ==
    [by |-> "account", method |-> call.method, path |-> call.path, text |-> HmacText(BodyForSignature(text))]
BuilderHeader(call, text) ==
    [by |-> "builder", method |-> call.method, path |-> call.path, text |-> text]

CanBuilderAuth == rq_builder = "valid"

\* A valid configuration may still give no headers; then the account's go alone.
BuilderHeaders(call, text) ==
    {{}} \cup (IF CanBuilderAuth THEN {{BuilderHeader(call, text)}} ELSE {})

ClientMode(signer, creds) == IF ~signer THEN 0 ELSE IF creds THEN 2 ELSE 1

-----------------------------------------------------------------------------
(* State *)

Headers ==
    [by : {"signer"}, nonce : {0, 1}]
        \cup [by : {"account", "builder"}, method : {"GET", "POST", "DELETE"},
              path : {call.path : call \in SignedCalls}, text : {"none", "plain", "apostrophe", "quoted"}]

RequestsTypeOK ==
    /\ rq_signer \in BOOLEAN /\ rq_creds \in BOOLEAN /\ rq_mode \in 0 .. 2
    /\ rq_builder \in {"none", "invalid", "valid"}
    /\ rq_request = NoRequest \/ rq_request.headers \subseteq Headers
    /\ rq_listing \in {NoRequest, TradesCall, BuilderTradesCall}
    /\ rq_headers \subseteq Headers /\ rq_filters \in BOOLEAN
    /\ rq_start \in 1 .. Pages + 1 /\ rq_cursor \in 1 .. Pages + 1 /\ rq_read \in Seq(1 .. Pages)

RequestsInit ==
    /\ rq_signer \in BOOLEAN /\ rq_creds \in BOOLEAN
    /\ rq_mode = ClientMode(rq_signer, rq_creds)
    /\ rq_builder \in {"none", "invalid", "valid"}
    /\ rq_request = NoRequest /\ rq_listing = NoRequest /\ rq_headers = {}
    /\ rq_filters = FALSE /\ rq_start = 1 /\ rq_cursor = 1 /\ rq_read = <<>>

\* set_api_creds takes None as well.
SetCreds ==
    /\ rq_listing = NoRequest
    /\ rq_creds' \in BOOLEAN /\ rq_mode' = ClientMode(rq_signer, rq_creds')
    /\ UNCHANGED <<rq_signer, rq_builder, rq_request, pages>>

SendRequest(call, text, headers) ==
    /\ rq_listing = NoRequest
    /\ rq_request' = [call |-> call, text |-> text, headers |-> headers]
    /\ UNCHANGED <<config, pages>>

PublicCall == \E call \in PublicCalls : SendRequest(call, call.body, {})

\* A nonce that is not given is 0.
SignerCall ==
    /\ rq_mode >= 1
    /\ \E call \in KeyOfSigner, nonce \in {0, 1} : SendRequest(call, "none", {Level1Header(nonce)})

Level2Call ==
    /\ rq_mode >= 2
    /\ \E call \in Level2Calls : \E text \in Texts(call) : SendRequest(call, text, {Level2Header(call, text)})

PostCall ==
    /\ rq_mode >= 2
    /\ \E call \in PostCalls : \E text \in Texts(call) : \E builder \in BuilderHeaders(call, text) :
          SendRequest(call, text, {Level2Header(call, text)} \cup builder)

-----------------------------------------------------------------------------
(* get_trades and get_builder_trades *)

StartListing(call, headers) ==
    /\ rq_listing = NoRequest
    /\ rq_listing' = call /\ rq_headers' = headers
    /\ rq_filters' \in BOOLEAN
    /\ rq_start' \in 1 .. Pages + 1 /\ rq_cursor' = rq_start' /\ rq_read' = <<>>
    /\ UNCHANGED <<config, rq_request>>

GetTrades == rq_mode >= 2 /\ StartListing(TradesCall, {Level2Header(TradesCall, "none")})

\* With a valid configuration that gives no headers the request goes out bare.
GetBuilderTrades ==
    /\ CanBuilderAuth
    /\ \E headers \in BuilderHeaders(BuilderTradesCall, "none") : StartListing(BuilderTradesCall, headers)

\* The page the url asks for.  Altered: without a filter the url has no query.
PageOfFilteredQuery(cursor) == IF rq_filters THEN cursor ELSE 1
PageAsked(cursor) == cursor

ListingRequest == [call |-> rq_listing, text |-> "none", headers |-> rq_headers]

ReadTradesPage ==
    /\ rq_listing # NoRequest /\ rq_cursor <= Pages
    /\ rq_request' = ListingRequest
    /\ LET page == PageAsked(rq_cursor)
       IN  rq_read' = Append(rq_read, page) /\ rq_cursor' = page + 1
    /\ UNCHANGED <<config, rq_listing, rq_headers, rq_filters, rq_start>>

ListingDone ==
    /\ rq_listing' = NoRequest /\ rq_headers' = {}
    /\ rq_read' = <<>> /\ rq_start' = 1 /\ rq_cursor' = 1 /\ rq_filters' = FALSE
    /\ UNCHANGED config

EndListing == rq_listing # NoRequest /\ rq_cursor = Pages + 1 /\ ListingDone /\ UNCHANGED rq_request

\* A request that fails loses the pages before it.
FailListing ==
    /\ rq_listing # NoRequest /\ rq_cursor <= Pages
    /\ rq_request' = ListingRequest /\ ListingDone

RequestsNext ==
    \/ SetCreds \/ PublicCall \/ SignerCall \/ Level2Call \/ PostCall
    \/ GetTrades \/ GetBuilderTrades \/ ReadTradesPage \/ EndListing \/ FailListing

-----------------------------------------------------------------------------
(* Properties *)

\* Every signature of a request covers its method, its path and the body that
\* is sent, so the exchange, which checks it against what it receives, refuses
\* none; the exception is a body with an apostrophe.
SignaturesCover(request) ==
    \A h \in request.headers :
        h.by # "signer" =>
            /\ h.method = request.call.method /\ h.path = request.call.path
            /\ request.text # "apostrophe" => h.text = request.text

\* A public call never carries the account's signature; a call for the account
\* carries it, and the builder's only beside it and where orders are posted.
SignaturesOf(request) == {h.by : h \in request.headers}
SignersFit(request) ==
    LET by == SignaturesOf(request) IN
    /\ request.call \in PublicCalls => by = {}
    /\ request.call \in KeyOfSigner => by = {"signer"}
    /\ request.call \in Level2Calls \cup {TradesCall} => by = {"account"}
    /\ request.call \in PostCalls => "account" \in by /\ (~CanBuilderAuth => by = {"account"})
    /\ request.call = BuilderTradesCall => by \subseteq {"builder"}

\* A listing gathers the pages from its start on, each once and in order.
PagesOnce == \A i \in DOMAIN rq_read : rq_read[i] = rq_start + i - 1

\* What the client sends can be verified, and its listings advance.
RequestsVerify ==
    /\ rq_request # NoRequest => SignaturesCover(rq_request) /\ SignersFit(rq_request)
    /\ PagesOnce
=============================================================================
