------------------------------- MODULE RfqFlow -------------------------------
(***************************************************************************)
(* The request-for-quote client (rfq/rfq_client.py) at both ends: a        *)
(* requester posts a request, a quoter answers with quotes, the requester  *)
(* accepts one with a signed order and the quoter approves it with         *)
(* another.  Each side derives its order from the quote as the exchange    *)
(* lists it; the exchange is external.                                     *)
(***************************************************************************)
EXTENDS Integers

CONSTANTS
    Outcomes,       \* the two complementary tokens
    RfqSizes,
    RfqOne,         \* the price 1, in ticks
    QuoteIds,
    NoRfq,
    MaxRfqFaults    \* bound

ASSUME RfqAssumption ==
    /\ RfqOne \in Nat /\ RfqSizes \subseteq Nat /\ MaxRfqFaults \in Nat
    /\ \E yes, no \in Outcomes : yes # no /\ Outcomes = {yes, no}

VARIABLES
    rfq_request, rfq_quotes,    \* as the exchange holds them
    rfq_accepted, rfq_approved, \* quote -> the order signed for it
    rfq_short,                  \* in floats, 1 - (1 - tick) < tick (tick sizes 0.1 and 0.0001)
    rfq_faults

rfq_vars == <<rfq_request, rfq_quotes, rfq_accepted, rfq_approved, rfq_short, rfq_faults>>

Sides == {"BUY", "SELL"}
Offers == [side : Sides, token : Outcomes, price : 1 .. RfqOne - 1, sizeIn : Nat, sizeOut : Nat]
RfqOrders == [token : Outcomes, side : Sides, size : Nat, price : 1 .. RfqOne - 1]

RfqTypeOK ==
    /\ rfq_request = NoRfq \/ rfq_request \in Offers
    /\ \A q \in QuoteIds :
          /\ rfq_quotes[q] = NoRfq \/ rfq_quotes[q] \in Offers
          /\ rfq_accepted[q] = NoRfq \/ rfq_accepted[q] \in RfqOrders
          /\ rfq_approved[q] = NoRfq \/ rfq_approved[q] \in RfqOrders
    /\ rfq_short \in BOOLEAN /\ rfq_faults \in 0 .. MaxRfqFaults

RfqInit ==
    /\ rfq_request = NoRfq
    /\ rfq_quotes = [q \in QuoteIds |-> NoRfq]
    /\ rfq_accepted = [q \in QuoteIds |-> NoRfq] /\ rfq_approved = [q \in QuoteIds |-> NoRfq]
    /\ rfq_short \in BOOLEAN /\ rfq_faults = 0

\* What is received and what is given: shares against their value.
Offer(side, token, price, size) ==
    [side |-> side, token |-> token, price |-> price,
     sizeIn |-> IF side = "BUY" THEN size ELSE size * price,
     sizeOut |-> IF side = "BUY" THEN size * price ELSE size]

\* A request that fails may have been carried out.
Sent(carriedOut, nothing) ==
    \/ carriedOut /\ UNCHANGED rfq_faults
    \/ rfq_faults < MaxRfqFaults /\ rfq_faults' = rfq_faults + 1 /\ (carriedOut \/ nothing)

CreateRfqRequest ==
    /\ rfq_request = NoRfq
    /\ \E side \in Sides, token \in Outcomes, price \in 1 .. RfqOne - 1, size \in RfqSizes :
          Sent(rfq_request' = Offer(side, token, price, size), UNCHANGED rfq_request)
    /\ UNCHANGED <<rfq_quotes, rfq_accepted, rfq_approved, rfq_short>>

CancelRfqRequest ==
    /\ rfq_request # NoRfq /\ \A q \in QuoteIds : rfq_accepted[q] = NoRfq
    /\ rfq_request' = NoRfq
    /\ rfq_quotes' = [q \in QuoteIds |-> NoRfq] /\ rfq_approved' = [q \in QuoteIds |-> NoRfq]
    /\ UNCHANGED <<rfq_accepted, rfq_short, rfq_faults>>

\* The exchange takes a quote that can be matched with the request.
Matches(request, side, token) ==
    IF token = request.token THEN side # request.side ELSE side = request.side

CreateRfqQuote(q) ==
    /\ rfq_request # NoRfq /\ rfq_quotes[q] = NoRfq
    /\ \E side \in Sides, token \in Outcomes, price \in 1 .. RfqOne - 1, size \in RfqSizes :
          /\ Matches(rfq_request, side, token)
          /\ Sent(rfq_quotes' = [rfq_quotes EXCEPT ![q] = Offer(side, token, price, size)], UNCHANGED rfq_quotes)
    /\ UNCHANGED <<rfq_request, rfq_accepted, rfq_approved, rfq_short>>

CancelRfqQuote(q) ==
    /\ rfq_quotes[q] # NoRfq /\ rfq_accepted[q] = NoRfq
    /\ rfq_quotes' = [rfq_quotes EXCEPT ![q] = NoRfq]
    /\ rfq_approved' = [rfq_approved EXCEPT ![q] = NoRfq]
    /\ UNCHANGED <<rfq_request, rfq_accepted, rfq_short, rfq_faults>>

-----------------------------------------------------------------------------
(* The two orders *)

Complementary(quote) == quote.token = rfq_request.token
Complement(token) == CHOOSE t \in Outcomes : t # token
Opposite(side) == IF side = "BUY" THEN "SELL" ELSE "BUY"

\* Altered: a complementary order takes the size of its own side of the quote.
RequestOrderOfOwnSide(quote) ==
    IF Complementary(quote)
    THEN LET side == Opposite(quote.side)
         IN  [token |-> quote.token, side |-> side, price |-> quote.price,
              size |-> IF side = "BUY" THEN quote.sizeIn ELSE quote.sizeOut]
    ELSE [token |-> Complement(quote.token), side |-> quote.side, price |-> RfqOne - quote.price,
          size |-> IF quote.side = "BUY" THEN quote.sizeIn ELSE quote.sizeOut]
RequestOrder(quote) ==
    IF Complementary(quote)
    THEN LET side == Opposite(quote.side)
         IN  [token |-> quote.token, side |-> side, price |-> quote.price,
              size |-> IF side = "BUY" THEN quote.sizeOut ELSE quote.sizeIn]
    ELSE [token |-> Complement(quote.token), side |-> quote.side, price |-> RfqOne - quote.price,
          size |-> IF quote.side = "BUY" THEN quote.sizeIn ELSE quote.sizeOut]

QuoteOrder(quote) ==
    [token |-> quote.token, side |-> quote.side, price |-> quote.price,
     size |-> IF quote.side = "BUY" THEN quote.sizeIn ELSE quote.sizeOut]

\* create_order rejects an inverse price that falls short of the tick.
FallsShort(quote) == rfq_short /\ ~Complementary(quote) /\ quote.price = RfqOne - 1

AcceptRfqQuote(q) ==
    /\ rfq_quotes[q] # NoRfq /\ \A r \in QuoteIds : rfq_accepted[r] = NoRfq
    /\ ~FallsShort(rfq_quotes[q])
    /\ Sent(rfq_accepted' = [rfq_accepted EXCEPT ![q] = RequestOrder(rfq_quotes[q])], UNCHANGED rfq_accepted)
    /\ UNCHANGED <<rfq_request, rfq_quotes, rfq_approved, rfq_short>>

\* Nothing here waits for the acceptance: the exchange holds the order for it.
ApproveRfqOrder(q) ==
    /\ rfq_quotes[q] # NoRfq /\ rfq_approved[q] = NoRfq
    /\ Sent(rfq_approved' = [rfq_approved EXCEPT ![q] = QuoteOrder(rfq_quotes[q])], UNCHANGED rfq_approved)
    /\ UNCHANGED <<rfq_request, rfq_quotes, rfq_accepted, rfq_short>>

RfqNext ==
    \/ CreateRfqRequest \/ CancelRfqRequest
    \/ \E q \in QuoteIds : \/ CreateRfqQuote(q) \/ CancelRfqQuote(q)
                           \/ AcceptRfqQuote(q) \/ ApproveRfqOrder(q)

-----------------------------------------------------------------------------
(* Property *)

\* The two orders signed for a quote can be matched: the same number of shares,
\* of one token on opposite sides at one price, or of both tokens on one side
\* at prices that add up to 1; and the requester's order is for the token and
\* the side that were requested.
RfqOrdersMatch ==
    \A q \in QuoteIds : LET mine == rfq_accepted[q]  theirs == rfq_approved[q] IN
        /\ mine # NoRfq => mine.side = rfq_request.side /\ mine.token = rfq_request.token
        /\ mine # NoRfq /\ theirs # NoRfq =>
              /\ mine.size = theirs.size
              /\ IF mine.token = theirs.token
                 THEN mine.side # theirs.side /\ mine.price = theirs.price
                 ELSE mine.side = theirs.side /\ mine.price + theirs.price = RfqOne
=============================================================================
