----------------------------- MODULE ClobSession -----------------------------
(***************************************************************************)
(* One ClobClient (client.py) and the account it speaks for: the client    *)
(* obtains API credentials with the signer (level 1), and with them (level *)
(* 2) posts, cancels and lists orders.  The exchange and the account's     *)
(* other sessions are external; the listing is paged by an offset.         *)
(***************************************************************************)
EXTENDS Integers, Sequences, SequencesExt, FiniteSets

CONSTANTS
    Nonces,             \* an address has one API key for each nonce
    NoCreds,
    Orders,
    OrdersPerPage,      \* of the exchange's listing
    MaxSessionFaults    \* bound: requests that fail, and what other sessions do

ASSUME SessionAssumption ==
    /\ Nonces # {} /\ NoCreds \notin Nonces
    /\ OrdersPerPage \in Nat \ {0} /\ MaxSessionFaults \in Nat

VARIABLES
    cs_signer,          \* the client was built with a private key
    cs_creds,           \* client.creds: the nonce of the key, or NoCreds
    cs_keys,            \* exchange: the nonces that have a key
    cs_readonly,        \* exchange: there is a readonly key
    cs_open,            \* exchange: the open orders, oldest first
    cs_beating,         \* exchange: heartbeats have been started
    cs_pc,
    cs_want,            \* the nonce create_or_derive_api_creds was given
    cs_answer,          \* what the last call came to
    cs_disturbed,       \* ghost: a fault or another session met that call
    cs_offset, cs_listed,
    cs_standing,        \* ghost: orders open since the listing began
    cs_gone,            \* ghost: orders that left during the listing
    cs_faults

cs_vars == <<cs_signer, cs_creds, cs_keys, cs_readonly, cs_open, cs_beating, cs_pc, cs_want,
             cs_answer, cs_disturbed, cs_offset, cs_listed, cs_standing, cs_gone, cs_faults>>

accountState == <<cs_keys, cs_readonly, cs_open, cs_beating>>
keyCall == <<cs_want, cs_disturbed>>
listing == <<cs_offset, cs_listed, cs_standing, cs_gone>>

NoAnswerYet == [kind |-> "none", creds |-> NoCreds]
Outcome(kind) == [kind |-> kind, creds |-> NoCreds]

SessionTypeOK ==
    /\ cs_signer \in BOOLEAN /\ cs_creds \in Nonces \cup {NoCreds}
    /\ cs_keys \in SUBSET Nonces /\ cs_readonly \in BOOLEAN /\ cs_beating \in BOOLEAN
    /\ cs_open \in Seq(Orders) /\ IsInjective(cs_open)
    /\ cs_pc \in {"idle", "derive", "list"}
    /\ cs_want \in Nonces /\ cs_disturbed \in BOOLEAN
    /\ cs_answer.kind \in {"none", "creds", "unparsed", "raised", "done", "listed"}
    /\ cs_answer.creds \in Nonces \cup {NoCreds}
    /\ cs_offset \in Nat /\ cs_listed \in SUBSET Orders /\ cs_standing \in SUBSET Orders
    /\ cs_gone \in Nat /\ cs_faults \in 0 .. MaxSessionFaults

SessionInit ==
    /\ cs_signer \in BOOLEAN /\ cs_creds = NoCreds
    /\ cs_keys = {} /\ cs_readonly = FALSE /\ cs_open = <<>> /\ cs_beating = FALSE
    /\ cs_pc = "idle" /\ cs_want = (CHOOSE n \in Nonces : TRUE)
    /\ cs_answer = NoAnswerYet /\ cs_disturbed = FALSE
    /\ cs_offset = 0 /\ cs_listed = {} /\ cs_standing = {} /\ cs_gone = 0
    /\ cs_faults = 0

\* _get_client_mode: creds without a signer are worth nothing.
Mode == IF ~cs_signer THEN 0 ELSE IF cs_creds = NoCreds THEN 1 ELSE 2

\* The local variables of get_orders are gone once its caller goes on.
ListingDropped == cs_offset' = 0 /\ cs_listed' = {} /\ cs_standing' = {} /\ cs_gone' = 0

Fault == cs_faults < MaxSessionFaults /\ cs_faults' = cs_faults + 1

-----------------------------------------------------------------------------
(* Credentials *)

Return(answer) ==
    /\ cs_pc' = "idle" /\ cs_answer' = answer
    /\ UNCHANGED <<cs_signer, cs_creds>>

\* The request is made, and what came of it is not known.
CreateFails(nonce) ==
    /\ Fault
    /\ cs_keys' \in {cs_keys, cs_keys \cup {nonce}}
    /\ cs_disturbed' = TRUE /\ cs_pc' = "derive"
    /\ UNCHANGED <<cs_signer, cs_creds, cs_answer>>

CreateRefused(nonce) ==
    /\ nonce \in cs_keys
    /\ cs_disturbed' = FALSE /\ cs_pc' = "derive"
    /\ UNCHANGED <<cs_signer, cs_creds, cs_keys, cs_answer, cs_faults>>

\* An answer that cannot be parsed becomes None, with the key created.
KeyCreated(nonce) ==
    /\ nonce \notin cs_keys
    /\ cs_keys' = cs_keys \cup {nonce} /\ cs_disturbed' = FALSE
    /\ \/ Return([kind |-> "creds", creds |-> nonce]) /\ UNCHANGED cs_faults
       \/ Return(Outcome("unparsed")) /\ Fault

CreateApiKey ==
    /\ cs_pc = "idle" /\ Mode >= 1
    /\ \E nonce \in Nonces :
          /\ cs_want' = nonce
          /\ CreateFails(nonce) \/ CreateRefused(nonce) \/ KeyCreated(nonce)
    /\ ListingDropped
    /\ UNCHANGED <<cs_readonly, cs_open, cs_beating>>

\* Altered: the nonce is not handed on.
DeriveDefaultKey ==
    /\ cs_pc = "derive"
    /\ LET nonce == CHOOSE n \in Nonces : TRUE
       IN  Return(IF nonce \in cs_keys THEN [kind |-> "creds", creds |-> nonce] ELSE Outcome("raised"))
    /\ UNCHANGED <<cs_disturbed, cs_faults>>
    /\ UNCHANGED <<accountState, cs_want, listing>>
DeriveApiKey ==
    /\ cs_pc = "derive"
    /\ \/ /\ cs_want \in cs_keys /\ Return([kind |-> "creds", creds |-> cs_want])
          /\ UNCHANGED <<cs_disturbed, cs_faults>>
       \/ /\ cs_want \notin cs_keys /\ Return(Outcome("raised"))
          /\ UNCHANGED <<cs_disturbed, cs_faults>>
       \/ /\ Fault /\ cs_disturbed' = TRUE
          /\ Return(Outcome("raised")) \/ (cs_want \in cs_keys /\ Return(Outcome("unparsed")))
    /\ UNCHANGED <<accountState, cs_want, listing>>

\* The caller sets what it was given, None included.
SetApiCreds ==
    /\ cs_pc = "idle" /\ cs_answer.kind \in {"creds", "unparsed"}
    /\ cs_creds' = cs_answer.creds /\ cs_answer' = NoAnswerYet
    /\ UNCHANGED <<cs_signer, accountState, cs_pc, keyCall, listing, cs_faults>>

-----------------------------------------------------------------------------
(* Level 2: a request is carried out if its key is one of the account's, or *)
(* it fails; a failed request may have been carried out.                    *)

Level2(carriedOut, nothing) ==
    /\ cs_pc = "idle" /\ Mode = 2
    /\ \/ cs_creds \in cs_keys /\ carriedOut /\ Return(Outcome("done")) /\ UNCHANGED cs_faults
       \/ cs_creds \notin cs_keys /\ nothing /\ Return(Outcome("raised")) /\ UNCHANGED cs_faults
       \/ Fault /\ Return(Outcome("raised")) /\ (nothing \/ (cs_creds \in cs_keys /\ carriedOut))
    /\ ListingDropped
    /\ UNCHANGED keyCall

Becomes(keys, readonly, open, beating) ==
    /\ cs_keys' = keys /\ cs_readonly' = readonly
    /\ cs_open' = open /\ cs_beating' = beating

\* The client keeps the credentials it has just made worthless.
DeleteApiKey ==
    Level2(Becomes(cs_keys \ {cs_creds}, cs_readonly, cs_open, cs_beating), UNCHANGED accountState)

ChangeReadonlyKey ==
    \E there \in BOOLEAN :
        Level2(Becomes(cs_keys, there, cs_open, cs_beating), UNCHANGED accountState)

Resting == {"GTC", "GTD"}

RefusedBeforehand ==
    /\ cs_pc = "idle" /\ Return(Outcome("raised")) /\ ListingDropped
    /\ UNCHANGED <<accountState, keyCall, cs_faults>>

\* Only an order that may rest can be post-only; the others are filled or killed.
PostOrder ==
    \E o \in Orders \ ToSet(cs_open), type \in Resting \cup {"FOK", "FAK"}, postOnly \in BOOLEAN :
        LET open == IF type \in Resting THEN Append(cs_open, o) ELSE cs_open
        IN  IF postOnly /\ type \notin Resting
            THEN RefusedBeforehand
            ELSE Level2(Becomes(cs_keys, cs_readonly, open, cs_beating), UNCHANGED accountState)

\* The orders that stay, in their order.
Without(cancelled) ==
    LET kept[n \in 0 .. Len(cs_open)] ==
            IF n = 0 THEN <<>>
            ELSE IF cs_open[n] \in cancelled THEN kept[n - 1] ELSE Append(kept[n - 1], cs_open[n])
    IN  kept[Len(cs_open)]

CancelOrders ==
    \E cancelled \in SUBSET ToSet(cs_open) :
        /\ cancelled # {}
        /\ Level2(Becomes(cs_keys, cs_readonly, Without(cancelled), cs_beating), UNCHANGED accountState)

PostHeartbeat ==
    Level2(Becomes(cs_keys, cs_readonly, cs_open, TRUE), UNCHANGED accountState)

\* Notifications, balances and scoring.
QueryAccount == Level2(UNCHANGED accountState, UNCHANGED accountState)

-----------------------------------------------------------------------------
(* get_orders *)

GetOrders ==
    /\ cs_pc = "idle" /\ Mode = 2 /\ cs_pc' = "list"
    /\ cs_offset' = 0 /\ cs_listed' = {} /\ cs_standing' = ToSet(cs_open) /\ cs_gone' = 0
    /\ cs_answer' = NoAnswerYet
    /\ UNCHANGED <<cs_signer, cs_creds, accountState, keyCall, cs_faults>>

ExchangePage ==
    {cs_open[i] : i \in {j \in DOMAIN cs_open : j > cs_offset /\ j <= cs_offset + OrdersPerPage}}
IsLastPage == cs_offset + OrdersPerPage >= Len(cs_open)

\* Altered: the page that comes with END_CURSOR is not kept.
ReadOrdersPageBeforeEnd ==
    /\ cs_pc = "list" /\ cs_creds \in cs_keys
    /\ cs_listed' = IF IsLastPage THEN cs_listed ELSE cs_listed \cup ExchangePage
    /\ cs_offset' = cs_offset + OrdersPerPage
    /\ IF IsLastPage THEN Return(Outcome("listed"))
                     ELSE UNCHANGED <<cs_pc, cs_answer, cs_signer, cs_creds>>
    /\ UNCHANGED <<accountState, keyCall, cs_standing, cs_gone, cs_faults>>
ReadOrdersPage ==
    /\ cs_pc = "list" /\ cs_creds \in cs_keys
    /\ cs_listed' = cs_listed \cup ExchangePage
    /\ cs_offset' = cs_offset + OrdersPerPage
    /\ IF IsLastPage THEN Return(Outcome("listed"))
                     ELSE UNCHANGED <<cs_pc, cs_answer, cs_signer, cs_creds>>
    /\ UNCHANGED <<accountState, keyCall, cs_standing, cs_gone, cs_faults>>

\* One page fails, and the pages already read are lost with it.
ListingFails ==
    /\ cs_pc = "list" /\ Return(Outcome("raised"))
    /\ IF cs_creds \in cs_keys THEN Fault ELSE UNCHANGED cs_faults
    /\ UNCHANGED <<accountState, keyCall, listing>>

-----------------------------------------------------------------------------
(* The exchange and the account's other sessions, at any time *)

Leaves(left, open) ==
    /\ cs_open' = open
    /\ cs_gone' = cs_gone + IF cs_pc = "list" THEN left ELSE 0
    /\ UNCHANGED <<cs_signer, cs_creds, cs_keys, cs_readonly, cs_beating, cs_pc, cs_answer, keyCall,
                   cs_offset, cs_listed, cs_standing>>

OrderLeaves == Fault /\ \E i \in DOMAIN cs_open : Leaves(1, RemoveAt(cs_open, i))

\* "if heartbeats are started and one isn't sent within 10s, all orders will be cancelled"
HeartbeatLapses ==
    /\ cs_beating /\ cs_open # <<>>
    /\ Leaves(Len(cs_open), <<>>) /\ UNCHANGED cs_faults

KeyRevoked ==
    /\ Fault
    /\ \E n \in cs_keys : cs_keys' = cs_keys \ {n}
    /\ cs_disturbed' = TRUE
    /\ UNCHANGED <<cs_signer, cs_creds, cs_readonly, cs_open, cs_beating, cs_pc, cs_want, cs_answer, listing>>

SessionNext ==
    \/ CreateApiKey \/ DeriveApiKey \/ SetApiCreds
    \/ DeleteApiKey \/ ChangeReadonlyKey \/ PostOrder \/ CancelOrders \/ PostHeartbeat \/ QueryAccount
    \/ GetOrders \/ ReadOrdersPage \/ ListingFails
    \/ OrderLeaves \/ HeartbeatLapses \/ KeyRevoked

-----------------------------------------------------------------------------
(* Properties *)

\* create_or_derive_api_creds returns the key of the nonce it was asked for,
\* created or found, even when the answer to its creation was lost; and a key
\* it returned is one of the account's unless somebody deleted it since.
CredsObtained ==
    cs_pc = "idle" /\ cs_answer.kind = "creds" =>
        /\ cs_answer.creds = cs_want
        /\ cs_answer.creds \in cs_keys \/ cs_disturbed

\* get_orders misses at most one standing order for each order that left while
\* it was reading, and none if none left.
ListingComplete ==
    cs_answer.kind = "listed" =>
        Cardinality((cs_standing \cap ToSet(cs_open)) \ cs_listed) <= cs_gone
=============================================================================
