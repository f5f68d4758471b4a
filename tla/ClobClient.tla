------------------------------ MODULE ClobClient ------------------------------
(***************************************************************************)
(* The parts of the CLOB client.  They share no state that changes: the    *)
(* caches belong to order creation, the credentials to the session, the    *)
(* http client to the transport.  So a behaviour exercises one of them,    *)
(* chosen at the start, and the others stand still.                        *)
(***************************************************************************)
EXTENDS ClobHttp, ClobRequests, ClobSession, ClobOrderCreation, OrderAmounts, RfqFlow

VARIABLE clob_part

ClobParts == {"http", "requests", "session", "creation", "amounts", "rfq"}

client_vars == <<clob_part, http_vars, rq_vars, cs_vars, co_vars, oa_vars, rfq_vars>>

ClobTypeOK ==
    /\ clob_part \in ClobParts
    /\ HttpTypeOK /\ RequestsTypeOK /\ SessionTypeOK /\ CreationTypeOK /\ AmountsTypeOK /\ RfqTypeOK

\* A part that is not exercised starts in one state.
ClobInit ==
    /\ clob_part \in ClobParts
    /\ HttpInit /\ RequestsInit /\ SessionInit /\ CreationInit /\ AmountsInit /\ RfqInit
    /\ clob_part # "requests" => ~rq_signer /\ ~rq_creds /\ rq_builder = "none"
    /\ clob_part # "session" => ~cs_signer
    /\ clob_part # "creation" =>
          /\ co_market = CHOOSE m \in [tick : TickSizes, fee : FeeRates, neg : BOOLEAN] : TRUE
          /\ co_args = CHOOSE a \in CallerArguments : TRUE
    /\ clob_part # "rfq" => ~rfq_short

HttpStep == clob_part = "http" /\ HttpNext /\ UNCHANGED <<clob_part, rq_vars, cs_vars, co_vars, oa_vars, rfq_vars>>
RequestsStep == clob_part = "requests" /\ RequestsNext /\ UNCHANGED <<clob_part, http_vars, cs_vars, co_vars, oa_vars, rfq_vars>>
SessionStep == clob_part = "session" /\ SessionNext /\ UNCHANGED <<clob_part, http_vars, rq_vars, co_vars, oa_vars, rfq_vars>>
CreationStep == clob_part = "creation" /\ CreationNext /\ UNCHANGED <<clob_part, http_vars, rq_vars, cs_vars, oa_vars, rfq_vars>>
AmountsStep == clob_part = "amounts" /\ AmountsNext /\ UNCHANGED <<clob_part, http_vars, rq_vars, cs_vars, co_vars, rfq_vars>>
RfqStep == clob_part = "rfq" /\ RfqNext /\ UNCHANGED <<clob_part, http_vars, rq_vars, cs_vars, co_vars, oa_vars>>

ClobNext == HttpStep \/ RequestsStep \/ SessionStep \/ CreationStep \/ AmountsStep \/ RfqStep

ClobSpec == ClobInit /\ [][ClobNext]_client_vars

-----------------------------------------------------------------------------
(* Property *)

\* What goes over the wire can be verified by the exchange and is asked for
\* once; what is carried out twice, or not at all, is explained by the faults.
DeliveriesExplained == RequestsVerify /\ CallsExplained
=============================================================================
