------------------------------ MODULE ClobHttp ------------------------------
(***************************************************************************)
(* http_helpers/helpers.py: every call of the CLOB client goes through     *)
(* request(), which sends it on one httpx client shared by the process.    *)
(* When the answer does not arrive it replaces the shared client and sends *)
(* the same call once more, an order or a cancellation like any other.     *)
(***************************************************************************)
EXTENDS Integers, FiniteSets

CONSTANTS
    Callers,        \* threads with one call each
    MaxFaults       \* bound: faults of the network

ASSUME HttpAssumption == MaxFaults \in Nat

VARIABLES
    http_client,    \* the instance _http_client names
    http_open,      \* the instances not closed
    http_pc,        \* caller -> where its call is
    http_using,     \* caller -> the instance its request was sent on
    http_try,       \* caller -> 1, or 2 for the repetition
    http_executed,  \* caller -> how often the exchange has executed the call
    http_lost,      \* ghost: caller -> executions whose answer did not arrive
    http_faults

http_vars == <<http_client, http_open, http_pc, http_using, http_try, http_executed, http_lost, http_faults>>

Returned == {"ok", "error", "closed"}

HttpTypeOK ==
    /\ http_client \in Nat \ {0} /\ http_open \in SUBSET (1 .. http_client)
    /\ http_pc \in [Callers -> {"send", "sent", "executed", "close", "renew"} \cup Returned]
    /\ \A c \in Callers : http_using[c] \in 0 .. http_client
    /\ http_try \in [Callers -> {1, 2}]
    /\ http_executed \in [Callers -> Nat] /\ http_lost \in [Callers -> Nat]
    /\ http_faults \in 0 .. MaxFaults

HttpInit ==
    /\ http_client = 1 /\ http_open = {1}
    /\ http_pc = [c \in Callers |-> "send"]
    /\ http_using = [c \in Callers |-> 0]
    /\ http_try = [c \in Callers |-> 1]
    /\ http_executed = [c \in Callers |-> 0] /\ http_lost = [c \in Callers |-> 0]
    /\ http_faults = 0

Go(c, step) == http_pc' = [http_pc EXCEPT ![c] = step]

\* httpx raises RuntimeError on a closed client; request() does not catch that.
Send(c) ==
    /\ http_pc[c] = "send"
    /\ Go(c, IF http_client \in http_open THEN "sent" ELSE "closed")
    /\ http_using' = [http_using EXCEPT ![c] = http_client]
    /\ UNCHANGED <<http_client, http_open, http_try, http_executed, http_lost, http_faults>>

\* The exchange carries the call out.
Execute(c) ==
    /\ http_pc[c] = "sent"
    /\ Go(c, "executed")
    /\ http_executed' = [http_executed EXCEPT ![c] = @ + 1]
    /\ UNCHANGED <<http_client, http_open, http_using, http_try, http_lost, http_faults>>

\* The answer has status 200, or the call was refused with another one.
Answered(c) ==
    /\ http_pc[c] = "executed" /\ Go(c, "ok")
    /\ UNCHANGED <<http_client, http_open, http_using, http_try, http_executed, http_lost, http_faults>>
Refused(c) ==
    /\ http_pc[c] = "sent" /\ Go(c, "error")
    /\ UNCHANGED <<http_client, http_open, http_using, http_try, http_executed, http_lost, http_faults>>

\* A fault of the network, or the client was closed under the request.
Broken(c) ==
    /\ http_pc[c] \in {"sent", "executed"}
    /\ IF http_using[c] \in http_open
       THEN http_faults < MaxFaults /\ http_faults' = http_faults + 1
       ELSE UNCHANGED http_faults
    /\ http_lost' = [http_lost EXCEPT ![c] = @ + IF http_pc[c] = "executed" THEN 1 ELSE 0]

\* Altered: the call is repeated as often as it takes.
RetryAgain(c) == TRUE
MayRetryCall(c) == http_try[c] = 1

\* RemoteProtocolError or ReadTimeout, which may come after the execution.
NoAnswer(c) ==
    /\ Broken(c)
    /\ Go(c, IF MayRetryCall(c) THEN "close" ELSE "error")
    /\ UNCHANGED <<http_client, http_open, http_using, http_try, http_executed>>

\* Any other RequestError becomes a PolyApiException at once.
ConnectionFails(c) ==
    /\ Broken(c)
    /\ Go(c, "error")
    /\ UNCHANGED <<http_client, http_open, http_using, http_try, http_executed>>

\* _reset_http_client closes whatever client the process uses by now.
CloseClient(c) ==
    /\ http_pc[c] = "close" /\ Go(c, "renew")
    /\ http_open' = http_open \ {http_client}
    /\ UNCHANGED <<http_client, http_using, http_try, http_executed, http_lost, http_faults>>

RenewClient(c) ==
    /\ http_pc[c] = "renew" /\ Go(c, "send")
    /\ http_client' = http_client + 1 /\ http_open' = http_open \cup {http_client + 1}
    /\ http_try' = [http_try EXCEPT ![c] = 2]
    /\ UNCHANGED <<http_using, http_executed, http_lost, http_faults>>

HttpNext ==
    \E c \in Callers :
        \/ Send(c) \/ Execute(c) \/ Answered(c) \/ Refused(c)
        \/ NoAnswer(c) \/ ConnectionFails(c) \/ CloseClient(c) \/ RenewClient(c)

-----------------------------------------------------------------------------
(* Property *)

\* A call is executed a second time only if the answer to the first execution
\* was lost, and never a third time; a call that returns normally has been
\* executed; and without a fault of the network no call fails that the exchange
\* did not refuse, however the threads replace the client under each other.
CallsExplained ==
    \A c \in Callers :
        /\ http_executed[c] <= 2
        /\ http_pc[c] \notin {"executed", "ok"} => http_executed[c] = http_lost[c]
        /\ http_pc[c] \in {"executed", "ok"} => http_executed[c] = http_lost[c] + 1
        /\ http_pc[c] = "closed" => http_faults > 0
=============================================================================
