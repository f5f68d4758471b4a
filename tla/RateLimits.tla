----------------------------- MODULE RateLimits -----------------------------
(***************************************************************************)
(* ToTheMoon/api.py: PolymarketHttpClient.request sends a call again after  *)
(* every answer that may be transient, and before each attempt asks the     *)
(* endpoint's EndpointRateLimiter, which makes it wait with the lock held   *)
(* until the quota allows one more.                                        *)
(***************************************************************************)
EXTENDS Integers, FiniteSets, Functions

CONSTANTS
    RlThreads,      \* threads with a call each of one endpoint
    RlLimit, RlWindow,  \* RateLimitPolicy
    RlAttempts,     \* RetryPolicy.attempts
    RlRetryAfters,  \* values of the header Retry-After, 0 for none
    RlMaxClock,     \* bound
    RlNobody

ASSUME RateLimitsAssumption ==
    /\ RlLimit \in Nat \ {0} /\ RlWindow \in Nat \ {0} /\ RlAttempts \in Nat \ {0}
    /\ RlRetryAfters \subseteq Nat /\ RlMaxClock \in Nat
    /\ IsFiniteSet(RlThreads) /\ RlNobody \notin RlThreads

VARIABLES
    rl_clock,       \* time.monotonic()
    rl_started,     \* _window_started_at
    rl_count,       \* _request_count
    rl_owner,       \* who holds _lock
    rl_pc,          \* thread -> where its call is
    rl_time,        \* thread -> the clock it read, or the time it sleeps to
    rl_attempt,     \* thread -> tenacity's attempt_number
    rl_granted,     \* ghost: tick -> acquire()s that returned
    rl_sent         \* ghost: tick -> requests sent

rl_vars == <<rl_clock, rl_started, rl_count, rl_owner, rl_pc, rl_time, rl_attempt, rl_granted, rl_sent>>

RlTicks == 0 .. RlMaxClock

RateLimitsTypeOK ==
    /\ rl_clock \in RlTicks /\ rl_started \in RlTicks
    /\ rl_count \in 0 .. RlLimit
    /\ rl_owner \in RlThreads \cup {RlNobody}
    /\ rl_pc \in [RlThreads ->
           {"acquire", "decide", "asleep", "count", "send", "backoff", "returned", "raised"}]
    /\ rl_time \in [RlThreads -> Nat]
    /\ rl_attempt \in [RlThreads -> 1 .. RlAttempts]
    /\ rl_granted \in [RlTicks -> Nat] /\ rl_sent \in [RlTicks -> Nat]

RateLimitsInit ==
    /\ rl_clock = 0 /\ rl_started = 0 /\ rl_count = 0 /\ rl_owner = RlNobody
    /\ rl_pc = [t \in RlThreads |-> "acquire"]
    /\ rl_time = [t \in RlThreads |-> 0]
    /\ rl_attempt = [t \in RlThreads |-> 1]
    /\ rl_granted = [k \in RlTicks |-> 0] /\ rl_sent = [k \in RlTicks |-> 0]

RlGo(t, step) == rl_pc' = [rl_pc EXCEPT ![t] = step]

-----------------------------------------------------------------------------
(* acquire *)

LockLimiter(t) ==
    /\ rl_pc[t] = "acquire" /\ rl_owner = RlNobody
    /\ rl_owner' = t /\ rl_time' = [rl_time EXCEPT ![t] = rl_clock] /\ RlGo(t, "decide")
    /\ UNCHANGED <<rl_clock, rl_started, rl_count, rl_attempt, rl_granted, rl_sent>>

\* The window is renewed with the clock as it was read, which may be late by now.
WindowOver(t) == rl_time[t] - rl_started >= RlWindow

\* sleep() is given what was left of the window when the clock was read.
DecideGrant(t) ==
    /\ rl_pc[t] = "decide"
    /\ LET count == IF WindowOver(t) THEN 0 ELSE rl_count
           elapsed == IF WindowOver(t) THEN 0 ELSE rl_time[t] - rl_started
       IN /\ rl_started' = IF WindowOver(t) THEN rl_time[t] ELSE rl_started
          /\ rl_count' = count
          /\ IF count >= RlLimit
             THEN rl_time' = [rl_time EXCEPT ![t] = rl_clock + RlWindow - elapsed] /\ RlGo(t, "asleep")
             ELSE RlGo(t, "count") /\ UNCHANGED rl_time
    /\ UNCHANGED <<rl_clock, rl_owner, rl_attempt, rl_granted, rl_sent>>

\* Altered: the window goes on as it was, its count forgotten.
KeepWindow(t) ==
    /\ rl_pc[t] = "asleep" /\ rl_clock >= rl_time[t]
    /\ rl_count' = 0 /\ RlGo(t, "count")
    /\ UNCHANGED <<rl_clock, rl_started, rl_owner, rl_time, rl_attempt, rl_granted, rl_sent>>
NewWindow(t) ==
    /\ rl_pc[t] = "asleep" /\ rl_clock >= rl_time[t]
    /\ rl_started' = rl_clock /\ rl_count' = 0 /\ RlGo(t, "count")
    /\ UNCHANGED <<rl_clock, rl_owner, rl_time, rl_attempt, rl_granted, rl_sent>>

CountRequest(t) ==
    /\ rl_pc[t] = "count"
    /\ rl_count' = rl_count + 1 /\ rl_owner' = RlNobody /\ RlGo(t, "send")
    /\ rl_granted' = [rl_granted EXCEPT ![rl_clock] = @ + 1]
    /\ UNCHANGED <<rl_clock, rl_started, rl_time, rl_attempt, rl_sent>>

-----------------------------------------------------------------------------
(* request *)

RlSend(t) ==
    /\ rl_pc[t] = "send"
    /\ rl_sent' = [rl_sent EXCEPT ![rl_clock] = @ + 1]
    /\ UNCHANGED <<rl_clock, rl_started, rl_count, rl_owner, rl_granted>>

\* The answer is good, or it is an error nothing retries.
SendOnce(t) ==
    /\ RlSend(t)
    /\ RlGo(t, "returned") \/ RlGo(t, "raised")
    /\ UNCHANGED <<rl_time, rl_attempt>>

\* 429, 5xx, a timeout or a fault of the network: _before_sleep honours
\* Retry-After, then comes the exponential wait.
SendTransient(t) ==
    /\ RlSend(t)
    /\ IF rl_attempt[t] < RlAttempts
       THEN \E after \in RlRetryAfters :
               rl_time' = [rl_time EXCEPT ![t] = rl_clock + after] /\ RlGo(t, "backoff")
       ELSE RlGo(t, "raised") /\ UNCHANGED rl_time
    /\ UNCHANGED rl_attempt

\* Every attempt goes through acquire again.
SendAgain(t) ==
    /\ rl_pc[t] = "backoff" /\ rl_clock >= rl_time[t]
    /\ rl_attempt' = [rl_attempt EXCEPT ![t] = @ + 1] /\ RlGo(t, "acquire")
    /\ UNCHANGED <<rl_clock, rl_started, rl_count, rl_owner, rl_time, rl_granted, rl_sent>>

\* A caller that has its answer makes another call.
NextCall(t) ==
    /\ rl_pc[t] \in {"returned", "raised"}
    /\ rl_attempt' = [rl_attempt EXCEPT ![t] = 1] /\ RlGo(t, "acquire")
    /\ UNCHANGED <<rl_clock, rl_started, rl_count, rl_owner, rl_time, rl_granted, rl_sent>>

ClockTicks ==
    /\ rl_clock < RlMaxClock
    /\ rl_clock' = rl_clock + 1
    /\ UNCHANGED <<rl_started, rl_count, rl_owner, rl_pc, rl_time, rl_attempt, rl_granted, rl_sent>>

RateLimitsNext ==
    \/ \E t \in RlThreads :
          \/ LockLimiter(t) \/ DecideGrant(t) \/ NewWindow(t) \/ CountRequest(t)
          \/ SendOnce(t) \/ SendTransient(t) \/ SendAgain(t) \/ NextCall(t)
    \/ ClockTicks

-----------------------------------------------------------------------------
(* Property *)

RlDuring(history, k) == SumFunctionOnSet(history, {j \in RlTicks : k <= j /\ j < k + RlWindow})

\* In no stretch of time as long as the window does the limiter grant more than
\* twice the limit: the windows are fixed, so two of them may meet with both
\* quotas spent at the seam, but never three, however long a thread waits between
\* reading the clock and using it.  And as a request is sent some time after its
\* grant, each thread may add one it was granted before.
QuotaKept ==
    \A k \in RlTicks :
        /\ RlDuring(rl_granted, k) <= 2 * RlLimit
        /\ RlDuring(rl_sent, k) <= 2 * RlLimit + Cardinality(RlThreads)
=============================================================================
