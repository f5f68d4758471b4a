---------------------------- MODULE TalicRuntime ----------------------------
(***************************************************************************)
(* The Talic runtime (Talic/runtime, wired by Talic/main.py): a host calls *)
(* process_events again and again with a stream of events, carrying mode   *)
(* and idempotency ledger from call to call; the process may die anywhere, *)
(* and both live in memory only.                                           *)
(*                                                                         *)
(* Events arrive in any order and any number of times.  A handler may take *)
(* effect and still raise (a lost answer), so every attempt chooses both.  *)
(* An exception that escapes process_events (validate_input, a missing     *)
(* key) ends the process, because main does not catch it: it is a Die.     *)
(***************************************************************************)
EXTENDS Integers

CONSTANTS
    Keys,           \* idempotency keys
    TypeOf,         \* the type of the event that carries each key
    MaxAttempts,    \* run_with_retry(max_attempts)
    RetryThreshold, \* update_state_for_error(retry_threshold)
    MaxIterations,  \* process_events(max_iterations)
    MaxCalls,       \* bound: calls of process_events in one behaviour
    MaxStarts,      \* bound: processes in one behaviour
    NoEvent

ASSUME TalicAssumption ==
    /\ TypeOf \in [Keys -> {"mutation", "external_call", "other"}]
    /\ MaxAttempts \in Nat \ {0}
    /\ {RetryThreshold, MaxIterations, MaxCalls, MaxStarts} \subseteq Nat
    /\ NoEvent \notin Keys

VARIABLES
    mode,               \* the mode process_events works in and returns
    ledger,             \* keys with an entry in OperationLedger
    transient_failures, \* consecutive TransientErrors of this call
    iteration,          \* events this call has taken from the stream
    event,              \* key of the event being processed
    attempt,            \* attempt of run_with_retry
    calls,              \* calls of process_events, of all processes
    pc,
    effects,            \* times each event really took effect outside
    failures,           \* attempts for each event that did not return a result
    starts              \* processes started

talic_vars ==
    <<mode, ledger, transient_failures, iteration, event, attempt, calls, pc, effects, failures, starts>>

Modes == {"NORMAL", "RETRYING", "READ_ONLY", "IDLE_SAFE"}
Errors == {"transient", "permanent", "internal", "unexpected"}

TalicTypeOK ==
    /\ mode \in Modes
    /\ ledger \subseteq Keys
    /\ transient_failures \in 0 .. MaxIterations
    /\ iteration \in 0 .. MaxIterations
    /\ event \in Keys \cup {NoEvent}
    /\ attempt \in 1 .. MaxAttempts
    /\ calls \in 0 .. MaxCalls
    /\ pc \in {"down", "idle", "loop", "mutate", "call", "record", "refused"}
    /\ effects \in [Keys -> Nat]
    /\ failures \in [Keys -> Nat]
    /\ starts \in 0 .. MaxStarts
    /\ event # NoEvent <=> pc \in {"mutate", "call", "record"}

TalicInit ==
    /\ mode = "NORMAL" /\ ledger = {}
    /\ transient_failures = 0 /\ iteration = 0
    /\ event = NoEvent /\ attempt = 1
    /\ calls = 0 /\ pc = "down"
    /\ effects = [k \in Keys |-> 0] /\ failures = [k \in Keys |-> 0]
    /\ starts = 0

-----------------------------------------------------------------------------
(* Modes and degradation *)

AllowedTransitions ==
    [NORMAL    |-> {"RETRYING", "READ_ONLY", "IDLE_SAFE"},
     RETRYING  |-> {"NORMAL", "READ_ONLY", "IDLE_SAFE"},
     READ_ONLY |-> {"NORMAL", "IDLE_SAFE"},
     IDLE_SAFE |-> {"NORMAL"}]

TransitionAllowed(from, to) == from = to \/ to \in AllowedTransitions[from]

\* Altered: repeated failures are counted before the exhausted retries.
TargetCountingFirst(err, count, exhausted) ==
    IF err \in {"internal", "permanent"} THEN "IDLE_SAFE"
    ELSE IF err = "transient" /\ count >= RetryThreshold THEN "RETRYING"
    ELSE IF err = "transient" /\ exhausted THEN "READ_ONLY"
    ELSE mode

\* The mode update_state_for_error asks for.
Target(err, count, exhausted) ==
    IF err \in {"internal", "permanent"} THEN "IDLE_SAFE"
    ELSE IF err = "transient" /\ exhausted THEN "READ_ONLY"
    ELSE IF err = "transient" /\ count >= RetryThreshold THEN "RETRYING"
    ELSE mode

\* The except block: the loop goes on, unless transition_to refuses the mode.
HandleError(err) ==
    LET transient == err = "transient"
        count == transient_failures + IF transient THEN 1 ELSE 0
        target == Target(err, count, transient)
    IN /\ transient_failures' = count
       /\ IF TransitionAllowed(mode, target)
          THEN mode' = target /\ pc' = "loop"
          ELSE UNCHANGED mode /\ pc' = "refused"
       /\ event' = NoEvent
       /\ attempt' = 1

-----------------------------------------------------------------------------
(* The loop *)

\* Altered: a call made while retrying may mutate.
MutationAllowedUnlessSafe == mode # "IDLE_SAFE"
MutationAllowed == mode = "NORMAL"

\* The next event of the stream carries k.
Take(k) ==
    /\ pc = "loop"
    /\ iteration < MaxIterations
    /\ iteration' = iteration + 1

\* Altered: only mutations are looked up in the ledger.
RecordedMutation(k) == k \in ledger /\ TypeOf[k] = "mutation"
Recorded(k) == k \in ledger

Replay(k) ==
    /\ Take(k)
    /\ Recorded(k)
    /\ UNCHANGED <<mode, ledger, transient_failures, event, attempt, calls, pc,
                   effects, failures, starts>>

Refuse(k) ==
    /\ Take(k)
    /\ ~Recorded(k)
    /\ \/ TypeOf[k] = "external_call" /\ mode = "IDLE_SAFE" /\ HandleError("internal")
       \/ TypeOf[k] = "mutation" /\ ~MutationAllowed /\ HandleError("permanent")
    /\ UNCHANGED <<ledger, calls, effects, failures, starts>>

Begin(k) ==
    /\ Take(k)
    /\ ~Recorded(k)
    /\ event' = k
    /\ \/ TypeOf[k] = "mutation" /\ MutationAllowed /\ pc' = "mutate"
       \/ TypeOf[k] = "external_call" /\ mode # "IDLE_SAFE" /\ pc' = "call"
       \/ TypeOf[k] = "other" /\ pc' = "record"
    /\ UNCHANGED <<mode, ledger, transient_failures, attempt, calls, effects, failures, starts>>

\* What one attempt of a handler does outside; a result means it took effect.
Effect(happened) == effects' = [effects EXCEPT ![event] = @ + IF happened THEN 1 ELSE 0]
Failed == failures' = [failures EXCEPT ![event] = @ + 1]

HandlerReturns ==
    /\ pc \in {"mutate", "call"}
    /\ Effect(TRUE)
    /\ pc' = "record"
    /\ attempt' = 1
    /\ UNCHANGED <<mode, ledger, transient_failures, iteration, event, calls,
                   failures, starts>>

\* Altered: one attempt too many.
MayRetryOnceMore(err) == pc = "call" /\ err = "transient" /\ attempt <= MaxAttempts

\* run_with_retry retries external calls, on TransientError only.
MayRetry(err) == pc = "call" /\ err = "transient" /\ attempt < MaxAttempts

Retry(happened) ==
    /\ MayRetry("transient")
    /\ Effect(happened)
    /\ Failed
    /\ attempt' = attempt + 1
    /\ UNCHANGED <<mode, ledger, transient_failures, iteration, event, calls, pc, starts>>

\* The handler raises, or an external response does not pass
\* validate_external_response (an "unexpected" error).
HandlerFails(err, happened) ==
    /\ pc \in {"mutate", "call"}
    /\ ~MayRetry(err)
    /\ Effect(happened)
    /\ Failed
    /\ HandleError(err)
    /\ UNCHANGED <<ledger, iteration, calls, starts>>

Record ==
    /\ pc = "record"
    /\ ledger' = ledger \cup {event}
    /\ transient_failures' = 0
    /\ event' = NoEvent
    /\ pc' = "loop"
    /\ UNCHANGED <<mode, iteration, attempt, calls, effects, failures, starts>>

\* The stream is exhausted, or max_iterations events were taken: the event at
\* that position is consumed and dropped.
Return ==
    /\ pc = "loop"
    /\ pc' = "idle"
    /\ transient_failures' = 0 /\ iteration' = 0
    /\ UNCHANGED <<mode, ledger, event, attempt, calls, effects, failures, starts>>

-----------------------------------------------------------------------------
(* The host *)

Call ==
    /\ pc = "idle"
    /\ calls < MaxCalls
    /\ calls' = calls + 1
    /\ pc' = "loop"
    /\ UNCHANGED <<mode, ledger, transient_failures, iteration, event, attempt,
                   effects, failures, starts>>

\* apply_recovery, between two calls.
ApplyRecovery ==
    /\ pc = "idle"
    /\ TransitionAllowed(mode, "NORMAL")
    /\ mode' = "NORMAL"
    /\ UNCHANGED <<ledger, transient_failures, iteration, event, attempt, calls, pc,
                   effects, failures, starts>>

\* main builds an empty ledger and takes the mode from --mode.
Start(m) ==
    /\ pc = "down"
    /\ starts < MaxStarts
    /\ starts' = starts + 1
    /\ mode' = m
    /\ pc' = "idle"
    /\ UNCHANGED <<ledger, transient_failures, iteration, event, attempt, calls,
                   effects, failures>>

\* Only what happened outside survives.
Die ==
    /\ pc # "down"
    /\ pc' = "down"
    /\ ledger' = {}
    /\ transient_failures' = 0 /\ iteration' = 0
    /\ event' = NoEvent /\ attempt' = 1
    /\ UNCHANGED <<mode, calls, effects, failures, starts>>

ProcessStep ==
    \/ \E k \in Keys : Replay(k) \/ Refuse(k) \/ Begin(k)
    \/ HandlerReturns
    \/ \E happened \in BOOLEAN :
          \/ Retry(happened)
          \/ \E err \in Errors : HandlerFails(err, happened)
    \/ Record
    \/ Return

TalicNext ==
    \/ ProcessStep
    \/ Call
    \/ ApplyRecovery
    \/ \E m \in Modes : Start(m)
    \/ Die

TalicSpec == TalicInit /\ [][TalicNext]_talic_vars

-----------------------------------------------------------------------------
(* What the runtime promises *)

\* The except block never asks for a forbidden transition, which would raise out
\* of process_events: "safe degradation instead of hard crashes".
NeverRefused == pc # "refused"

\* Until the operator acts (apply_recovery, or --mode at a start), a degraded
\* runtime stays degraded and mutates nothing.
DegradedUntilRecovered ==
    [][mode # "NORMAL" =>
          /\ mode' = "NORMAL" => pc \in {"idle", "down"}
          /\ \A k \in Keys : TypeOf[k] = "mutation" => effects'[k] = effects[k]]_talic_vars

\* An event takes effect twice only for a reason outside the runtime: an attempt
\* that did not return its result, or another process with an empty ledger.
\* Redelivery alone never repeats an effect.
RepeatsExplained ==
    \A k \in Keys : effects[k] <= failures[k] + starts
=============================================================================
