------------------------- MODULE TalicRuntimeProofs -------------------------
(***************************************************************************)
(* Theorems about the Talic runtime, for every set of keys, every stream   *)
(* of events and every limit.                                              *)
(*                                                                         *)
(* Two facts make the promises inductive.  In IDLE_SAFE no handler runs,   *)
(* so no error but "internal" and "permanent" can arise there; and an      *)
(* event that is neither recorded nor about to be has used up no effect of *)
(* the present process that a failed attempt does not explain.             *)
(***************************************************************************)
EXTENDS TalicRuntime, TLAPS

Handling == pc \in {"mutate", "call"}

Settled(k) == k \in ledger \/ (pc = "record" /\ event = k)

\* The starts that may explain an effect of k: the present process counts only
\* once it has k's result.
Explaining(k) == IF pc = "down" \/ Settled(k) THEN starts ELSE starts - 1

TalicHolds ==
    /\ TalicTypeOK
    /\ NeverRefused
    /\ pc = "mutate" => mode = "NORMAL" /\ TypeOf[event] = "mutation"
    /\ pc = "call" => mode # "IDLE_SAFE" /\ TypeOf[event] = "external_call"
    /\ pc = "down" => ledger = {}
    /\ pc # "down" => starts > 0
    /\ Handling => event \notin ledger /\ transient_failures < iteration
    /\ transient_failures <= iteration
    /\ \A k \in Keys : effects[k] <= failures[k] + Explaining(k)

-----------------------------------------------------------------------------
LEMMA TalicBegins == TalicInit => TalicHolds
BY TalicAssumption DEF TalicInit, TalicHolds, TalicTypeOK, NeverRefused, Modes, Handling, Explaining, Settled,
   TalicAssumption

\* An error never asks for a mode that transition_to refuses, since transient
\* and unexpected errors come from handlers and none runs in IDLE_SAFE.
LEMMA TargetAllowed ==
    ASSUME TalicTypeOK, NEW err \in Errors, NEW count,
           mode = "IDLE_SAFE" => err \in {"internal", "permanent"}
    PROVE  /\ Target(err, count, err = "transient") \in (Modes \ {"NORMAL"}) \cup {mode}
           /\ TransitionAllowed(mode, Target(err, count, err = "transient"))
<1> DEFINE target == Target(err, count, err = "transient")
<1>1. target = IF err \in {"internal", "permanent"} THEN "IDLE_SAFE"
               ELSE IF err = "transient" THEN "READ_ONLY" ELSE mode
  BY DEF Target
<1> HIDE DEF target
<1>2. mode \in {"NORMAL", "RETRYING", "READ_ONLY", "IDLE_SAFE"}
  BY DEF TalicTypeOK, Modes
<1>3. target \in (Modes \ {"NORMAL"}) \cup {mode}
  BY <1>1 DEF Modes
<1>4. TransitionAllowed(mode, target)
  <2>1. CASE target = "IDLE_SAFE"
    BY <1>2, <2>1 DEF TransitionAllowed, AllowedTransitions
  <2>2. CASE target = "READ_ONLY" /\ mode # "IDLE_SAFE"
    BY <1>2, <2>2 DEF TransitionAllowed, AllowedTransitions
  <2>3. CASE target = mode
    BY <2>3 DEF TransitionAllowed
  <2> QED BY <1>1, <2>1, <2>2, <2>3
<1> QED BY <1>3, <1>4 DEF target

LEMMA HandleErrorStep ==
    ASSUME TalicTypeOK, NEW err \in Errors, HandleError(err),
           mode = "IDLE_SAFE" => err \in {"internal", "permanent"}
    PROVE  /\ pc' = "loop"
           /\ mode' \in Modes
           /\ mode' = "NORMAL" => mode = "NORMAL"
           /\ event' = NoEvent
           /\ attempt' = 1
           /\ transient_failures' =
                 transient_failures + (IF err = "transient" THEN 1 ELSE 0)
<1> DEFINE count == transient_failures + IF err = "transient" THEN 1 ELSE 0
           target == Target(err, count, err = "transient")
<1>1. target \in (Modes \ {"NORMAL"}) \cup {mode} /\ TransitionAllowed(mode, target)
  BY TargetAllowed
<1>2. /\ transient_failures' = count
      /\ mode' = target /\ pc' = "loop"
      /\ event' = NoEvent /\ attempt' = 1
  BY <1>1 DEF HandleError
<1> HIDE DEF target
<1> QED BY <1>1, <1>2 DEF TalicTypeOK

\* What one attempt outside adds to the counters.
LEMMA EffectStep ==
    ASSUME TalicTypeOK, event \in Keys, NEW happened \in BOOLEAN, Effect(happened)
    PROVE  /\ effects' \in [Keys -> Nat]
           /\ effects'[event] <= effects[event] + 1
           /\ \A k \in Keys \ {event} : effects'[k] = effects[k]
BY DEF TalicTypeOK, Effect

LEMMA FailedStep ==
    ASSUME TalicTypeOK, event \in Keys, Failed
    PROVE  /\ failures' \in [Keys -> Nat]
           /\ failures'[event] = failures[event] + 1
           /\ \A k \in Keys \ {event} : failures'[k] = failures[k]
BY DEF TalicTypeOK, Failed

-----------------------------------------------------------------------------
LEMMA TalicStep == TalicHolds /\ [TalicNext]_talic_vars => TalicHolds'
<1> SUFFICES ASSUME TalicHolds, [TalicNext]_talic_vars PROVE TalicHolds'
  OBVIOUS
<1> USE TalicAssumption DEF TalicAssumption
<1>1. ASSUME NEW k \in Keys, Replay(k) PROVE TalicHolds'
  BY <1>1 DEF TalicHolds, TalicTypeOK, NeverRefused, Handling, Explaining, Settled, Replay, Take
<1>2. ASSUME NEW k \in Keys, Refuse(k) PROVE TalicHolds'
  <2>1. PICK err \in {"internal", "permanent"} : HandleError(err)
    BY <1>2 DEF Refuse
  <2>2. /\ pc' = "loop" /\ mode' \in Modes
        /\ event' = NoEvent /\ attempt' = 1 /\ transient_failures' = transient_failures
    BY <2>1, HandleErrorStep DEF TalicHolds, TalicTypeOK, Errors
  <2> QED BY <1>2, <2>2 DEF TalicHolds, TalicTypeOK, NeverRefused, Handling, Explaining, Settled, Refuse, Take
<1>3. ASSUME NEW k \in Keys, Begin(k) PROVE TalicHolds'
  BY <1>3 DEF TalicHolds, TalicTypeOK, NeverRefused, Handling, Explaining, Settled, Begin, Take,
              Recorded, MutationAllowed
<1>4. CASE HandlerReturns
  <2>1. event \in Keys /\ ~Settled(event)
    BY <1>4 DEF TalicHolds, TalicTypeOK, Handling, HandlerReturns, Settled
  <2>2. /\ effects' \in [Keys -> Nat]
        /\ effects'[event] <= effects[event] + 1
        /\ \A k \in Keys \ {event} : effects'[k] = effects[k]
    BY <1>4, <2>1, EffectStep DEF TalicHolds, HandlerReturns
  <2>3. ASSUME NEW k \in Keys PROVE effects'[k] <= failures'[k] + Explaining(k)'
    <3>1. /\ effects[k] \in Nat /\ effects'[k] \in Nat /\ failures[k] \in Nat
          /\ starts \in Nat /\ effects[k] <= failures[k] + Explaining(k)
      BY <2>2 DEF TalicHolds, TalicTypeOK
    <3>2. UNCHANGED <<failures, starts, ledger, event>> /\ pc' = "record" /\ pc # "down"
      BY <1>4 DEF HandlerReturns
    <3>3. CASE k = event
      BY <2>1, <2>2, <3>1, <3>2, <3>3 DEF Explaining, Settled
    <3>4. CASE k # event
      BY <1>4, <2>2, <3>1, <3>2, <3>4 DEF Explaining, Settled, HandlerReturns
    <3> QED BY <3>3, <3>4
  <2> QED BY <1>4, <2>1, <2>2, <2>3
          DEF TalicHolds, TalicTypeOK, NeverRefused, Handling, HandlerReturns
<1>5. ASSUME NEW happened \in BOOLEAN, Retry(happened) PROVE TalicHolds'
  <2>1. event \in Keys /\ pc = "call"
    BY <1>5 DEF TalicHolds, TalicTypeOK, Retry, MayRetry
  <2> QED BY <1>5, <2>1, EffectStep, FailedStep
          DEF TalicHolds, TalicTypeOK, NeverRefused, Handling, Explaining, Settled, Retry, MayRetry
<1>6. ASSUME NEW happened \in BOOLEAN, NEW err \in Errors, HandlerFails(err, happened)
      PROVE  TalicHolds'
  <2>1. event \in Keys /\ mode # "IDLE_SAFE" /\ Handling /\ pc # "down"
    BY <1>6 DEF TalicHolds, TalicTypeOK, HandlerFails, Handling
  <2>2. /\ pc' = "loop" /\ mode' \in Modes /\ event' = NoEvent /\ attempt' = 1
        /\ transient_failures' = transient_failures + (IF err = "transient" THEN 1 ELSE 0)
    BY <1>6, <2>1, HandleErrorStep DEF TalicHolds, HandlerFails
  <2> QED BY <1>6, <2>1, <2>2, EffectStep, FailedStep
          DEF TalicHolds, TalicTypeOK, NeverRefused, Handling, Explaining, Settled, HandlerFails
<1>7. CASE Record
  BY <1>7 DEF TalicHolds, TalicTypeOK, NeverRefused, Handling, Explaining, Settled, Record
<1>8. CASE Return \/ Call \/ ApplyRecovery
  BY <1>8 DEF TalicHolds, TalicTypeOK, NeverRefused, Handling, Explaining, Settled, Modes, Return, Call,
              ApplyRecovery
<1>9. ASSUME NEW m \in Modes, Start(m) PROVE TalicHolds'
  BY <1>9 DEF TalicHolds, TalicTypeOK, NeverRefused, Handling, Explaining, Settled, Start
<1>10. CASE Die
  BY <1>10 DEF TalicHolds, TalicTypeOK, NeverRefused, Handling, Explaining, Settled, Die
<1>11. CASE UNCHANGED talic_vars
  BY <1>11 DEF TalicHolds, TalicTypeOK, NeverRefused, Handling, Explaining, Settled, talic_vars
<1> QED BY <1>1, <1>2, <1>3, <1>4, <1>5, <1>6, <1>7, <1>8, <1>9, <1>10, <1>11
        DEF TalicNext, ProcessStep

LEMMA Invariance == TalicSpec => []TalicHolds
<1> QED BY TalicBegins, TalicStep, PTL DEF TalicSpec

\* Every variable of the runtime keeps its type: in particular no call takes more
\* than max_iterations events and no retry more than max_attempts attempts.
THEOREM TalicTypes == TalicSpec => []TalicTypeOK
<1>1. TalicHolds => TalicTypeOK
  BY DEF TalicHolds
<1> QED BY <1>1, Invariance, PTL

\* process_events never dies of its own error handling: update_state_for_error
\* asks transition_to only for modes it accepts.
THEOREM DegradationIsSafe == TalicSpec => []NeverRefused
<1>1. TalicHolds => NeverRefused
  BY DEF TalicHolds
<1> QED BY <1>1, Invariance, PTL

\* The ledger's promise, with what it cannot promise: an effect is repeated only
\* after an attempt without a result or by another process.
THEOREM EffectsExplained == TalicSpec => []RepeatsExplained
<1>1. ASSUME TalicHolds, NEW k \in Keys PROVE effects[k] <= failures[k] + starts
  <2>1. effects[k] \in Nat /\ failures[k] \in Nat /\ starts \in Nat
    BY <1>1, TalicAssumption DEF TalicHolds, TalicTypeOK, TalicAssumption
  <2>2. effects[k] <= failures[k] + starts \/ effects[k] <= failures[k] + (starts - 1)
    BY <1>1 DEF TalicHolds, Explaining
  <2> QED BY <2>1, <2>2
<1>2. TalicHolds => RepeatsExplained
  BY <1>1 DEF RepeatsExplained
<1> QED BY <1>2, Invariance, PTL

\* No handler mutates anything between a degrading error and the operator's
\* recovery, and nothing else ends the degradation.
THEOREM GateHolds == TalicSpec => DegradedUntilRecovered
<1> DEFINE A == mode # "NORMAL" =>
                   /\ mode' = "NORMAL" => pc \in {"idle", "down"}
                   /\ \A k \in Keys : TypeOf[k] = "mutation" => effects'[k] = effects[k]
<1>1. ASSUME TalicHolds, [TalicNext]_talic_vars PROVE [A]_talic_vars
  <2> SUFFICES ASSUME mode # "NORMAL", TalicNext PROVE A
    BY <1>1
  <2>1. ASSUME NEW k \in Keys, Replay(k) \/ Refuse(k) \/ Begin(k) PROVE A
    <3>1. CASE Refuse(k)
      <4>1. PICK err \in {"internal", "permanent"} : HandleError(err)
        BY <3>1 DEF Refuse
      <4> QED BY <1>1, <3>1, <4>1, HandleErrorStep DEF TalicHolds, Errors, Refuse
    <3> QED BY <2>1, <3>1 DEF Replay, Begin
  <2>2. ASSUME HandlerReturns \/ \E happened \in BOOLEAN : Retry(happened) PROVE A
    BY <1>1, <2>2, EffectStep
       DEF TalicHolds, TalicTypeOK, HandlerReturns, Retry, MayRetry
  <2>3. ASSUME NEW happened \in BOOLEAN, NEW err \in Errors, HandlerFails(err, happened)
        PROVE  A
    <3>1. event \in Keys /\ mode # "IDLE_SAFE" /\ TypeOf[event] # "mutation"
      BY <1>1, <2>3 DEF TalicHolds, TalicTypeOK, HandlerFails
    <3> QED BY <1>1, <2>3, <3>1, HandleErrorStep, EffectStep DEF TalicHolds, HandlerFails
  <2>4. CASE Record \/ Return \/ Call \/ ApplyRecovery \/ Die
    BY <2>4 DEF Record, Return, Call, ApplyRecovery, Die
  <2>5. ASSUME NEW m \in Modes, Start(m) PROVE A
    BY <2>5 DEF Start
  <2> QED BY <2>1, <2>2, <2>3, <2>4, <2>5 DEF TalicNext, ProcessStep
<1> QED BY <1>1, Invariance, PTL DEF TalicSpec, DegradedUntilRecovered
=============================================================================
