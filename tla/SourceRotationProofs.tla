------------------------ MODULE SourceRotationProofs ------------------------
(***************************************************************************)
(* Theorems about the order-book cache and its rotation, for any number of *)
(* sources and any length of the window, the iteration and the sleep.      *)
(*                                                                         *)
(* A mid that is known stays known, whichever thread writes next, so what  *)
(* a scan has left behind stays complete; and both threads write a side    *)
(* and the timestamp under one lock.                                       *)
(***************************************************************************)
EXTENDS SourceRotation, FiniteSetTheorems, TLAPS

\* Behind the scan, also while it is inside a call.
Scanning == caller = "refresh_cache" /\ (pc = "scan" \/ InCall)

BehindIsComplete ==
    Scanning => \A i \in 1 .. index - 1 : i <= Len(sources) => BothMidsKnown(sources[i])

ScanInBounds == Scanning => index <= Len(sources) + 1

IInv ==
    /\ TypeOK
    /\ TimestampIsNewest
    /\ TickIsComplete
    /\ ScanInBounds
    /\ BehindIsComplete

-----------------------------------------------------------------------------
LEMMA SizeIsNat == Cardinality(Sources) \in Nat
BY RotationAssumption, FS_CardinalityType DEF RotationAssumption

\* Dropping a source keeps the others, in their order.
LEMMA WithoutProperties ==
    ASSUME NEW pool \in Seq(Sources), IsInjective(pool), NEW i \in 1 .. Len(pool)
    PROVE  /\ Without(pool, i) \in Seq(Sources)
           /\ Len(Without(pool, i)) = Len(pool) - 1
           /\ IsInjective(Without(pool, i))
           /\ \A j \in 1 .. i - 1 : j <= Len(pool) - 1 => Without(pool, i)[j] = pool[j]
<1> DEFINE rest == Without(pool, i)
<1>1. Len(pool) - 1 \in Nat
  OBVIOUS
<1>2. \A j \in 1 .. Len(pool) - 1 : (IF j < i THEN pool[j] ELSE pool[j + 1]) \in Sources
  OBVIOUS
<1>3. rest \in [1 .. Len(pool) - 1 -> Sources]
  BY <1>2 DEF Without
<1>4. rest \in Seq(Sources) /\ Len(rest) = Len(pool) - 1 /\ DOMAIN rest = 1 .. Len(pool) - 1
  BY <1>1, <1>3
<1>5. ASSUME NEW a \in DOMAIN rest, NEW b \in DOMAIN rest, rest[a] = rest[b]
      PROVE  a = b
  <2> DEFINE at(j) == IF j < i THEN j ELSE j + 1
  <2>1. at(a) \in DOMAIN pool /\ at(b) \in DOMAIN pool
    BY <1>4
  <2>2. rest[a] = pool[at(a)] /\ rest[b] = pool[at(b)]
    BY <1>4 DEF Without
  <2>3. at(a) = at(b)
    BY <1>5, <2>1, <2>2 DEF IsInjective
  <2> QED BY <1>4, <2>3
<1>6. \A j \in 1 .. i - 1 : j <= Len(pool) - 1 => rest[j] = pool[j]
  BY DEF Without
<1> QED BY <1>4, <1>5, <1>6 DEF IsInjective

LEMMA InitInv == Init => IInv
<1> SUFFICES ASSUME Init PROVE IInv
  OBVIOUS
<1> USE SizeIsNat
<1>1. sources \in Seq(Sources) /\ Len(sources) = Cardinality(Sources) /\ IsInjective(sources)
  BY DEF Init
<1>2. TypeOK
  BY <1>1, RotationAssumption, FreshForAssumption
     DEF Init, SourceInit, TypeOK, SourceTypeOK, Ages, Sides, Unknown, InCall, Outcomes,
         RotationAssumption, FreshForAssumption
<1>3. TimestampIsNewest
  <2>1. \A s \in Sources, side \in Sides : latest_mid[s][side] = Unknown
    BY DEF Init, SourceInit
  <2>2. \A s \in Sources : ~IsFresh(s)
    <3>1. last_refresh = [s \in Sources |-> FreshFor]
      BY DEF Init, SourceInit
    <3>2. \A s \in Sources : last_refresh[s] = FreshFor
      BY <3>1
    <3>3. ~(FreshFor < FreshFor)
      BY FreshForAssumption DEF FreshForAssumption
    <3> QED BY <3>2, <3>3 DEF IsFresh
  <2>3. "yes" \in Sides
    BY DEF Sides
  <2> QED BY <2>1, <2>2, <2>3 DEF TimestampIsNewest
<1>4. TickIsComplete /\ ScanInBounds /\ BehindIsComplete
  BY DEF Init, TickIsComplete, ScanInBounds, BehindIsComplete, Scanning
<1> QED BY <1>2, <1>3, <1>4 DEF IInv

-----------------------------------------------------------------------------
(* What every step does to the cache *)

\* No step makes a known mid unknown.
KnownStaysKnown ==
    \A s \in Sources, side \in Sides :
        latest_mid[s][side] # Unknown => latest_mid'[s][side] # Unknown

LEMMA WsMessageStep ==
    ASSUME SourceTypeOK, TimestampIsNewest, NEW s \in Sources, NEW side \in Sides,
           ApplyWsMessage(s, side)
    PROVE  SourceTypeOK' /\ TimestampIsNewest' /\ KnownStaysKnown
<1> USE FreshForAssumption DEF FreshForAssumption, Ages, Unknown
<1>1. SourceTypeOK'
  BY DEF SourceTypeOK, ApplyWsMessage
<1>2. \A t \in Sources, d \in Sides :
         latest_mid'[t][d] = IF t = s /\ d = side THEN 0 ELSE latest_mid[t][d]
  BY DEF SourceTypeOK, ApplyWsMessage
<1>3. \A t \in Sources : last_refresh'[t] = IF t = s THEN 0 ELSE last_refresh[t]
  BY DEF SourceTypeOK, ApplyWsMessage
<1>4. TimestampIsNewest'
  <2> SUFFICES ASSUME NEW t \in Sources
               PROVE  /\ \E d \in Sides : latest_mid'[t][d] = last_refresh'[t] \/ ~IsFresh(t)'
                      /\ \A d \in Sides : latest_mid'[t][d] # Unknown =>
                             last_refresh'[t] <= latest_mid'[t][d]
    BY DEF TimestampIsNewest
  <2>1. CASE t = s
    BY <2>1, <1>2, <1>3 DEF SourceTypeOK
  <2>2. CASE t # s
    BY <2>2, <1>2, <1>3 DEF TimestampIsNewest, IsFresh
  <2> QED BY <2>1, <2>2
<1>5. KnownStaysKnown
  BY <1>2 DEF KnownStaysKnown
<1> QED BY <1>1, <1>4, <1>5

LEMMA StoreMidsStep ==
    ASSUME SourceTypeOK, TimestampIsNewest, NEW s \in Sources, StoreMids(s)
    PROVE  SourceTypeOK' /\ TimestampIsNewest' /\ KnownStaysKnown /\ BothMidsKnown(s)'
<1> USE FreshForAssumption DEF FreshForAssumption, Ages, Unknown
<1>1. SourceTypeOK'
  BY DEF SourceTypeOK, StoreMids
<1>2. \A t \in Sources, d \in Sides :
         latest_mid'[t][d] = IF t = s THEN 0 ELSE latest_mid[t][d]
  BY DEF SourceTypeOK, StoreMids
<1>3. \A t \in Sources : last_refresh'[t] = IF t = s THEN 0 ELSE last_refresh[t]
  BY DEF SourceTypeOK, StoreMids
<1>4. TimestampIsNewest'
  <2> SUFFICES ASSUME NEW t \in Sources
               PROVE  /\ \E d \in Sides : latest_mid'[t][d] = last_refresh'[t] \/ ~IsFresh(t)'
                      /\ \A d \in Sides : latest_mid'[t][d] # Unknown =>
                             last_refresh'[t] <= latest_mid'[t][d]
    BY DEF TimestampIsNewest
  <2>1. CASE t = s
    BY <2>1, <1>2, <1>3 DEF Sides
  <2>2. CASE t # s
    BY <2>2, <1>2, <1>3 DEF TimestampIsNewest, IsFresh
  <2> QED BY <2>1, <2>2
<1>5. KnownStaysKnown /\ BothMidsKnown(s)'
  BY <1>2 DEF KnownStaysKnown, BothMidsKnown
<1> QED BY <1>1, <1>4, <1>5

LEMMA TimePassesStep ==
    ASSUME SourceTypeOK, TimestampIsNewest, TimePasses
    PROVE  SourceTypeOK' /\ TimestampIsNewest' /\ KnownStaysKnown
<1> USE FreshForAssumption DEF FreshForAssumption, Ages, Unknown
<1>1. \A t \in Sources, d \in Sides : latest_mid'[t][d] = Older(latest_mid[t][d])
  BY DEF TimePasses
<1>2. \A t \in Sources : last_refresh'[t] = Older(last_refresh[t])
  BY DEF TimePasses
<1>3. \A a \in Ages : Older(a) \in Ages /\ Older(a) # Unknown
  BY DEF Older
<1>4. Older(Unknown) = Unknown
  BY DEF Older
<1>5. \A a, b \in Ages : /\ a <= b => Older(a) <= Older(b)
                         /\ a >= FreshFor => Older(a) >= FreshFor
  BY DEF Older
<1>6. SourceTypeOK'
  BY <1>3, <1>4 DEF SourceTypeOK, TimePasses
<1>7. TimestampIsNewest'
  <2> SUFFICES ASSUME NEW t \in Sources
               PROVE  /\ \E d \in Sides : latest_mid'[t][d] = last_refresh'[t] \/ ~IsFresh(t)'
                      /\ \A d \in Sides : latest_mid'[t][d] # Unknown =>
                             last_refresh'[t] <= latest_mid'[t][d]
    BY DEF TimestampIsNewest
  <2>1. last_refresh[t] \in Ages /\ \A d \in Sides : latest_mid[t][d] \in Ages \cup {Unknown}
    BY DEF SourceTypeOK
  <2>2. \A d \in Sides : latest_mid[t][d] = last_refresh[t] => latest_mid'[t][d] = last_refresh'[t]
    BY <1>1, <1>2
  <2>3. ~IsFresh(t) => ~IsFresh(t)'
    BY <1>2, <1>3, <1>5, <2>1 DEF IsFresh
  <2>4. \A d \in Sides : latest_mid'[t][d] # Unknown => last_refresh'[t] <= latest_mid'[t][d]
    BY <1>1, <1>2, <1>4, <1>5, <2>1 DEF TimestampIsNewest
  <2> QED BY <2>2, <2>3, <2>4 DEF TimestampIsNewest
<1>8. KnownStaysKnown
  BY <1>1, <1>3 DEF KnownStaysKnown, SourceTypeOK
<1> QED BY <1>6, <1>7, <1>8

LEMMA CacheUntouched ==
    ASSUME SourceTypeOK, TimestampIsNewest, UNCHANGED cache_vars
    PROVE  TimestampIsNewest' /\ KnownStaysKnown
BY DEF cache_vars, TimestampIsNewest, KnownStaysKnown, IsFresh

-----------------------------------------------------------------------------
(* Control *)

\* A step that leaves the main thread where it is.
LEMMA WorldInv ==
    ASSUME IInv, SourceTypeOK', TimestampIsNewest', KnownStaysKnown,
           UNCHANGED <<pc, rotation_vars>>
    PROVE  IInv'
<1> USE DEF IInv, rotation_vars
<1>1. TypeOK'
  BY DEF TypeOK, InCall
<1>2. \A s \in Sources : BothMidsKnown(s) => BothMidsKnown(s)'
  BY DEF KnownStaysKnown, BothMidsKnown
<1>3. \A i \in 1 .. Len(sources) : sources[i] \in Sources
  BY DEF TypeOK
<1>4. TickIsComplete'
  <2>1. pc = "refreshed" => index \in 1 .. Len(sources)
    BY SizeIsNat DEF TypeOK, InCall, Outcomes
  <2> QED BY <1>2, <1>3, <2>1 DEF TickIsComplete, BothMidsKnown
<1>5. ScanInBounds'
  BY DEF ScanInBounds, Scanning, InCall
<1>6. BehindIsComplete'
  <2> SUFFICES ASSUME Scanning', NEW i \in 1 .. index - 1, i <= Len(sources)
               PROVE  BothMidsKnown(sources[i])'
    BY DEF BehindIsComplete
  <2>1. Scanning /\ i \in 1 .. Len(sources)
    BY SizeIsNat DEF Scanning, InCall, TypeOK
  <2>2. BothMidsKnown(sources[i])
    BY <2>1 DEF BehindIsComplete
  <2> QED BY <1>2, <1>3, <2>1, <2>2 DEF BothMidsKnown
<1> QED BY <1>1, <1>4, <1>5, <1>6

\* A step of the launcher that leaves cache and pool alone: it only has to say
\* where the main thread goes.
LEMMA MoveInv ==
    ASSUME IInv, UNCHANGED <<cache_vars, streaming, fetched, missing, sources>>,
           cursor' \in Nat, index' \in 1 .. Cardinality(Sources) + 1,
           InCall' \/ pc' \in {"cycle", "sleep", "scan"},
           InCall' => index' <= Len(sources),
           caller' \in {"next_tick", "refresh_cache"},
           remaining' \in 1 .. IF caller' = "next_tick" THEN Cycles ELSE Chunks,
           pc' = "cycle" => caller' = "next_tick",
           pc' \in {"sleep", "scan"} => caller' = "refresh_cache",
           pc' = "refreshed" => BothMidsKnown(sources[index]) /\ index' = index,
           Scanning' => /\ index' <= Len(sources) + 1
                        /\ \A i \in 1 .. index' - 1 :
                               i <= Len(sources) => BothMidsKnown(sources[i])
    PROVE  IInv'
<1>1. TypeOK'
  BY DEF IInv, TypeOK, SourceTypeOK, cache_vars
<1>2. TimestampIsNewest'
  BY CacheUntouched DEF IInv, TypeOK
<1>3. \A s : BothMidsKnown(s)' <=> BothMidsKnown(s)
  BY DEF BothMidsKnown, cache_vars
<1>4. TickIsComplete'
  BY <1>3 DEF TickIsComplete, BothMidsKnown, cache_vars
<1>5. ScanInBounds' /\ BehindIsComplete'
  BY <1>3 DEF ScanInBounds, BehindIsComplete, BothMidsKnown, cache_vars
<1> QED BY <1>1, <1>2, <1>4, <1>5 DEF IInv

LEMMA LauncherInv ==
    ASSUME IInv, VisitNext \/ NoSourceLeft \/ ReturnTick \/ BeginScan \/ RefreshNext
                 \/ StepIndex \/ EndScan \/ CallFails
    PROVE  IInv'
<1> USE SizeIsNat
<1>1. /\ index \in 1 .. Cardinality(Sources) + 1 /\ cursor \in Nat
      /\ Len(sources) \in Nat /\ Len(sources) <= Cardinality(Sources)
      /\ caller \in {"next_tick", "refresh_cache"}
      /\ remaining \in 1 .. IF caller = "next_tick" THEN Cycles ELSE Chunks
      /\ InCall => index <= Len(sources)
  BY DEF IInv, TypeOK
<1>2. /\ Cycles \in Nat \ {0} /\ Chunks \in Nat \ {0} /\ CursorModulus \in Nat \ {0}
  BY RotationAssumption DEF RotationAssumption
<1>3. CASE VisitNext
  <2>1. Len(sources) > 0
    BY <1>3 DEF VisitNext, IInv, TypeOK
  <2>2. index' \in 1 .. Len(sources) /\ cursor' \in Nat
    BY <1>1, <1>2, <1>3, <2>1 DEF VisitNext, Turn
  <2>3. pc' = "refresh" /\ caller' = "next_tick" /\ InCall'
    BY <1>3 DEF VisitNext, InCall, IInv, TypeOK
  <2> QED BY <1>1, <1>3, <2>2, <2>3, MoveInv DEF VisitNext, Scanning
<1>4. CASE NoSourceLeft
  BY <1>1, <1>2, <1>4, MoveInv DEF NoSourceLeft, StartSleeping, Scanning, InCall, Outcomes
<1>5. CASE ReturnTick
  BY <1>1, <1>2, <1>5, MoveInv DEF ReturnTick, StartSleeping, Scanning, InCall, Outcomes
<1>6. CASE BeginScan
  <2>1. caller' = "refresh_cache" /\ pc' = "scan" /\ index' = 1 /\ ~InCall'
    BY <1>6 DEF BeginScan, IInv, TypeOK, InCall, Outcomes
  <2> QED BY <1>1, <1>6, <2>1, MoveInv DEF BeginScan
<1>7. CASE RefreshNext
  <2>1. Scanning /\ index <= Len(sources)
    BY <1>7 DEF RefreshNext, Scanning, IInv, TypeOK
  <2>2. \A i \in 1 .. index - 1 : i <= Len(sources) => BothMidsKnown(sources[i])
    BY <2>1 DEF IInv, BehindIsComplete
  <2> QED BY <1>1, <1>7, <2>1, <2>2, MoveInv DEF RefreshNext, InCall, rotation_vars
<1>8. CASE StepIndex
  <2>1. Scanning /\ index <= Len(sources)
    BY <1>1, <1>8 DEF StepIndex, Scanning, InCall, Outcomes
  <2>2. \A i \in 1 .. index - 1 : i <= Len(sources) => BothMidsKnown(sources[i])
    BY <2>1 DEF IInv, BehindIsComplete
  <2>3. BothMidsKnown(sources[index])
    BY <1>8 DEF StepIndex, IInv, TickIsComplete
  <2>4. \A i \in 1 .. (index + 1) - 1 : i <= Len(sources) => BothMidsKnown(sources[i])
    BY <1>1, <2>2, <2>3
  <2>5. pc' = "scan" /\ ~InCall' /\ index' = index + 1
    BY <1>8 DEF StepIndex, InCall, Outcomes
  <2> QED BY <1>1, <1>8, <2>1, <2>4, <2>5, MoveInv DEF StepIndex
<1>9. CASE EndScan
  BY <1>1, <1>2, <1>9, MoveInv
     DEF EndScan, SecondSlept, StartIteration, Scanning, InCall, Outcomes, IInv, TypeOK
<1>10. CASE CallFails
  BY <1>1, <1>2, <1>10, MoveInv
     DEF CallFails, TurnAfterError, SecondSlept, StartIteration, StartSleeping, Scanning,
         InCall, Outcomes
<1> QED BY <1>3, <1>4, <1>5, <1>6, <1>7, <1>8, <1>9, <1>10

\* The sources before index stay where they are, and the next one moves to index.
LEMMA RemoveInv == ASSUME IInv, RemoveSource PROVE IInv'
<1> USE SizeIsNat
<1> DEFINE rest == Without(sources, index)
<1>1. sources \in Seq(Sources) /\ IsInjective(sources) /\ index \in 1 .. Len(sources)
  BY DEF IInv, TypeOK, RemoveSource, InCall, Outcomes
<1>2. /\ rest \in Seq(Sources) /\ Len(rest) = Len(sources) - 1 /\ IsInjective(rest)
      /\ \A j \in 1 .. index - 1 : j <= Len(sources) - 1 => rest[j] = sources[j]
  BY <1>1, WithoutProperties
<1>3. sources' = rest /\ index' = index
  BY DEF RemoveSource, RemovedAt, ResumeAt
<1>4. cursor' \in Nat
  <2>1. CASE rest = <<>>
    BY <1>3, <2>1 DEF RemoveSource
  <2>2. CASE rest # <<>>
    <3>1. Len(rest) \in Nat \ {0} /\ cursor \in Nat
      BY <1>2, <2>2 DEF IInv, TypeOK
    <3> QED BY <1>3, <2>2, <3>1 DEF RemoveSource
  <2> QED BY <2>1, <2>2
<1>5. ~InCall' /\ pc' = IF caller = "next_tick" THEN "cycle" ELSE "scan"
  BY DEF RemoveSource, InCall, Outcomes
<1>6. TypeOK'
  BY <1>1, <1>2, <1>3, <1>4, <1>5 DEF IInv, TypeOK, SourceTypeOK, RemoveSource, cache_vars
<1>7. TimestampIsNewest'
  BY CacheUntouched DEF RemoveSource, IInv, TypeOK
<1>8. TickIsComplete'
  BY <1>5 DEF TickIsComplete
<1>9. ScanInBounds'
  BY <1>1, <1>2, <1>3 DEF ScanInBounds
<1>10. BehindIsComplete'
  <2> SUFFICES ASSUME Scanning', NEW i \in 1 .. index - 1, i <= Len(sources')
               PROVE  \A side \in Sides : latest_mid'[sources'[i]][side] # Unknown
    BY <1>3 DEF BehindIsComplete, BothMidsKnown
  <2>1. Scanning
    BY DEF Scanning, RemoveSource, InCall, Outcomes
  <2>2. BothMidsKnown(sources[i])
    BY <1>1, <2>1 DEF IInv, BehindIsComplete
  <2>3. sources'[i] = sources[i] /\ latest_mid' = latest_mid
    BY <1>1, <1>2, <1>3 DEF RemoveSource, cache_vars
  <2> QED BY <2>2, <2>3 DEF BothMidsKnown
<1> QED BY <1>6, <1>7, <1>8, <1>9, <1>10 DEF IInv

\* A step inside a call to a source.
LEMMA CallInv ==
    ASSUME IInv, InCall, InCall', UNCHANGED rotation_vars,
           SourceTypeOK', TimestampIsNewest', KnownStaysKnown,
           pc' = "refreshed" => BothMidsKnown(sources[index])'
    PROVE  IInv'
<1> USE DEF rotation_vars
<1>1. TypeOK'
  BY DEF IInv, TypeOK, InCall, Outcomes
<1>2. TickIsComplete'
  BY DEF TickIsComplete, BothMidsKnown
<1>3. ScanInBounds'
  BY DEF IInv, ScanInBounds, Scanning
<1>4. BehindIsComplete'
  <2> SUFFICES ASSUME Scanning', NEW i \in 1 .. index - 1, i <= Len(sources)
               PROVE  BothMidsKnown(sources[i])'
    BY DEF BehindIsComplete, BothMidsKnown
  <2>1. BothMidsKnown(sources[i])
    BY DEF IInv, BehindIsComplete, Scanning
  <2>2. sources[i] \in Sources
    BY SizeIsNat DEF IInv, TypeOK
  <2> QED BY <2>1, <2>2 DEF KnownStaysKnown, BothMidsKnown
<1> QED BY <1>1, <1>2, <1>3, <1>4 DEF IInv

LEMMA RefreshInv ==
    ASSUME IInv, InCall, RefreshStep(sources[index]), UNCHANGED rotation_vars
    PROVE  IInv'
<1> DEFINE s == sources[index]
<1>1. s \in Sources
  BY SizeIsNat DEF IInv, TypeOK
<1>2. SourceTypeOK /\ TimestampIsNewest
  BY DEF IInv, TypeOK
<1>3. CASE EnsureWsThread(s)
  <2>1. UNCHANGED cache_vars /\ SourceTypeOK' /\ pc' = "check"
    BY <1>1, <1>2, <1>3 DEF EnsureWsThread, SourceTypeOK, cache_vars
  <2> QED BY <1>2, <2>1, CacheUntouched, CallInv DEF InCall
<1>4. CASE ReuseCache(s)
  <2>1. UNCHANGED cache_vars /\ SourceTypeOK' /\ pc' = "refreshed"
    BY <1>2, <1>4 DEF ReuseCache, SourceTypeOK, cache_vars
  <2>2. BothMidsKnown(sources[index])'
    BY <1>4, <2>1 DEF ReuseCache, HasHotState, BothMidsKnown, cache_vars, rotation_vars
  <2> QED BY <1>2, <2>1, <2>2, CacheUntouched, CallInv DEF InCall, Outcomes
<1>5. CASE BeginFetch(s)
  <2>1. UNCHANGED cache_vars /\ SourceTypeOK' /\ pc' = "fetch"
    BY <1>2, <1>5 DEF BeginFetch, SourceTypeOK, cache_vars
  <2> QED BY <1>2, <2>1, CacheUntouched, CallInv DEF InCall
<1>6. ASSUME NEW side \in Sides, FetchMid(s, side) PROVE IInv'
  <2>1. UNCHANGED cache_vars /\ SourceTypeOK' /\ pc' = "fetch"
    BY <1>2, <1>6 DEF FetchMid, SourceTypeOK, cache_vars
  <2> QED BY <1>2, <2>1, CacheUntouched, CallInv DEF InCall
<1>7. ASSUME NEW outcome \in {"missing", "error"}, FetchFails(s, outcome) PROVE IInv'
  <2>1. UNCHANGED cache_vars /\ SourceTypeOK' /\ pc' \in {"missing", "error"}
    BY <1>2, <1>7 DEF FetchFails, SourceTypeOK, cache_vars
  <2>2. TimestampIsNewest' /\ KnownStaysKnown
    BY <1>2, <2>1, CacheUntouched
  <2>3. InCall' /\ pc' # "refreshed"
    BY <2>1 DEF InCall, Outcomes
  <2> QED BY <2>1, <2>2, <2>3, CallInv
<1>8. CASE StoreMids(s)
  <2>1. PICK t \in Sources : t = sources[index]
    BY <1>1
  <2>2. SourceTypeOK' /\ TimestampIsNewest' /\ KnownStaysKnown /\ BothMidsKnown(t)'
    BY <1>2, <1>8, <2>1, StoreMidsStep
  <2>3. BothMidsKnown(sources[index])'
    BY <2>1, <2>2 DEF BothMidsKnown, rotation_vars
  <2>4. InCall'
    BY <1>8 DEF StoreMids, InCall, Outcomes
  <2> QED BY <2>2, <2>3, <2>4, CallInv
<1> QED BY <1>3, <1>4, <1>5, <1>6, <1>7, <1>8 DEF RefreshStep

LEMMA NextInv == IInv /\ [Next]_vars => IInv'
<1> SUFFICES ASSUME IInv, [Next]_vars PROVE IInv'
  OBVIOUS
<1>1. SourceTypeOK /\ TimestampIsNewest
  BY DEF IInv, TypeOK
<1>2. CASE LauncherStep
  BY <1>2, LauncherInv, RemoveInv, RefreshInv DEF LauncherStep
<1>3. CASE WorldStep /\ UNCHANGED rotation_vars
  <2>1. ASSUME NEW s \in Sources, NEW side \in Sides, ApplyWsMessage(s, side) PROVE IInv'
    <3>1. SourceTypeOK' /\ TimestampIsNewest' /\ KnownStaysKnown
      BY <1>1, <2>1, WsMessageStep
    <3> QED BY <1>3, <2>1, <3>1, WorldInv DEF ApplyWsMessage
  <2>2. CASE TimePasses
    <3>1. SourceTypeOK' /\ TimestampIsNewest' /\ KnownStaysKnown
      BY <1>1, <2>2, TimePassesStep
    <3> QED BY <1>3, <2>2, <3>1, WorldInv DEF TimePasses
  <2>3. ASSUME NEW s \in Sources, Delist(s) PROVE IInv'
    <3>1. SourceTypeOK' /\ UNCHANGED cache_vars
      BY <1>1, <2>3 DEF Delist, SourceTypeOK, cache_vars
    <3> QED BY <1>1, <1>3, <2>3, <3>1, CacheUntouched, WorldInv DEF Delist
  <2> QED BY <1>3, <2>1, <2>2, <2>3 DEF WorldStep
<1>4. CASE UNCHANGED vars
  <2>1. SourceTypeOK' /\ UNCHANGED cache_vars
    BY <1>1, <1>4 DEF vars, source_vars, SourceTypeOK, cache_vars
  <2> QED BY <1>1, <1>4, <2>1, CacheUntouched, WorldInv DEF vars, source_vars
<1> QED BY <1>2, <1>3, <1>4 DEF Next

THEOREM Invariance == Spec => []IInv
BY InitInv, NextInv, PTL DEF Spec

-----------------------------------------------------------------------------
\* Every variable keeps to its type; in particular a call is always on a source
\* that is in the pool (no IndexError in next_tick or refresh_cache).
THEOREM TypeCorrect == Spec => []TypeOK
<1>1. IInv => TypeOK
  BY DEF IInv
<1> QED BY <1>1, Invariance, PTL

\* A source is called fresh only if a mid of its own is (bot.py _apply_ws_message
\* and refresh_cache).
THEOREM TimestampHonest == Spec => []TimestampIsNewest
<1>1. IInv => TimestampIsNewest
  BY DEF IInv
<1> QED BY <1>1, Invariance, PTL

\* When refresh_cache returns, both mids of the source are known, so next_tick
\* never quotes on a missing one.
THEOREM TicksComplete == Spec => []TickIsComplete
<1>1. IInv => TickIsComplete
  BY DEF IInv
<1> QED BY <1>1, Invariance, PTL

\* Removing sources during refresh_cache's loop skips none of the others.
THEOREM ScanComplete == Spec => []ScanSkipsNobody
<1>1. IInv => ScanSkipsNobody
  <2> SUFFICES ASSUME IInv, pc = "scan", NEW i \in 1 .. index - 1
               PROVE  BothMidsKnown(sources[i])
    BY DEF ScanSkipsNobody
  <2>1. Scanning
    BY DEF Scanning, IInv, TypeOK
  <2>2. i <= Len(sources)
    BY <2>1, SizeIsNat DEF IInv, ScanInBounds, TypeOK
  <2> QED BY <2>1, <2>2 DEF IInv, BehindIsComplete
<1> QED BY <1>1, Invariance, PTL

-----------------------------------------------------------------------------
\* The source that is about to be dropped has no book.
CulpritIsMissing == pc = "missing" => sources[index] \in missing

LEMMA CulpritStep == IInv /\ CulpritIsMissing /\ [Next]_vars => CulpritIsMissing'
<1> SUFFICES ASSUME CulpritIsMissing, [Next]_vars PROVE CulpritIsMissing'
  OBVIOUS
<1> USE DEF CulpritIsMissing
<1>1. ASSUME VisitNext \/ NoSourceLeft \/ ReturnTick \/ BeginScan \/ RefreshNext
             \/ StepIndex \/ EndScan \/ RemoveSource \/ CallFails
      PROVE  pc' # "missing"
  <2>1. ASSUME StartSleeping \/ SecondSlept PROVE pc' # "missing"
    BY <2>1 DEF StartSleeping, SecondSlept, StartIteration
  <2> QED BY <1>1, <2>1 DEF VisitNext, NoSourceLeft, ReturnTick, BeginScan, RefreshNext,
               StepIndex, EndScan, RemoveSource, CallFails
<1>2. CASE RefreshStep(sources[index]) /\ UNCHANGED rotation_vars
  <2>1. ASSUME NEW outcome \in {"missing", "error"}, FetchFails(sources[index], outcome)
        PROVE  CulpritIsMissing'
    BY <1>2, <2>1 DEF FetchFails, rotation_vars
  <2>2. ASSUME NEW s, EnsureWsThread(s) \/ ReuseCache(s) \/ BeginFetch(s) \/ StoreMids(s)
        PROVE  pc' # "missing"
    BY <2>2 DEF EnsureWsThread, ReuseCache, BeginFetch, StoreMids
  <2>3. ASSUME NEW s, NEW side, FetchMid(s, side) PROVE pc' # "missing"
    BY <2>3 DEF FetchMid
  <2> QED BY <1>2, <2>1, <2>2, <2>3 DEF RefreshStep
<1>3. CASE WorldStep /\ UNCHANGED rotation_vars
  <2>1. pc' = pc /\ missing \subseteq missing'
    BY <1>3 DEF WorldStep, ApplyWsMessage, TimePasses, Delist
  <2> QED BY <1>3, <2>1 DEF rotation_vars
<1>4. CASE UNCHANGED vars
  BY <1>4 DEF vars, source_vars, rotation_vars
<1> QED BY <1>1, <1>2, <1>3, <1>4 DEF Next, LauncherStep

LEMMA PoolShrinksByCulprit ==
    ASSUME IInv, CulpritIsMissing, [Next]_vars, NEW s \in Range(sources) \ Range(sources')
    PROVE  s \in missing
<1>1. CASE RemoveSource
  <2> USE SizeIsNat
  <2>1. sources \in Seq(Sources) /\ IsInjective(sources) /\ index \in 1 .. Len(sources)
    BY <1>1 DEF IInv, TypeOK, RemoveSource, InCall, Outcomes
  <2>2. PICK j \in 1 .. Len(sources) : s = sources[j]
    BY <2>1 DEF Range
  <2>3. DOMAIN sources' = 1 .. Len(sources) - 1
    BY <1>1 DEF RemoveSource, Without, RemovedAt
  <2>4. j = index
    <3> SUFFICES ASSUME j # index PROVE FALSE
      OBVIOUS
    <3> DEFINE at == IF j < index THEN j ELSE j - 1
    <3>1. at \in 1 .. Len(sources) - 1
      BY <2>1
    <3>2. sources'[at] = s
      BY <1>1, <2>1, <2>2, <3>1 DEF RemoveSource, Without, RemovedAt
    <3> QED BY <2>3, <3>1, <3>2 DEF Range
  <2> QED BY <1>1, <2>2, <2>4 DEF CulpritIsMissing, RemoveSource
<1>2. CASE ~RemoveSource
  <2>1. sources' = sources
    BY <1>2 DEF Next, LauncherStep, VisitNext, NoSourceLeft, ReturnTick, BeginScan, RefreshNext,
                StepIndex, EndScan, CallFails, vars, rotation_vars
  <2> QED BY <2>1
<1> QED BY <1>1, <1>2

\* A source leaves the pool only after the exchange has removed its book, for every
\* order of failures, removals and websocket messages (bot.py _remove_source_at).
THEOREM DropsOnlyMissing == Spec => OnlyMissingDropped
<1>1. Init => CulpritIsMissing
  BY DEF Init, CulpritIsMissing
<1>2. IInv /\ CulpritIsMissing /\ [Next]_vars =>
         [\A s \in Range(sources) \ Range(sources') : s \in missing]_vars
  BY PoolShrinksByCulprit
<1> QED BY <1>1, <1>2, CulpritStep, Invariance, PTL DEF Spec, OnlyMissingDropped
=============================================================================
