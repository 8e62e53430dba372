------------------------ MODULE CircuitBreaker_proofs ------------------------
(***************************************************************************)
(* Theorems about CircuitBreaker for every set of callers and every        *)
(* configuration, with Reset, Force... and UpdateConfig allowed or not.    *)
(***************************************************************************)
EXTENDS CircuitBreaker, TLAPS, FiniteSetTheorems

USE CircuitAssumption DEF ConfigType

\* NewCircuitBreaker never installs a threshold below one.
LEMMA DefaultsPositive ==
    /\ WithDefaults(StartConfig) \in ConfigType
    /\ WithDefaults(StartConfig).FailureThreshold > 0
    /\ WithDefaults(StartConfig).SuccessThreshold > 0
BY SMT DEF WithDefaults, OrDefault

\* Every installed configuration is well formed.
LEMMA InstalledType == InstalledConfigs \subseteq ConfigType
BY DefaultsPositive DEF InstalledConfigs

\* A counter stays in its range when it is bumped.
LEMMA BumpType ==
    ASSUME NEW m \in Metrics, NEW t \in [Metrics -> 0..(CounterWidth - 1)]
    PROVE  Bump(m, t) \in [Metrics -> 0..(CounterWidth - 1)]
BY SMT DEF Bump

\* The running operations are no more than the callers.
LEMMA InFlightType ==
    Cardinality(Caller) \in Nat /\ Cardinality(InFlight) \in 0..Cardinality(Caller)
<1>1. InFlight \subseteq Caller
    BY DEF InFlight
<1>2. IsFiniteSet(Caller) /\ IsFiniteSet(InFlight) /\ Cardinality(InFlight) <= Cardinality(Caller)
    BY <1>1, CircuitAssumption, FS_Subset DEF CircuitAssumption
<1> QED BY <1>2, FS_CardinalityType

LEMMA InitType == Init => TypeOK
<1> SUFFICES ASSUME Init PROVE TypeOK
    OBVIOUS
<1>1. totals \in [Metrics -> 0..(CounterWidth - 1)]
    BY CircuitAssumption DEF Init, ZeroTotals, CircuitAssumption
<1>2. failureAge \in 0..AgeCap
    BY CircuitAssumption DEF Init, CircuitAssumption
<1>3. straddling \in 0..Cardinality(Caller)
    BY InFlightType DEF Init
<1> QED BY <1>1, <1>2, <1>3 DEF Init, TypeOK, InstalledConfigs, States, Steps

-----------------------------------------------------------------------------
\* One step of any action keeps the variables in their types.
LEMMA NextType == TypeOK /\ [Next]_vars => TypeOK'
<1> SUFFICES ASSUME TypeOK, [Next]_vars PROVE TypeOK'
    OBVIOUS
<1> USE DEF TypeOK, States, Steps, Goto, ClearProbe
<1> /\ config.MaxConcurrentRequests \in Int /\ config.SuccessThreshold \in Int
    /\ config.FailureThreshold \in Int /\ config.RecoveryTimeout \in Int
    BY InstalledType
<1>0. ASSUME NEW m \in Metrics PROVE Bump(m, totals) \in [Metrics -> 0..(CounterWidth - 1)]
    BY BumpType
<1>1. ASSUME NEW r \in Caller, canExecute(r) PROVE TypeOK'
    BY <1>1 DEF canExecute, transitionToHalfOpen
<1>2. ASSUME NEW r \in Caller, recordRejection(r) PROVE TypeOK'
    BY <1>0, <1>2 DEF recordRejection, Metrics
<1>3. ASSUME NEW r \in Caller, CheckHalfOpen(r) PROVE TypeOK'
    BY <1>3 DEF CheckHalfOpen
<1>4. ASSUME NEW r \in Caller, incrementHalfOpenRequests(r) PROVE TypeOK'
    BY <1>4 DEF incrementHalfOpenRequests
<1>5. ASSUME NEW r \in Caller, recordRequest(r) PROVE TypeOK'
    BY <1>0, <1>5 DEF recordRequest, Metrics
<1>6. ASSUME NEW r \in Caller, recordSuccess(r) PROVE TypeOK'
  <2>1. totals' \in [Metrics -> 0..(CounterWidth - 1)]
    BY <1>0, <1>6 DEF recordSuccess, Metrics
  <2>2. pc' \in [Caller -> Steps]
    BY <1>6 DEF recordSuccess, Return
  <2>3. state' \in States /\ failureCount' \in Nat /\ successCount' \in Nat /\ halfOpenRequests' \in Nat
    BY <1>6 DEF recordSuccess, transitionToClosed
  <2> QED BY <1>6, <2>1, <2>2, <2>3 DEF recordSuccess
<1>7. ASSUME NEW r \in Caller, recordFailure(r) PROVE TypeOK'
  <2>1. totals' \in [Metrics -> 0..(CounterWidth - 1)]
    BY <1>0, <1>7, BumpType DEF recordFailure, Metrics
  <2>2. pc' \in [Caller -> Steps]
    BY <1>7 DEF recordFailure, Return
  <2>3. state' \in States /\ failureCount' \in Nat /\ successCount' \in Nat /\ halfOpenRequests' \in Nat
    BY <1>7 DEF recordFailure, transitionToOpen, FailuresNow
  <2> QED BY <1>7, <2>1, <2>2, <2>3 DEF recordFailure
<1>8. ASSUME NEW r \in Caller, decrementHalfOpenRequests(r) PROVE TypeOK'
    BY <1>8 DEF decrementHalfOpenRequests
<1>9. CASE Reset
    BY <1>9, InFlightType DEF Reset, ZeroTotals
<1>10. CASE ForceOpen
    BY <1>0, <1>10 DEF ForceOpen, transitionToOpen, Metrics
<1>11. CASE ForceClose
    BY <1>11 DEF ForceClose, transitionToClosed
<1>12. CASE UpdateConfig
    BY <1>12 DEF UpdateConfig, InstalledConfigs
<1>13. CASE Tick
    BY <1>13 DEF Tick
<1>14. CASE Recover
    BY <1>14 DEF Recover
<1>15. CASE UNCHANGED vars
    BY <1>15 DEF vars
<1> QED
    BY <1>1, <1>2, <1>3, <1>4, <1>5, <1>6, <1>7, <1>8, <1>9, <1>10, <1>11, <1>12,
       <1>13, <1>14, <1>15 DEF Next, Execute

\* Every reachable state is well typed, whatever the operators do: no counter
\* goes negative, although transitions clear the slots of callers that will
\* still give theirs back.
THEOREM TypeCorrect == Spec => []TypeOK
BY InitType, NextType, PTL DEF Spec

-----------------------------------------------------------------------------
\* The strengthening of NoLeakedSlot: a caller is in counted only between its
\* increment and its deferred decrement, so every member holds a slot.
SlotInv ==
    /\ \A r \in counted : pc[r] \in {"recording", "running", "leaving"}
    /\ halfOpenRequests <= Cardinality(counted)

LEMMA CountedFinite ==
    ASSUME TypeOK
    PROVE  IsFiniteSet(counted) /\ Cardinality(counted) \in Nat
BY CircuitAssumption, FS_Subset, FS_CardinalityType DEF TypeOK, CircuitAssumption

LEMMA SlotStep == TypeOK /\ SlotInv /\ [Next]_vars => SlotInv'
<1> SUFFICES ASSUME TypeOK, SlotInv, [Next]_vars PROVE SlotInv'
    OBVIOUS
<1> USE DEF TypeOK, SlotInv, Steps, Goto, ClearProbe
<1>0. IsFiniteSet(counted) /\ Cardinality(counted) \in Nat
    BY CountedFinite
\* The steps that leave the set of counted callers alone keep its size, and
\* never raise the number of slots.
<1>k. ASSUME UNCHANGED counted, halfOpenRequests' <= halfOpenRequests \/ halfOpenRequests' = 0,
             halfOpenRequests' \in Nat
      PROVE  halfOpenRequests' <= Cardinality(counted')
    BY <1>0, <1>k
<1>t. halfOpenRequests' \in Nat
    BY NextType
<1>1. ASSUME NEW r \in Caller, canExecute(r) PROVE SlotInv'
    BY <1>1, <1>k, <1>t DEF canExecute, transitionToHalfOpen
<1>2. ASSUME NEW r \in Caller, recordRejection(r) PROVE SlotInv'
    BY <1>2, <1>k, <1>t DEF recordRejection
<1>3. ASSUME NEW r \in Caller, CheckHalfOpen(r) PROVE SlotInv'
    BY <1>3, <1>k, <1>t DEF CheckHalfOpen
<1>4. ASSUME NEW r \in Caller, incrementHalfOpenRequests(r) PROVE SlotInv'
  <2>1. r \notin counted
    BY <1>4 DEF incrementHalfOpenRequests
  <2>2. Cardinality(counted') = Cardinality(counted) + 1
    BY <1>0, <1>4, <2>1, FS_AddElement DEF incrementHalfOpenRequests
  <2>3. halfOpenRequests' <= Cardinality(counted')
    BY <1>0, <1>4, <2>2 DEF incrementHalfOpenRequests
  <2> QED BY <1>4, <2>3 DEF incrementHalfOpenRequests
<1>5. ASSUME NEW r \in Caller, recordRequest(r) PROVE SlotInv'
    BY <1>5, <1>k, <1>t DEF recordRequest
<1>6. ASSUME NEW r \in Caller, recordSuccess(r) PROVE SlotInv'
    BY <1>6, <1>k, <1>t DEF recordSuccess, Return, transitionToClosed
<1>7. ASSUME NEW r \in Caller, recordFailure(r) PROVE SlotInv'
    BY <1>7, <1>k, <1>t DEF recordFailure, Return, transitionToOpen
<1>8. ASSUME NEW r \in Caller, decrementHalfOpenRequests(r) PROVE SlotInv'
  <2>0. counted' = counted \ {r}
    BY <1>8 DEF decrementHalfOpenRequests
  <2>1. Cardinality(counted') >= Cardinality(counted) - 1 /\ Cardinality(counted') \in Nat
    <3>1. /\ IsFiniteSet(counted \ {r})
          /\ Cardinality(counted \ {r}) = IF r \in counted THEN Cardinality(counted) - 1
                                                           ELSE Cardinality(counted)
      BY <1>0, FS_RemoveElement
    <3>2. Cardinality(counted \ {r}) \in Nat
      BY <3>1, FS_CardinalityType
    <3> QED BY <1>0, <2>0, <3>1, <3>2
  <2>2. halfOpenRequests' <= Cardinality(counted')
    BY <1>0, <1>8, <2>1 DEF decrementHalfOpenRequests
  <2> QED BY <1>8, <2>2 DEF decrementHalfOpenRequests
<1>9. CASE Reset
    BY <1>9, <1>k, <1>t DEF Reset
<1>10. CASE ForceOpen
    BY <1>10, <1>k, <1>t DEF ForceOpen, transitionToOpen
<1>11. CASE ForceClose
    BY <1>11, <1>k, <1>t DEF ForceClose, transitionToClosed
<1>12. CASE UpdateConfig
    BY <1>12, <1>k, <1>t DEF UpdateConfig
<1>13. CASE Tick
    BY <1>13, <1>k, <1>t DEF Tick
<1>14. CASE Recover
    BY <1>14, <1>k, <1>t DEF Recover
<1>15. CASE UNCHANGED vars
    BY <1>15, <1>k, <1>t DEF vars
<1> QED
    BY <1>1, <1>2, <1>3, <1>4, <1>5, <1>6, <1>7, <1>8, <1>9, <1>10, <1>11, <1>12,
       <1>13, <1>14, <1>15 DEF Next, Execute

\* For any number of callers and any interleaving of trips, probes, resets and
\* forced transitions, every half-open slot in use belongs to a caller that
\* still gives it back: the breaker cannot fill up and reject for good.
THEOREM SlotsNeverLeak == Spec => []NoLeakedSlot
<1>1. Init => SlotInv
    BY FS_EmptySet DEF Init, SlotInv
<1>2. TypeOK /\ SlotInv => NoLeakedSlot
  <2> SUFFICES ASSUME TypeOK, SlotInv PROVE NoLeakedSlot
    OBVIOUS
  <2>1. SlotHolders = counted
    BY DEF SlotHolders, SlotInv
  <2> QED BY <2>1 DEF NoLeakedSlot, SlotInv
<1> QED BY <1>1, <1>2, SlotStep, TypeCorrect, PTL DEF Spec

-----------------------------------------------------------------------------
LEMMA CountsStep == TypeOK /\ CountsBelowThreshold /\ [Next]_vars => CountsBelowThreshold'
<1> SUFFICES ASSUME TypeOK, CountsBelowThreshold, [Next]_vars PROVE CountsBelowThreshold'
    OBVIOUS
<1> USE DEF TypeOK, CountsBelowThreshold, States, ClearProbe
<1>0. /\ config.FailureThreshold \in Int /\ config.SuccessThreshold \in Int
      /\ config \in InstalledConfigs /\ config.FailureThreshold <= CountCap
      /\ CountCap \in Nat
    BY InstalledType, CircuitAssumption DEF CircuitAssumption, InstalledConfigs
\* A count of zero is below the threshold of the first configuration.
<1>z. /\ \E c \in InstalledConfigs : 0 < c.FailureThreshold
      /\ \E c \in InstalledConfigs : 0 < c.SuccessThreshold
    BY DefaultsPositive DEF InstalledConfigs
<1>1. ASSUME NEW r \in Caller, canExecute(r) PROVE CountsBelowThreshold'
    BY <1>1, <1>z DEF canExecute, transitionToHalfOpen
<1>2. ASSUME NEW r \in Caller, recordRejection(r) PROVE CountsBelowThreshold'
    BY <1>2 DEF recordRejection
<1>3. ASSUME NEW r \in Caller, CheckHalfOpen(r) PROVE CountsBelowThreshold'
    BY <1>3 DEF CheckHalfOpen
<1>4. ASSUME NEW r \in Caller, incrementHalfOpenRequests(r) PROVE CountsBelowThreshold'
    BY <1>4 DEF incrementHalfOpenRequests
<1>5. ASSUME NEW r \in Caller, recordRequest(r) PROVE CountsBelowThreshold'
    BY <1>5 DEF recordRequest
<1>6. ASSUME NEW r \in Caller, recordSuccess(r) PROVE CountsBelowThreshold'
    BY <1>0, <1>6, <1>z DEF recordSuccess, transitionToClosed
<1>7. ASSUME NEW r \in Caller, recordFailure(r) PROVE CountsBelowThreshold'
  <2>1. CASE Trips
    BY <1>7, <2>1 DEF recordFailure, transitionToOpen
  <2>2. CASE ~Trips
    <3>1. state = "closed" => FailuresNow < config.FailureThreshold
      BY <1>0, <2>2 DEF Trips, FailuresNow
    <3> QED BY <1>0, <1>7, <2>2, <3>1 DEF recordFailure, Trips
  <2> QED BY <2>1, <2>2
<1>8. ASSUME NEW r \in Caller, decrementHalfOpenRequests(r) PROVE CountsBelowThreshold'
    BY <1>8 DEF decrementHalfOpenRequests
<1>9. CASE Reset
    BY <1>9, <1>z DEF Reset
<1>10. CASE ForceOpen
    BY <1>10 DEF ForceOpen, transitionToOpen
<1>11. CASE ForceClose
    BY <1>11, <1>z DEF ForceClose, transitionToClosed
<1>12. CASE UpdateConfig
    BY <1>12 DEF UpdateConfig
<1>13. CASE Tick
    BY <1>13 DEF Tick
<1>14. CASE Recover
    BY <1>14 DEF Recover
<1>15. CASE UNCHANGED vars
    BY <1>15 DEF vars
<1> QED
    BY <1>1, <1>2, <1>3, <1>4, <1>5, <1>6, <1>7, <1>8, <1>9, <1>10, <1>11, <1>12,
       <1>13, <1>14, <1>15 DEF Next, Execute

\* A closed breaker has not reached every failure threshold it ran with, and a
\* probing one not every success threshold: a trip or a close is never
\* overlooked, even across UpdateConfig.
THEOREM ThresholdsNeverPassed == Spec => []CountsBelowThreshold
<1>1. Init => CountsBelowThreshold
    BY DefaultsPositive DEF Init, CountsBelowThreshold, InstalledConfigs
<1> QED BY <1>1, CountsStep, TypeCorrect, PTL DEF Spec

-----------------------------------------------------------------------------
(* What closes the breaker.                                                *)

\* The successes that count in half-open were all recorded in this half-open.
ProbeInv == state = "half_open" => successCount <= streak

LEMMA ProbeStep == TypeOK /\ ProbeInv /\ [Next]_vars => ProbeInv'
<1> SUFFICES ASSUME TypeOK, ProbeInv, [Next]_vars PROVE ProbeInv'
    OBVIOUS
<1> USE DEF TypeOK, ProbeInv, States, ClearProbe
<1>1. ASSUME NEW r \in Caller, canExecute(r) PROVE ProbeInv'
    BY <1>1 DEF canExecute, Admits, transitionToHalfOpen
<1>2. ASSUME NEW r \in Caller, recordSuccess(r) PROVE ProbeInv'
    BY <1>2 DEF recordSuccess, transitionToClosed
<1>3. ASSUME NEW r \in Caller, recordFailure(r) PROVE ProbeInv'
    BY <1>3 DEF recordFailure, Trips, transitionToOpen
<1>4. ASSUME NEW r \in Caller,
             recordRejection(r) \/ CheckHalfOpen(r) \/ incrementHalfOpenRequests(r)
               \/ recordRequest(r) \/ decrementHalfOpenRequests(r)
      PROVE  ProbeInv'
    BY <1>4 DEF recordRejection, CheckHalfOpen, incrementHalfOpenRequests, recordRequest,
         decrementHalfOpenRequests
<1>5. CASE Reset \/ ForceOpen \/ ForceClose
    BY <1>5 DEF Reset, ForceOpen, ForceClose, transitionToOpen, transitionToClosed
<1>6. CASE UpdateConfig \/ Tick \/ Recover \/ UNCHANGED vars
    BY <1>6 DEF UpdateConfig, Tick, Recover, vars
<1> QED BY <1>1, <1>2, <1>3, <1>4, <1>5, <1>6 DEF Next, Execute

\* A result closes the breaker only in half-open, and only after as many
\* successes as the configuration asks for, all recorded since it went half-open
\* and none with a failure after it.
THEOREM OnlyProbesClose == Spec => ClosesOnlyFromProbe
<1> DEFINE Allowed == /\ state # "closed" /\ state' = "closed" =>
                           \/ Operators /\ pc' = pc
                           \/ state = "half_open" /\ streak + 1 >= config.SuccessThreshold
                      /\ state = "closed" => state' # "half_open"
<1>1. TypeOK /\ ProbeInv /\ [Next]_vars => [Allowed]_vars
  <2> SUFFICES ASSUME TypeOK, ProbeInv, [Next]_vars PROVE Allowed \/ UNCHANGED vars
    OBVIOUS
  <2>1. ASSUME NEW r \in Caller, recordSuccess(r) PROVE Allowed
    <3>1. config.SuccessThreshold \in Int /\ successCount \in Nat /\ streak \in Nat
        BY InstalledType DEF TypeOK
    <3>2. state' = "closed" => \/ state = "closed"
                               \/ state = "half_open" /\ successCount + 1 >= config.SuccessThreshold
        BY <2>1 DEF recordSuccess
    <3>3. state = "closed" => state' = "closed"
        BY <2>1 DEF recordSuccess
    <3> QED BY <3>1, <3>2, <3>3 DEF ProbeInv
  <2>2. ASSUME NEW r \in Caller, Execute(r), ~recordSuccess(r) PROVE Allowed
    BY <2>2 DEF Execute, canExecute, recordRejection, CheckHalfOpen,
         incrementHalfOpenRequests, recordRequest, recordFailure,
         decrementHalfOpenRequests, transitionToOpen, transitionToHalfOpen
  <2>3. ASSUME Reset \/ ForceOpen \/ ForceClose \/ UpdateConfig \/ Tick \/ Recover
        PROVE  Allowed
    BY <2>3 DEF Reset, ForceOpen, ForceClose, UpdateConfig, Tick, Recover,
         transitionToClosed, transitionToOpen
  <2> QED BY <2>1, <2>2, <2>3 DEF Next
<1>2. Init => ProbeInv
    BY DEF Init, ProbeInv
<1> QED BY <1>1, <1>2, ProbeStep, TypeCorrect, PTL DEF Spec, ClosesOnlyFromProbe

-----------------------------------------------------------------------------
(* Counters that wrap.                                                     *)

LEMMA QuotientAndRest ==
    ASSUME NEW w \in Nat \ {0}, NEW x \in Int
    PROVE  /\ x % w \in 0..(w - 1) /\ x \div w \in Int
           /\ x = w * (x \div w) + (x % w)
BY SMT

LEMMA OneRest ==
    ASSUME NEW w \in Nat \ {0}, NEW q \in Int, NEW r \in 0..(w - 1)
    PROVE  (w * q + r) % w = r
BY SMT

LEMMA RestOfNext ==
    ASSUME NEW w \in Nat \ {0}, NEW x \in Int
    PROVE  (x + 1) % w = IF x % w = w - 1 THEN 0 ELSE (x % w) + 1
<1> DEFINE q == x \div w
           r == x % w
<1>1. r \in 0..(w - 1) /\ q \in Int /\ x = w * q + r
    BY QuotientAndRest
<1> HIDE DEF q, r
<1>2. CASE r = w - 1
  <2>1. x + 1 = w * (q + 1) + 0
    BY <1>1, <1>2
  <2>2. (w * (q + 1) + 0) % w = 0
    BY <1>1, OneRest
  <2> QED BY <1>2, <2>1, <2>2 DEF r
<1>3. CASE r # w - 1
  <2>1. x + 1 = w * q + (r + 1) /\ r + 1 \in 0..(w - 1)
    BY <1>1, <1>3
  <2>2. (w * q + (r + 1)) % w = r + 1
    BY <1>1, <2>1, OneRest
  <2> QED BY <1>3, <2>1, <2>2 DEF r
<1> QED BY <1>2, <1>3

LEMMA SameRestNext ==
    ASSUME NEW w \in Nat \ {0}, NEW x \in Int, NEW y \in Int, x % w = y % w
    PROVE  (x + 1) % w = (y + 1) % w
BY RestOfNext, ZenonT(40)

\* A counter that wraps counts on in every sum that wraps.
LEMMA BumpedSum ==
    ASSUME NEW w \in Nat \ {0}, NEW a \in 0..(w - 1), NEW x \in Int
    PROVE  (((a + 1) % w) + x) % w = (a + x + 1) % w
<1>1. a % w = a
    BY SMT
<1>2. CASE a = w - 1
  <2>1. ((a + 1) % w) + x = x /\ a + x + 1 = x + w
    BY <1>1, <1>2, RestOfNext
  <2>2. (x + w) % w = x % w
    <3> DEFINE q == x \div w
               r == x % w
    <3>1. r \in 0..(w - 1) /\ q \in Int /\ x = w * q + r
      BY QuotientAndRest
    <3> HIDE DEF q, r
    <3>2. x + w = w * (q + 1) + r
      BY <3>1
    <3>3. (w * (q + 1) + r) % w = r
      BY <3>1, OneRest
    <3> QED BY <3>2, <3>3 DEF r
  <2> QED BY <2>1, <2>2
<1>3. CASE a # w - 1
  <2>1. a + 1 \in 0..(w - 1) /\ w * 0 + (a + 1) = a + 1
    BY <1>3
  <2>2. (a + 1) % w = a + 1
    BY <2>1, OneRest
  <2> QED BY <2>2
<1> QED BY <1>2, <1>3

\* What a step does to the running operations and to the totals that count them.
LEMMA RunningStep ==
    ASSUME TypeOK, NEW r \in Caller, pc' = [pc EXCEPT ![r] = pc'[r]]
    PROVE  /\ pc[r] # "running" /\ pc'[r] = "running" =>
                Cardinality(InFlight') = Cardinality(InFlight) + 1
           /\ pc[r] = "running" /\ pc'[r] # "running" =>
                Cardinality(InFlight') = Cardinality(InFlight) - 1
           /\ pc[r] # "running" /\ pc'[r] # "running" => InFlight' = InFlight
<1>1. IsFiniteSet(InFlight)
  <2>1. InFlight \subseteq Caller
    BY DEF InFlight
  <2> QED BY <2>1, FS_Subset DEF CircuitAssumption
<1>2. \A c \in Caller : c # r => pc'[c] = pc[c]
    BY DEF TypeOK
<1>3. ASSUME pc[r] # "running", pc'[r] = "running"
      PROVE  Cardinality(InFlight') = Cardinality(InFlight) + 1
  <2>1. InFlight' = InFlight \cup {r} /\ r \notin InFlight
    BY <1>2, <1>3 DEF InFlight
  <2> QED BY <1>1, <2>1, FS_AddElement
<1>4. ASSUME pc[r] = "running", pc'[r] # "running"
      PROVE  Cardinality(InFlight') = Cardinality(InFlight) - 1
  <2>1. InFlight' = InFlight \ {r} /\ r \in InFlight
    BY <1>2, <1>4 DEF InFlight
  <2> QED BY <1>1, <2>1, FS_RemoveElement
<1>5. ASSUME pc[r] # "running", pc'[r] # "running" PROVE InFlight' = InFlight
    BY <1>2, <1>5 DEF InFlight
<1> QED BY <1>3, <1>4, <1>5

LEMMA AccountedStep == TypeOK /\ RequestsAccounted /\ [Next]_vars => RequestsAccounted'
<1> SUFFICES ASSUME TypeOK, RequestsAccounted, [Next]_vars PROVE RequestsAccounted'
    OBVIOUS
<1> DEFINE w == CounterWidth
           counters == <<totals["requests"], totals["successes"], totals["failures"]>>
           flying == Cardinality(InFlight)
<1>a. /\ w \in Nat \ {0} /\ flying \in Nat /\ straddling \in Nat
      /\ totals["requests"] \in 0..(w - 1)
      /\ totals["successes"] \in 0..(w - 1) /\ totals["failures"] \in 0..(w - 1)
    BY InFlightType DEF TypeOK, Metrics, CircuitAssumption
<1>b. (totals["requests"] + straddling) % w
        = (totals["successes"] + totals["failures"] + flying) % w
    BY DEF RequestsAccounted
\* The steps that count nothing and neither start nor end an operation.
<1>1. ASSUME UNCHANGED <<counters, straddling>>, InFlight' = InFlight PROVE RequestsAccounted'
    BY <1>1 DEF RequestsAccounted
<1>2. ASSUME NEW r \in Caller, recordRequest(r) PROVE RequestsAccounted'
  <2>1. Cardinality(InFlight') = flying + 1
    BY <1>2, RunningStep DEF recordRequest, Goto, TypeOK
  <2>2. /\ totals'["requests"] = (totals["requests"] + 1) % w
        /\ totals'["successes"] = totals["successes"] /\ totals'["failures"] = totals["failures"]
        /\ straddling' = straddling
    BY <1>2 DEF recordRequest, Bump, TypeOK, Metrics
  <2> DEFINE left == totals["requests"] + straddling
             right == totals["successes"] + totals["failures"] + flying
  <2>3. left \in Int /\ right \in Int /\ left % w = right % w
    BY <1>a, <1>b, SMTT(40)
  <2>4. (totals'["requests"] + straddling') % w = (left + 1) % w
    BY <1>a, <2>2, BumpedSum
  <2>5. totals'["successes"] + totals'["failures"] + Cardinality(InFlight') = right + 1
    BY <1>a, <2>1, <2>2
  <2>6. (left + 1) % w = (right + 1) % w
    BY <1>a, <2>3, SameRestNext
  <2> HIDE DEF left, right, w
  <2> QED BY <2>4, <2>5, <2>6 DEF RequestsAccounted, w
<1>3. ASSUME NEW r \in Caller, recordSuccess(r) PROVE RequestsAccounted'
  <2>1. Cardinality(InFlight') = flying - 1
    BY <1>3, RunningStep DEF recordSuccess, Return, Goto, TypeOK
  <2>2. /\ totals'["successes"] = (totals["successes"] + 1) % w
        /\ totals'["requests"] = totals["requests"] /\ totals'["failures"] = totals["failures"]
        /\ straddling' = straddling
    BY <1>3 DEF recordSuccess, Bump, TypeOK, Metrics
  <2> DEFINE rest == totals["failures"] + (flying - 1)
  <2>3. rest \in Int
    BY <1>a
  <2>4. (totals'["successes"] + rest) % w = (totals["successes"] + rest + 1) % w
    <3>1. w \in Nat \ {0} /\ totals["successes"] \in 0..(w - 1)
      BY <1>a
    <3> HIDE DEF rest, w
    <3> QED BY <2>2, <2>3, <3>1, BumpedSum
  <2>5. /\ totals["successes"] + rest + 1 = totals["successes"] + totals["failures"] + flying
        /\ totals'["successes"] \in Int
    BY <1>a, <2>2
  <2>6. totals'["successes"] + totals'["failures"] + Cardinality(InFlight')
          = totals'["successes"] + rest
    BY <1>a, <2>1, <2>2, <2>5
  <2> HIDE DEF rest, w, flying
  <2> QED BY <1>b, <2>2, <2>4, <2>5, <2>6 DEF RequestsAccounted, w, flying
<1>4. ASSUME NEW r \in Caller, recordFailure(r) PROVE RequestsAccounted'
  <2>1. Cardinality(InFlight') = flying - 1
    BY <1>4, RunningStep DEF recordFailure, Return, Goto, TypeOK
  <2>2. /\ totals'["failures"] = (totals["failures"] + 1) % w
        /\ totals'["requests"] = totals["requests"] /\ totals'["successes"] = totals["successes"]
        /\ straddling' = straddling
    BY <1>4 DEF recordFailure, Bump, TypeOK, Metrics
  <2> DEFINE rest == totals["successes"] + (flying - 1)
  <2>3. rest \in Int
    BY <1>a
  <2>4. (totals'["failures"] + rest) % w = (totals["failures"] + rest + 1) % w
    <3>1. w \in Nat \ {0} /\ totals["failures"] \in 0..(w - 1)
      BY <1>a
    <3> HIDE DEF rest, w
    <3> QED BY <2>2, <2>3, <3>1, BumpedSum
  <2>5. /\ totals["failures"] + rest + 1 = totals["successes"] + totals["failures"] + flying
        /\ totals'["failures"] \in Int
    BY <1>a, <2>2
  <2>6. totals'["successes"] + totals'["failures"] + Cardinality(InFlight')
          = totals'["failures"] + rest
    BY <1>a, <2>1, <2>2, <2>5
  <2> HIDE DEF rest, w, flying
  <2> QED BY <1>b, <2>2, <2>4, <2>5, <2>6 DEF RequestsAccounted, w, flying
<1>5. ASSUME NEW r \in Caller,
             canExecute(r) \/ recordRejection(r) \/ CheckHalfOpen(r)
             \/ incrementHalfOpenRequests(r) \/ decrementHalfOpenRequests(r)
      PROVE  RequestsAccounted'
  <2>1. UNCHANGED <<counters, straddling>>
    BY <1>5 DEF canExecute, recordRejection, CheckHalfOpen, incrementHalfOpenRequests,
                decrementHalfOpenRequests, Bump, TypeOK, Metrics
  <2>2. pc[r] # "running" /\ pc'[r] # "running" /\ pc' = [pc EXCEPT ![r] = pc'[r]]
    BY <1>5 DEF canExecute, recordRejection, CheckHalfOpen, incrementHalfOpenRequests,
                decrementHalfOpenRequests, Goto, TypeOK
  <2> QED BY <1>1, <2>1, <2>2, RunningStep
<1>6. CASE Reset
  <2>1. /\ totals'["requests"] = 0 /\ totals'["successes"] = 0 /\ totals'["failures"] = 0
        /\ straddling' = flying /\ InFlight' = InFlight
    BY <1>6 DEF Reset, ZeroTotals, Metrics, InFlight
  <2> HIDE DEF flying
  <2>2. 0 + straddling' = 0 + 0 + flying
    BY <1>a, <2>1
  <2> QED BY <2>1, <2>2 DEF RequestsAccounted, flying
<1>7. CASE ForceOpen \/ ForceClose \/ UpdateConfig \/ Tick \/ Recover \/ UNCHANGED vars
  <2>1. UNCHANGED <<counters, straddling, pc>>
    BY <1>7 DEF ForceOpen, ForceClose, UpdateConfig, Tick, Recover, vars, Bump, TypeOK, Metrics
  <2> QED BY <1>1, <2>1 DEF InFlight
<1> QED BY <1>2, <1>3, <1>4, <1>5, <1>6, <1>7 DEF Next, Execute

\* circuit.go:173 recordRequest and its kin: whatever interleaving, trips and
\* Resets, and however often the counters wrap, the totals account for every
\* operation, except for those that a Reset cut in two.
THEOREM TotalsAddUp == Spec => []RequestsAccounted
<1>1. Init => RequestsAccounted
  <2> SUFFICES ASSUME Init PROVE RequestsAccounted
    OBVIOUS
  <2>1. InFlight = {}
    BY DEF Init, InFlight
  <2>2. Cardinality(InFlight) = 0
    BY <2>1, FS_EmptySet
  <2>3. totals["requests"] = 0 /\ totals["successes"] = 0 /\ totals["failures"] = 0
    BY DEF Init, ZeroTotals, Metrics
  <2> QED BY <2>2, <2>3 DEF Init, RequestsAccounted
<1> QED BY <1>1, AccountedStep, TypeCorrect, PTL DEF Spec
==============================================================================
