--------------------------- MODULE CircuitBreaker ---------------------------
(***************************************************************************)
(* The circuit breaker of internal/producer/circuit.go.  Each caller is a  *)
(* goroutine that runs Execute over and over; every method that takes the  *)
(* breaker's mutex is one step, so callers interleave between the steps of *)
(* Execute exactly where the code releases the lock.                       *)
(*                                                                         *)
(* Time is the age of lastFailureTime, saturated at the longest recovery   *)
(* timeout: canExecute only compares the age with RecoveryTimeout.  The    *)
(* zero time of a new breaker is older than any timeout.  failureCount,    *)
(* which grows for as long as the breaker is not closed, saturates at      *)
(* CountCap: it is only compared with a threshold, and only in closed.     *)
(* int64 totals wrap at CounterWidth (2^64 in the code).                   *)
(***************************************************************************)
EXTENDS Integers, FiniteSets

CONSTANTS Caller,       \* goroutines that call Execute
          Configs,      \* configurations that UpdateConfig may install
          StartConfig,  \* the configuration given to NewCircuitBreaker
          AgeCap,       \* ages from here on are indistinguishable
          CountCap,     \* failure counts from here on are indistinguishable
          CounterWidth, \* number of values of a metrics counter
          Operators     \* whether Reset, ForceOpen, ... may be called

ConfigType == [FailureThreshold : Int, SuccessThreshold : Int,
               RecoveryTimeout : Int, WindowDuration : Int,
               MaxConcurrentRequests : Int]

OrDefault(v, default) == IF v <= 0 THEN default ELSE v

\* NewCircuitBreaker replaces every non-positive setting by its default.
\* Durations are in seconds here.
WithDefaults(c) ==
    [FailureThreshold      |-> OrDefault(c.FailureThreshold, 5),
     SuccessThreshold      |-> OrDefault(c.SuccessThreshold, 2),
     RecoveryTimeout       |-> OrDefault(c.RecoveryTimeout, 30),
     WindowDuration        |-> OrDefault(c.WindowDuration, 60),
     MaxConcurrentRequests |-> OrDefault(c.MaxConcurrentRequests, 1)]

ASSUME CircuitAssumption ==
    /\ IsFiniteSet(Caller)
    /\ Configs \subseteq ConfigType
    /\ StartConfig \in ConfigType
    /\ AgeCap \in Nat /\ CountCap \in Nat
    /\ \A c \in Configs \cup {WithDefaults(StartConfig)} :
          c.RecoveryTimeout <= AgeCap /\ c.FailureThreshold <= CountCap
    /\ CounterWidth \in Nat \ {0}
    /\ Operators \in BOOLEAN

VARIABLES
    config,            \* cb.config
    state,             \* cb.state
    failureCount, successCount, halfOpenRequests,
    failureAge,        \* time.Since(cb.lastFailureTime), saturated
    totals,            \* the metrics counters
    pc,                \* where each caller is inside Execute
    counted,           \* callers with a deferred decrementHalfOpenRequests
    straddling,        \* history: how many operations ran when Reset was last called
    streak,            \* history: successes recorded since the breaker went half-open or
                       \* a failure was recorded, whichever was later
    recovered          \* the guarded operation does not fail any more, nobody interferes

vars == <<config, state, failureCount, successCount, halfOpenRequests,
          failureAge, totals, pc, counted, straddling, streak, recovered>>

States == {"closed", "open", "half_open"}
Steps == {"idle", "rejected", "admitted", "counting", "recording", "running", "leaving"}

Metrics == {"requests", "failures", "successes", "rejected", "opened"}
ZeroTotals == [m \in Metrics |-> 0]

Bump(m, t) == [t EXCEPT ![m] = (@ + 1) % CounterWidth]

Init ==
    /\ config = WithDefaults(StartConfig)
    /\ state = "closed"
    /\ failureCount = 0 /\ successCount = 0 /\ halfOpenRequests = 0
    /\ failureAge = AgeCap
    /\ totals = ZeroTotals
    /\ pc = [r \in Caller |-> "idle"]
    /\ counted = {}
    /\ straddling = 0 /\ streak = 0
    /\ recovered = FALSE

Goto(r, step) == pc' = [pc EXCEPT ![r] = step]

-----------------------------------------------------------------------------
(* The three transitions, called with the mutex held in another state than *)
(* the one they lead to; there the code does nothing.  failureCount        *)
(* survives a trip and a probe, and is cleared only on the way to closed.  *)

ClearProbe == successCount' = 0 /\ halfOpenRequests' = 0

\* Mutant: the failures that opened the breaker are still counted.
transitionToClosed_KeepsFailures ==
    state' = "closed" /\ ClearProbe /\ UNCHANGED failureCount

transitionToClosed == state' = "closed" /\ failureCount' = 0 /\ ClearProbe
transitionToOpen == state' = "open" /\ ClearProbe
transitionToHalfOpen == state' = "half_open" /\ ClearProbe /\ UNCHANGED failureCount

-----------------------------------------------------------------------------
(* Execute, one step per lock section.                                     *)

\* The admission decision of canExecute, as a predicate on the locked state.
Admits == \/ state = "closed"
          \/ state = "open" /\ failureAge >= config.RecoveryTimeout
          \/ state = "half_open" /\ halfOpenRequests < config.MaxConcurrentRequests

canExecute(r) ==
    /\ pc[r] = "idle"
    /\ Goto(r, IF Admits THEN "admitted" ELSE "rejected")
    /\ IF Admits /\ state = "open"
         THEN transitionToHalfOpen
         ELSE UNCHANGED <<state, failureCount, successCount, halfOpenRequests>>
    /\ streak' = IF Admits /\ state = "open" THEN 0 ELSE streak
    /\ UNCHANGED <<config, failureAge, totals, counted, straddling, recovered>>

recordRejection(r) ==
    /\ pc[r] = "rejected"
    /\ totals' = Bump("rejected", totals)
    /\ Goto(r, "idle")
    /\ UNCHANGED <<config, state, failureCount, successCount, halfOpenRequests,
                   failureAge, counted, straddling, streak, recovered>>

\* Execute reads the state again, in a lock section of its own.
CheckHalfOpen(r) ==
    /\ pc[r] = "admitted"
    /\ Goto(r, IF state = "half_open" THEN "counting" ELSE "recording")
    /\ UNCHANGED <<config, state, failureCount, successCount, halfOpenRequests,
                   failureAge, totals, counted, straddling, streak, recovered>>

incrementHalfOpenRequests(r) ==
    /\ pc[r] = "counting"
    /\ halfOpenRequests' = halfOpenRequests + 1
    /\ counted' = counted \cup {r}
    /\ Goto(r, "recording")
    /\ UNCHANGED <<config, state, failureCount, successCount, failureAge, totals,
                   straddling, streak, recovered>>

\* Mutant: probes are not counted as requests.
recordRequest_SkipsProbes(r) ==
    /\ pc[r] = "recording"
    /\ totals' = IF r \in counted THEN totals ELSE Bump("requests", totals)
    /\ Goto(r, "running")
    /\ UNCHANGED <<config, state, failureCount, successCount, halfOpenRequests,
                   failureAge, counted, straddling, streak, recovered>>

recordRequest(r) ==
    /\ pc[r] = "recording"
    /\ totals' = Bump("requests", totals)
    /\ Goto(r, "running")
    /\ UNCHANGED <<config, state, failureCount, successCount, halfOpenRequests,
                   failureAge, counted, straddling, streak, recovered>>

\* Mutant: the decrement is not deferred, and a return forgets it.
Return_ForgetsSlot(r) == Goto(r, "idle")

\* The operation has returned: the deferred decrement follows, if any.
Return(r) == Goto(r, IF r \in counted THEN "leaving" ELSE "idle")

\* Mutant: a success counts in every state but closed.
recordSuccess_InAnyState(r) ==
    /\ pc[r] = "running"
    /\ Return(r)
    /\ totals' = Bump("successes", totals)
    /\ IF state # "closed" /\ successCount + 1 >= config.SuccessThreshold
         THEN transitionToClosed
         ELSE /\ successCount' = IF state = "closed" THEN 0 ELSE successCount + 1
              /\ failureCount' = IF state = "closed" THEN 0 ELSE failureCount
              /\ UNCHANGED <<state, halfOpenRequests>>
    /\ streak' = IF state' = "half_open" THEN streak + 1 ELSE 0
    /\ UNCHANGED <<config, failureAge, counted, straddling, recovered>>

recordSuccess(r) ==
    /\ pc[r] = "running"
    /\ Return(r)
    /\ totals' = Bump("successes", totals)
    /\ \/ /\ state = "closed"
          /\ failureCount' = 0
          /\ UNCHANGED <<state, successCount, halfOpenRequests>>
       \/ /\ state = "half_open" /\ successCount + 1 >= config.SuccessThreshold
          /\ transitionToClosed
       \/ /\ state = "half_open" /\ successCount + 1 < config.SuccessThreshold
          /\ successCount' = successCount + 1
          /\ UNCHANGED <<state, failureCount, halfOpenRequests>>
       \/ /\ state = "open"
          /\ UNCHANGED <<state, failureCount, successCount, halfOpenRequests>>
    /\ streak' = IF state' = "half_open" THEN streak + 1 ELSE 0
    /\ UNCHANGED <<config, failureAge, counted, straddling, recovered>>

\* lastFailureTime is set to now before the window test reads it, so the age
\* tested is 0 at the resolution of time here.
FailuresNow ==
    IF 0 > config.WindowDuration THEN 1
    ELSE IF failureCount < CountCap THEN failureCount + 1 ELSE CountCap

\* Mutant: a failed probe counts like any other failure.
Trips_AtThreshold == state # "open" /\ FailuresNow >= config.FailureThreshold

Trips == \/ state = "closed" /\ FailuresNow >= config.FailureThreshold
         \/ state = "half_open"

recordFailure(r) ==
    /\ pc[r] = "running" /\ ~recovered
    /\ Return(r)
    /\ failureAge' = 0
    /\ failureCount' = FailuresNow
    /\ IF Trips
         THEN /\ transitionToOpen
              /\ totals' = Bump("opened", Bump("failures", totals))
         ELSE /\ totals' = Bump("failures", totals)
              /\ UNCHANGED <<state, successCount, halfOpenRequests>>
    /\ streak' = 0
    /\ UNCHANGED <<config, counted, straddling, recovered>>

decrementHalfOpenRequests(r) ==
    /\ pc[r] = "leaving"
    /\ halfOpenRequests' = IF halfOpenRequests > 0 THEN halfOpenRequests - 1 ELSE halfOpenRequests
    /\ counted' = counted \ {r}
    /\ Goto(r, "idle")
    /\ UNCHANGED <<config, state, failureCount, successCount, failureAge, totals,
                   straddling, streak, recovered>>

Execute(r) == \/ canExecute(r) \/ recordRejection(r) \/ CheckHalfOpen(r)
              \/ incrementHalfOpenRequests(r) \/ recordRequest(r)
              \/ recordSuccess(r) \/ recordFailure(r) \/ decrementHalfOpenRequests(r)

-----------------------------------------------------------------------------
(* What an operator may call at any time, and the environment.             *)

InFlight == {r \in Caller : pc[r] = "running"}

Reset ==
    /\ Operators /\ ~recovered
    /\ state' = "closed" /\ failureCount' = 0 /\ ClearProbe
    /\ totals' = ZeroTotals
    /\ failureAge' = AgeCap
    /\ straddling' = Cardinality(InFlight)
    /\ streak' = 0
    /\ UNCHANGED <<config, pc, counted, recovered>>

ForceOpen ==
    /\ Operators /\ ~recovered /\ state # "open"
    /\ transitionToOpen
    /\ totals' = Bump("opened", totals)
    /\ streak' = 0
    /\ UNCHANGED <<config, failureCount, failureAge, pc, counted, straddling, recovered>>

ForceClose ==
    /\ Operators /\ ~recovered /\ state # "closed"
    /\ transitionToClosed
    /\ streak' = 0
    /\ UNCHANGED <<config, failureAge, totals, pc, counted, straddling, recovered>>

\* The new configuration is neither checked nor given defaults, and nothing
\* is evaluated again.
UpdateConfig ==
    /\ Operators /\ ~recovered
    /\ config' \in Configs
    /\ UNCHANGED <<state, failureCount, successCount, halfOpenRequests, failureAge,
                   totals, pc, counted, straddling, streak, recovered>>

Tick ==
    /\ failureAge < AgeCap
    /\ failureAge' = failureAge + 1
    /\ UNCHANGED <<config, state, failureCount, successCount, halfOpenRequests,
                   totals, pc, counted, straddling, streak, recovered>>

\* The broker behind the operation is healthy from now on, and the operators
\* leave the breaker alone.
Recover ==
    /\ ~recovered /\ recovered' = TRUE
    /\ UNCHANGED <<config, state, failureCount, successCount, halfOpenRequests,
                   failureAge, totals, pc, counted, straddling, streak>>

Next == \/ \E r \in Caller : Execute(r)
        \/ Reset \/ ForceOpen \/ ForceClose \/ UpdateConfig
        \/ Tick \/ Recover

Spec == Init /\ [][Next]_vars

\* Time passes, and a caller's goroutine keeps running and calling Execute.
FairSpec == Spec /\ WF_vars(Tick) /\ \A r \in Caller : WF_vars(Execute(r))

-----------------------------------------------------------------------------
InstalledConfigs == Configs \cup {WithDefaults(StartConfig)}

TypeOK ==
    /\ config \in InstalledConfigs
    /\ state \in States
    /\ failureCount \in Nat /\ successCount \in Nat /\ halfOpenRequests \in Nat
    /\ failureAge \in 0..AgeCap
    /\ totals \in [Metrics -> 0..(CounterWidth - 1)]
    /\ pc \in [Caller -> Steps]
    /\ counted \subseteq Caller
    /\ straddling \in 0..Cardinality(Caller)
    /\ streak \in Nat
    /\ recovered \in BOOLEAN

SlotHolders == {r \in counted : pc[r] # "idle"}

\* No half-open slot is ever leaked: each slot in use belongs to a caller that
\* still has its deferred decrement to run, however trips, probes, Reset and
\* Force... interleave with it.  A leaked slot would make the half-open breaker
\* reject every request for good.
NoLeakedSlot == halfOpenRequests <= Cardinality(SlotHolders)

\* A closed breaker has not reached every failure threshold it ran with, and a
\* half-open one has not reached every success threshold; outside half-open no
\* success is remembered, so a new probe starts from zero.
CountsBelowThreshold ==
    /\ state = "closed" => \E c \in InstalledConfigs : failureCount < c.FailureThreshold
    /\ state = "half_open" => \E c \in InstalledConfigs : successCount < c.SuccessThreshold
    /\ state # "half_open" => successCount = 0

\* Every counted request is counted once more as a success or a failure when it
\* ends, and not otherwise: the ends exceed the requests by the operations that
\* were running across a Reset and by nothing else (counters wrap).
RequestsAccounted ==
    (totals["requests"] + straddling) % CounterWidth =
      (totals["successes"] + totals["failures"] + Cardinality(InFlight)) % CounterWidth

\* Besides Reset and ForceClose only a result closes the breaker: in half-open,
\* and after SuccessThreshold successes that were all recorded since it went
\* half-open, with no failure among them, whoever fails, forces or reconfigures
\* in between.  Whose successes they are is not asked: those of requests that
\* were admitted before the trip count as well (circuit.go:193).  And no closed
\* breaker is put on probe.
ClosesOnlyFromProbe ==
    [][/\ state # "closed" /\ state' = "closed" =>
            \/ Operators /\ pc' = pc
            \/ state = "half_open" /\ streak + 1 >= config.SuccessThreshold
       /\ state = "closed" => state' # "half_open"]_vars

\* Once the broker is healthy and the operators are done, the breaker closes and
\* stays closed: no interleaving of stale results, slots and timeouts leaves it
\* rejecting, whatever was reset, forced or reconfigured before.  The exception
\* is a configuration that allows no probe at all.
HealsAfterRecovery ==
    recovered /\ config.MaxConcurrentRequests > 0 ~> [](state = "closed")

\* circuit.go:35 "Maximum number of concurrent requests in half-open state".
HalfOpenLimit == state = "half_open" => halfOpenRequests <= config.MaxConcurrentRequests
=============================================================================
