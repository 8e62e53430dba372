------------------------------ MODULE MCCircuit ------------------------------
(* Instances of CircuitBreaker for TLC. *)
EXTENDS CircuitBreaker

CONSTANTS r1, r2

Cfg(fail, succ, recovery, max) ==
    [FailureThreshold |-> fail, SuccessThreshold |-> succ, RecoveryTimeout |-> recovery,
     WindowDuration |-> 1, MaxConcurrentRequests |-> max]

\* NewCircuitBreaker turns the zeros into 2 successes and 1 concurrent request;
\* UpdateConfig installs them as they are.
StrictConfig == Cfg(2, 0, 1, 0)
LooseConfig == Cfg(1, 1, 2, 2)

BothConfigs == {StrictConfig, LooseConfig}
NoConfigs == {}

Callers2 == {r1, r2}
=============================================================================
