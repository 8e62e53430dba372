------------------------------- MODULE MCRetry -------------------------------
(* Instances of RetryCoordinator for TLC. *)
EXTENDS RetryCoordinator

CONSTANTS c1, c2, i1, i2

OwnId == [c \in Call |-> IF c = c1 THEN i1 ELSE i2]

Immediate == <<"network", "low">>
Later == <<"broker", "high">>
Never == <<"unknown", "critical">>
SomeErrors == {Immediate, Later, Never}
SomeErrorsOf == [c \in Call |-> IF c = c2 THEN {Immediate} ELSE SomeErrors]

\* The first retry reaches the cap of either strategy.
ThreeAttempts == [MaxAttempts |-> 3, Strategy |-> "exponential",
                  BackoffStrategy |-> NewExponentialBackoff(1, 3, 1), StopOnErrorTypes |-> {}]
TwoAttempts == [MaxAttempts |-> 2, Strategy |-> "linear",
                BackoffStrategy |-> NewLinearBackoff(1, 1, 1), StopOnErrorTypes |-> {"network"}]
\* Its delay is longer than any of the other policies, so a call that they let
\* retry may sleep longer than they say.
NoAttempts == [MaxAttempts |-> 0, Strategy |-> "fixed",
               BackoffStrategy |-> NewFixedBackoff(2), StopOnErrorTypes |-> {}]
AllPolicies == {ThreeAttempts, TwoAttempts, NoAttempts}
=============================================================================
