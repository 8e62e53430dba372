------------------------------- MODULE Backoff -------------------------------
(***************************************************************************)
(* The backoff strategies of internal/retry/backoff.go.  A strategy is the *)
(* record of what its constructor accepts.  Durations are integers, and    *)
(* multipliers whole numbers; what CalculateDelay may return is a set,     *)
(* since jitter is drawn at random.                                        *)
(***************************************************************************)
EXTENDS Integers

Positive == Nat \ {0}

\* The constructors panic for any other arguments.
Exponential == {b \in [kind : {"exponential"}, InitialDelay : Positive, Multiplier : Positive,
                       MaxDelay : Positive, Jitter : BOOLEAN] : b.MaxDelay >= b.InitialDelay}
Linear == {b \in [kind : {"linear"}, InitialDelay : Positive, Increment : Positive,
                  MaxDelay : Positive] : b.MaxDelay >= b.InitialDelay}
Fixed == [kind : {"fixed"}, Delay : Positive]

BackoffStrategy == Exponential \cup Linear \cup Fixed

\* NewExponentialBackoff turns the jitter on.
NewExponentialBackoff(initialDelay, multiplier, maxDelay) ==
    [kind |-> "exponential", InitialDelay |-> initialDelay, Multiplier |-> multiplier,
     MaxDelay |-> maxDelay, Jitter |-> TRUE]

NewLinearBackoff(initialDelay, increment, maxDelay) ==
    [kind |-> "linear", InitialDelay |-> initialDelay, Increment |-> increment, MaxDelay |-> maxDelay]

NewFixedBackoff(delay) == [kind |-> "fixed", Delay |-> delay]

\* Mutant: a delay is never cut.
Cap_Nothing(delay, maxDelay) == delay

Cap(delay, maxDelay) == IF delay > maxDelay THEN maxDelay ELSE delay

\* Ten percent less up to, but not including, ten percent more, in whole units.
\* It is added after the cap, so MaxDelay may be exceeded.
Jittered(delay) == ((9 * delay) \div 10)..((11 * delay - 1) \div 10)

\* math.Pow for whole numbers.
Power(m) ==
    LET p[n \in Nat] == IF n = 0 THEN 1 ELSE m * p[n - 1]
    IN p

CalculateDelay(b, attempt) ==
    LET n == IF attempt <= 0 THEN 1 ELSE attempt
        exponential == Cap(b.InitialDelay * Power(b.Multiplier)[n - 1], b.MaxDelay)
        linear == Cap(b.InitialDelay + (n - 1) * b.Increment, b.MaxDelay)
    IN IF b.kind = "exponential" THEN IF b.Jitter THEN Jittered(exponential)
                                                  ELSE exponential..exponential
       ELSE IF b.kind = "linear" THEN linear..linear
       ELSE b.Delay..b.Delay
=============================================================================
