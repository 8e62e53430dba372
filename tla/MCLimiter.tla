------------------------------ MODULE MCLimiter ------------------------------
(* Instances of RateLimiter for TLC. *)
EXTENDS RateLimiter, TLC

CONSTANTS h1, h2, h3, ip1, messages, config

Rate(perSecond, burst) == [RequestsPerSecond |-> perSecond, BurstSize |-> burst]

TwoLimits == [e \in Endpoint |-> IF e = messages THEN Rate(2, 2) ELSE Rate(1, 1)]
OtherLimits == {Rate(1, 2)}

SameHandlers == Permutations(Handler)
=============================================================================
