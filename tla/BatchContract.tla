---------------------------- MODULE BatchContract ----------------------------
(***************************************************************************)
(* What the batch coordinator promises about messages, with its queues,    *)
(* goroutines and timers left out: a message is taken once, and given to   *)
(* the batch handler at most once, together with messages of its topic and *)
(* never more than MaxMessages of them.                                    *)
(***************************************************************************)
EXTENDS Integers, FiniteSets

CONSTANTS Message, TopicOf, MaxMessages

VARIABLE stage  \* of each message: "outside", "batched" or "handed"

Init == stage = [m \in Message |-> "outside"]

Take(m) ==
    /\ stage[m] = "outside"
    /\ stage' = [stage EXCEPT ![m] = "batched"]

HandOver(S) ==
    /\ S # {} /\ Cardinality(S) <= MaxMessages
    /\ \A m \in S : stage[m] = "batched"
    /\ \A m, n \in S : TopicOf[m] = TopicOf[n]
    /\ stage' = [m \in Message |-> IF m \in S THEN "handed" ELSE stage[m]]

Next == (\E m \in Message : Take(m)) \/ (\E S \in SUBSET Message : HandOver(S))

Spec == Init /\ [][Next]_stage
=============================================================================
