------------------------------ MODULE MCPublish ------------------------------
(* Instances of PublishService for TLC. *)
EXTENDS PublishService

CONSTANTS one, two, refused

Plain == [
    topic |-> [name |-> "orders", length |-> 6, chars |-> "plain", first |-> "other", matches |-> {}],
    key |-> [length |-> 4, control |-> FALSE], value |-> 100,
    headers |-> {[name |-> "trace", key |-> 5, value |-> 16]},
    timestamp |-> 0, content |-> {}]

\* one publishes a message; the batch two has one before it whose topic has a
\* dot, which Message.Validate refuses; refused is a batch with a value that is
\* too large and a timestamp of last month.
Contents == [r \in Request |->
    CASE r = one -> <<Plain>>
      [] r = two -> <<[Plain EXCEPT !.topic.chars = "dotted"], Plain>>
      [] r = refused -> <<Plain, [Plain EXCEPT !.value = MB + 1],
                          [Plain EXCEPT !.timestamp = -30 * Day]>>]
=============================================================================
