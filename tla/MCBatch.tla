------------------------------- MODULE MCBatch -------------------------------
(* Instances of BatchCoordinator for TLC. *)
EXTENDS BatchCoordinator

CONSTANTS m1, m2, m3, ta, w1, w2

OneTopic == [m \in Message |-> ta]

\* With batches of at most 2 messages and 3 bytes: m3 fits in no batch.
Oversized == [m \in Message |-> IF m = m3 THEN 4 ELSE 2]

\* m1 fills a batch with either of the others, which do not fit in one batch.
Fitting == [m \in Message |-> IF m = m1 THEN 1 ELSE 2]
=============================================================================
