---------------------------- MODULE MCPartitioners ----------------------------
(* Instances of Partitioners for TLC. *)
EXTENDS Partitioners, TLC

CONSTANTS p1, p2, k1, k2

Hashes == [k \in Key |-> IF k = k1 THEN 5 ELSE 4]

KeyRange(keys, partition) == [keys |-> keys, Partition |-> partition]
SomeRanges == {<<KeyRange({k1, k2}, 2), KeyRange({k1}, 0)>>, <<KeyRange({k2}, 1)>>,
               <<KeyRange({k1}, -1), KeyRange({k1, k2}, 1)>>}
SomeWeights == {<<0, 1, 1>>, <<0, 1>>, <<1, 0, 0, 2>>}

SameCallers == Permutations(Caller)
=============================================================================
