SPECIFICATION Spec
CONSTANTS
  p1 = p1
  p2 = p2
  k1 = k1
  k2 = k2
  Caller = {p1, p2}
  Key = {k1, k2}
  Hash <- Hashes
  Counts = {2, 3}
  HalfRange = 4
  ManualPartition = 2
  Composed = {"sticky", "manual"}
  SwitchThreshold = 3
  SwitchInterval = 1
  RangeLists <- SomeRanges
  WeightLists <- SomeWeights
SYMMETRY SameCallers
INVARIANTS PartitionExists RoundRobinSpreads StickinessIsBounded
