SPECIFICATION FairSpec
CONSTANTS
  c1 = c1
  c2 = c2
  i1 = i1
  i2 = i2
  Call = {c1, c2}
  Id = {i1, i2}
  IdOf <- OwnId
  Errors <- SomeErrors
  ErrorsOf <- SomeErrorsOf
  Policies <- AllPolicies
  StartPolicy <- ThreeAttempts
  Env = {"cancel", "policy", "reset"}
  NoCall = NoCall
INVARIANTS FatalErrorIsLast ResultAgreesWithReport MetricsCountResults ActiveMeansRetrying TotalDelayIsBounded
PROPERTY EveryCallEnds
CHECK_DEADLOCK FALSE
