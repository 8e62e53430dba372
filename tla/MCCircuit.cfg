SPECIFICATION FairSpec
CONSTANTS
  r1 = r1
  r2 = r2
  Caller <- Callers2
  Configs <- BothConfigs
  StartConfig <- StrictConfig
  AgeCap = 2
  CountCap = 2
  CounterWidth = 2
  Operators = TRUE
INVARIANTS NoLeakedSlot CountsBelowThreshold RequestsAccounted
PROPERTIES ClosesOnlyFromProbe HealsAfterRecovery
CHECK_DEADLOCK FALSE
