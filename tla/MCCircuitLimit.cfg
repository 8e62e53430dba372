SPECIFICATION Spec
CONSTANTS
  r1 = r1
  r2 = r2
  Caller <- Callers2
  Configs <- NoConfigs
  StartConfig <- StrictConfig
  AgeCap = 1
  CountCap = 2
  CounterWidth = 1
  Operators = FALSE
INVARIANT HalfOpenLimit
CHECK_DEADLOCK FALSE
