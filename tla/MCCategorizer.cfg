SPECIFICATION Spec
CONSTANTS
  g1 = g1
  g2 = g2
  connectionLost = connectionLost
  denied = denied
  garbled = garbled
  outage = outage
  Goroutine = {g1, g2}
  Defaults <- SomeDefaults
  Custom <- TwoCustom
  Compiles <- SomePatterns
  Message = {connectionLost, denied, garbled, outage}
  Matches <- SomeMatches
  Nobody = Nobody
  MaxCalls = 3
SYMMETRY Symmetric
INVARIANTS DefaultsDecide DecisionsAgree
PROPERTY AddingNeverForgives
CHECK_DEADLOCK FALSE
