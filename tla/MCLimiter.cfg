SPECIFICATION Spec
CONSTANTS
  h1 = h1
  h2 = h2
  h3 = h3
  ip1 = ip1
  messages = messages
  config = config
  Handler = {h1, h2, h3}
  Client = {ip1}
  Endpoint = {messages, config}
  StartLimits <- TwoLimits
  Limits <- OtherLimits
  MaxInt = 9
  TicksPerSecond = 2
  ClientTimeout = 2
  MaxClock = 6
  MaxBuckets = 2
SYMMETRY SameHandlers
INVARIANT RateBound
PROPERTY BucketsAreKept
CHECK_DEADLOCK FALSE
