SPECIFICATION FairSpec
CONSTANTS
  m1 = m1
  m2 = m2
  m3 = m3
  ta = ta
  w1 = w1
  w2 = w2
  Message = {m1, m2, m3}
  Topic = {ta}
  TopicOf <- OneTopic
  Size <- Fitting
  MaxMessages = 2
  MaxBytes = 3
  QueueSize = 2
  FlushCap = 6
  Worker = {w1, w2}
  MaxStarts = 1
  Env = {}
  NoBatch = NoBatch
  NoMessage = NoMessage
  NoTopic = NoTopic
INVARIANTS FlushOnItsWay WithinLimits
PROPERTIES QueuedIsSettled ImplementsContract
CHECK_DEADLOCK FALSE
