SPECIFICATION FairSpec
CONSTANTS
  m1 = m1
  m2 = m2
  m3 = m3
  ta = ta
  w1 = w1
  w2 = w2
  Message = {m1}
  Topic = {ta}
  TopicOf <- OneTopic
  Size <- Oversized
  MaxMessages = 2
  MaxBytes = 3
  QueueSize = 1
  FlushCap = 1
  Worker = {w1}
  MaxStarts = 1
  Env = {"stop"}
  NoBatch = NoBatch
  NoMessage = NoMessage
  NoTopic = NoTopic
PROPERTY AcceptedIsHanded
CHECK_DEADLOCK FALSE
