SPECIFICATION Spec
CONSTANTS
  m1 = m1
  m2 = m2
  m3 = m3
  ta = ta
  w1 = w1
  w2 = w2
  Message = {m1, m3}
  Topic = {ta}
  TopicOf <- OneTopic
  Size <- Oversized
  MaxMessages = 2
  MaxBytes = 3
  QueueSize = 1
  FlushCap = 1
  Worker = {w1}
  MaxStarts = 2
  Env = {"stop", "cancel", "flush"}
  NoBatch = NoBatch
  NoMessage = NoMessage
  NoTopic = NoTopic
INVARIANTS HandedAtMostOnce AnswersAreTrue
CHECK_DEADLOCK FALSE
