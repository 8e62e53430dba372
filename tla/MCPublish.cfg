SPECIFICATION FairSpec
CONSTANTS
  one = one
  two = two
  refused = refused
  Request = {one, two, refused}
  Single = {one}
  Content <- Contents
  MaxBatch = 3
  Producers = {"mock", "sarama"}
  ContextEnds = {"cancelled", "deadline"}
INVARIANTS SuccessIsDelivered StatusTellsOutcome DrainedBeforeClose
PROPERTIES RequestsAnswered ShutdownEnds ImplementsContract
CHECK_DEADLOCK FALSE
