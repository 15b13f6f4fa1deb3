SPECIFICATION ConsumerFairSpec
CONSTANTS
  Orders = {o1, o2}
  Poison = Poison
  Partitions = {p1, p2}
  NoPartition = NoPartition
  MaxMessages = 2
  MaxInsertErrors = 1
  MaxStops = 2
CHECK_DEADLOCK FALSE
INVARIANTS
  ConsumerTypeOK
  CommitAfterSideEffect
PROPERTIES
  ImplementsAtLeastOnce
  EveryOrderHandled
