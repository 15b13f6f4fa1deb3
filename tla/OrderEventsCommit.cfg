SPECIFICATION Spec
CONSTANTS
  Orders = {o1, o2}
  Groups = {shipping}
  Partitions = {p1}
  NoPartition = NoPartition
  MaxRecords = 2
  MaxDuplicates = 0
  MaxLosses = 0
  MaxFaults = 1
CHECK_DEADLOCK FALSE
INVARIANTS
  CommitAfterSideEffect
