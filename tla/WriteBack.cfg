SPECIFICATION FairSpec
CONSTANTS
  Metrics = {m1, m2}
  NoMetric = NoMetric
  FlushBatch = 2
  MaxAttempts = 2
  MaxVersion = 2
  MaxStops = 1
  MaxRedisErrors = 1
CHECK_DEADLOCK FALSE
INVARIANTS
  TypeOK
  AckedWritesKept
  AttemptsBounded
PROPERTIES
  AckedWritesSettle
