SPECIFICATION Spec
CONSTANTS
  Metrics = {m1, m2}
  NoMetric = NoMetric
  FlushBatch = 2
  MaxAttempts = 2
  MaxVersion = 2
  MaxStops = 0
  MaxRedisErrors = 1
CHECK_DEADLOCK FALSE
PROPERTIES
  FailedFlushRequeues
