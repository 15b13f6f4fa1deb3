SPECIFICATION Spec
CHECK_DEADLOCK FALSE
CONSTANTS
  Requests = {"r1", "r2", "r3"}
  Pods = {"p1", "p2"}
  Clients = {"c1"}
  All = "all"
  NumConnections = 2
  Targets = {"all"}
  NumMessages = 3
  BufferSize = 2
  PoolSize = 2
  DrainDelay = 1
  Graceful = 4
  DrainWait = 2
  GracePeriod = 6
  Quantities = {1, 2}
  InitialStock = 3
  MaxRestarts = 1
  MaxFailures = 1
  Ids = {1, 2, 3, 4, 5}
  Limits = {0, 1, 2}
  Tenants = {"acme", "globex"}
  Acme = "acme"
  MaxRules = 1
  Callers = {"alice"}
  NoIdentity = "none"
  BulkheadLimit = 1
  NumOrders = 2
  Queries = {"q1", "q2"}
  Stock <- Available
  Skus = {"s1", "s2", "s3"}
  MaxOrders = 3
  Calls = {"e1", "e2"}
  Kinds = {"no-timeout", "timeout", "retry", "breaker", "deadline", "bulkhead"}
  MaxAttempts = 3
  FailMax = 2
  Successes = 2
  Bulkhead = 1
  Readers = {"g1", "g2"}
  Writers = {"w1", "w2"}
  Gets = {"ca", "wt"}
  Puts = {"ca", "wt"}
  MaxVersion = 3
  MaxRedisErrors = 1
  Orders = {"o1", "o2", "o3"}
  Groups = {"shipping"}
  Partitions = {"p1", "p2"}
  NoPartition = "none"
  MaxRecords = 2
  MaxDuplicates = 1
  MaxLosses = 1
  MaxFaults = 1
INVARIANTS
  TypeOK
  
  OrderlyShutdown
  StockAccountedFor
  PutsReachTheirEntry
  PipelineKeepsOrders
  AnswersComplete
PROPERTIES
  LimitsHold
