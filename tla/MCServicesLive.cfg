SPECIFICATION FairSpec
CHECK_DEADLOCK FALSE
CONSTANTS
  Requests = {"r1", "r2", "r3"}
  MaxOrders = 1
  MaxFailures = 1
  Merchants = {"m1"}
  Windows = {"w1"}
  MaxRecords = 2
  MaxCrashes = 1
  Orders = {"o1", "o2"}
  Cancels = {"c1", "c2"}

  
PROPERTIES
  RecordsArrive
  StaleCopiesHeal
  ConnectedClientsHear
  CallsSettle
