SPECIFICATION Spec
CONSTANTS
  Sagas = {s1}
  Processes = {p1, p2}
  NoProc = NoProc
  NumSteps = 3
  FailingStep = 3
  MaxCrashes = 2
  MaxDbErrors = 1
CHECK_DEADLOCK FALSE
INVARIANTS
  ForwardLogExact
  UnwindsOnlyCommitted
