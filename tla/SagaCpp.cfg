SPECIFICATION FairSpec
CONSTANTS
  Sagas = {s1, s2}
  Request = Request
  Resume = Resume
  NoDriver = NoDriver
  NumSteps = 3
  FailingStep = 3
  MaxCrashes = 2
  MaxDbErrors = 1
CHECK_DEADLOCK FALSE
INVARIANTS
  TypeOK
  LogMatchesRow
PROPERTIES
  ImplementsSaga
  EverySagaTerminates
