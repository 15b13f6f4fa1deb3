SPECIFICATION FairSpec
CONSTANTS
  Sagas = {s1, s2}
  Processes = {p1}
  NoProc = NoProc
  NumSteps = 3
  FailingStep = 3
  MaxCrashes = 2
  MaxDbErrors = 1
CHECK_DEADLOCK FALSE
INVARIANTS
  TypeOK
  CompensatedOnceInReverse
  UndoFollowsDo
PROPERTIES
  CommittedStepsNotRepeated
  ImplementsSaga
  RunningSagaMovesOn
