CONSTANT
  MayLeaveWaiting = FALSE
SPECIFICATION AiFairSpec
INVARIANTS
  InputIsOneFrame
  ResultsAreCurrent
PROPERTIES
  WaitingAppLoads
  InferencesGoOn
CHECK_DEADLOCK FALSE
