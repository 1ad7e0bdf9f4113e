CONSTANTS
  MaxTickets = 2
  MaxCalls = 1
  MaxRuns = 1
  Kinds = {"lights"}
SPECIFICATION Spec
INVARIANT
  CoreFailureMeansFailure
CHECK_DEADLOCK FALSE
