CONSTANTS
  MaxTickets = 2
  MaxCalls = 2
  MaxRuns = 2
  Kinds = {"transfer", "lights"}
SPECIFICATION FairSpec
INVARIANTS
  VMOwnsRun
  RequestOwned
  LeasesReturned
PROPERTIES
  RunEnds
  CallAnswered
CHECK_DEADLOCK FALSE
