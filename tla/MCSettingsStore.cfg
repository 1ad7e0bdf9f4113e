CONSTANTS
  Values = {"default", "dim", "bright"}
  Default = "default"
  Delay = 2
  MaxSequence = 4
  MaxFailures = 2
SPECIFICATION FairSpec
INVARIANTS
  CleanMeansStored
PROPERTIES
  ChangesGetStored
  KeepsOneValue
