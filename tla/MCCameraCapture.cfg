CONSTANTS
  SlotCount = 2
  MaxSequence = 4
  MaxLeaseId = 3
  MaxBorrows = 2
SPECIFICATION FairSpec
INVARIANTS
  OneUserPerBuffer
  LeasesAgree
PROPERTIES
  FramesGetNewer
  FramesFlow
CHECK_DEADLOCK FALSE
