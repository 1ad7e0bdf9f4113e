CONSTANTS
  Bytes = {"a", "b"}
  MaxBytes = 2
  Capacity = 2
  RepeatedStart = TRUE
SPECIFICATION Spec
INVARIANTS
  DiscardEndsAtStop
