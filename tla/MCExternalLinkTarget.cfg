CONSTANTS
  Bytes = {"a", "b"}
  MaxBytes = 2
  Capacity = 2
  RepeatedStart = FALSE
SPECIFICATION Spec
INVARIANTS
  WindowIntact
  NoSilentLoss
  ResponseIntact
