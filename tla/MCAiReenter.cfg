CONSTANT
  MayLeaveWaiting = TRUE
SPECIFICATION AiFairSpec
PROPERTIES
  DeferredUnloadCompletes
CHECK_DEADLOCK FALSE
