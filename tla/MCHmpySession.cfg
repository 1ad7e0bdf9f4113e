\* One file name, two contents with a common first chunk, two uploads a boot,
\* one failing flash call, one power cut, a frame each way on the line.
CONSTANTS
  n1 = n1
  None = None
  Unknown = Unknown
  Torn = Torn
  Names = {n1}
  Chunks = {"a", "b"}
  Contents <- MCContents
  MaxUploads = 2
  MaxFaults = 1
  LineMax = 1
  MaxCuts = 1
SPECIFICATION Spec
INVARIANTS StartupExists UploadOwned AnsweredIsStored RepeatsAccepted
PROPERTIES ImplementsFileStore SilentHostReleases
CHECK_DEADLOCK FALSE
