CONSTANTS
  HkRequests = {"h1", "h2"}
  DlpRequests = {"d1", "d2"}
  Payloads = {"x"}
  Protocols = {{"HK"}, {"DLP"}}
  Ring = 5
  Chunk = 5
  MayRetimeAWrite = FALSE
  MaxFaults = 2
SPECIFICATION FairSpec
INVARIANTS
  WireIntact
PROPERTIES
  RequestsAnswered
