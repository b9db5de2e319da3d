SPECIFICATION Spec
CONSTANTS
  NumBlocks = 2
  Data = {d1, d2}
  Torn = torn
  SpareBlocks = 2
  Ranges <- OneRange
  QueueSize = 5
  AllocSizes = {1}
  NullPrivateData = {TRUE}
  Failing <- WriteOperations
  MissingFvb = FALSE
  NoRequest = none
INVARIANTS
  Recoverable
PROPERTIES
  LostOnlyByAbort
