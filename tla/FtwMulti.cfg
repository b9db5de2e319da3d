SPECIFICATION Spec
CONSTANTS
  NumBlocks = 2
  Data = {d1, d2}
  Torn = torn
  SpareBlocks = 2
  Ranges <- OneRange
  QueueSize = 7
  AllocSizes = {2}
  NullPrivateData = {FALSE}
  Failing = {}
  MissingFvb = FALSE
  NoRequest = none
INVARIANTS
  Recoverable
PROPERTIES
  AtomicWrites
