SPECIFICATION FairSpec
CONSTANTS
  NumBlocks = 2
  Data = {d1, d2}
  Torn = torn
  SpareBlocks = 2
  Ranges <- AllRanges
  QueueSize = 5
  AllocSizes = {1}
  NullPrivateData = {TRUE}
  Failing = {}
  MissingFvb = FALSE
  NoRequest = none
INVARIANTS
  TypeOK
  Recoverable
  Available
  AllocateGranted
PROPERTIES
  AtomicWrites
  ReturnsToCaller
