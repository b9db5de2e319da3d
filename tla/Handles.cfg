SPECIFICATION FairSpec
CONSTANTS
  Root = root
  k1 = k1
  k2 = k2
  Kids <- MCKids
  Null = null
  Scenarios <- MCScenarios
INVARIANTS
  TypeOK
  OneManager
  ParentsStay
  ReaderMissesNothing
  Reconnected
PROPERTIES
  Returns
