SPECIFICATION FairSpec
CHECK_DEADLOCK FALSE
CONSTANTS
  N = 3
  None = none
  Modes <- MainModes
INVARIANTS
  TypeOK
  Asserts
  OneBsp
  Balanced
  CleanSlate
  Drained
  NoNormalMode
PROPERTIES
  Leaves
  Served
