SPECIFICATION Spec
CONSTANTS
  N = 3
  None = none
  Modes <- HeldUpModes
INVARIANTS
  NoNormalMode
