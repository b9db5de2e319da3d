SPECIFICATION Spec
CONSTANTS
  a = a
  v1 = v1
  v2 = v2
  Names = {a, b, h}
  HwNames = {h}
  Values = {v1, v2}
  DataSize <- TwoSizes
  NoValue = novalue
  NoRequest = none
  StoreSize = 8
  HwErrSize = 3
  BootReserve = 0
  MaxVariableSize = 3
  MaxHwErrSize = 2
  Hobs <- LongInHob
  MaxLosses = 1
  TornHeaders = FALSE
  Failing = {"state", "ftw"}
INVARIANTS
  Accounted
  InSync
PROPERTIES
  NeverLost
  HobKept
