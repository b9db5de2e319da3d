SPECIFICATION Spec
CONSTANTS
  a = a
  b = b
  v1 = v1
  v2 = v2
  Names = {a, b}
  HwNames = {}
  Values = {v1, v2}
  DataSize <- TwoSizes
  NoValue = novalue
  NoRequest = none
  StoreSize = 6
  HwErrSize = 0
  BootReserve = 0
  MaxVariableSize = 3
  MaxHwErrSize = 3
  Hobs <- NoHob
  MaxLosses = 1
  TornHeaders = FALSE
  Failing = {"state", "entry", "ftw", "repair"}
INVARIANTS
  TypeOK
  Within
