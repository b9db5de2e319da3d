SPECIFICATION Spec
CONSTANTS
  a = a
  v1 = v1
  v2 = v2
  Names = {a}
  HwNames = {}
  Values = {v1, v2}
  DataSize <- OneSize
  NoValue = novalue
  NoRequest = none
  StoreSize = 12
  HwErrSize = 0
  BootReserve = 0
  MaxVariableSize = 2
  MaxHwErrSize = 2
  Hobs <- NoHob
  MaxLosses = 2
  TornHeaders = FALSE
  Failing = {}
PROPERTIES
  AtomicSet
