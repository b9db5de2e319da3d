SPECIFICATION Spec
CONSTANTS
  a = a
  v1 = v1
  v2 = v2
  Names = {a, h}
  HwNames = {h}
  Values = {v1, v2}
  DataSize <- TwoSizes
  NoValue = novalue
  NoRequest = none
  StoreSize = 10
  HwErrSize = 3
  BootReserve = 2
  MaxVariableSize = 3
  MaxHwErrSize = 3
  Hobs <- OneInHob
  MaxLosses = 1
  TornHeaders = TRUE
  Failing = {}
INVARIANTS
  SetVisible
PROPERTIES
  AtomicSet
  RoomForOs
