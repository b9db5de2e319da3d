SPECIFICATION Spec
CONSTANTS
  t = t
  w = w
  g = g
  Base = base
  CheckTimer = check
  NoGroup = nogroup
  Events = {t}
  NotifyTpl <- Tpls
  Signals = {t}
  Waits = {}
  Timers = {t}
  Group <- Groups
  Delays = {1}
  Uses <- Closing
  MaxTime = 1
INVARIANTS
  ClosedUnused
