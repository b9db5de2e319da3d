SPECIFICATION Spec
CONSTANTS
  t = t
  w = w
  g = g
  Base = base
  CheckTimer = check
  NoGroup = nogroup
  Events = {t, w, g}
  NotifyTpl <- Tpls
  Signals = {t, g}
  Waits = {w}
  Timers = {t, w}
  Group <- Groups
  Delays = {0, 2}
  Uses <- Cooperating
  MaxTime = 2
INVARIANTS
  TypeOK
  Deliverable
  Preempts
  ListsSound
  ClosedUnused
PROPERTIES
  TickNotices
