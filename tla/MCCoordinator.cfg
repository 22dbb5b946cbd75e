SPECIFICATION Spec
CONSTANTS
  None = None
  Absent = Absent
  Held = Held
  Fast = 2
  Slow = 3
  Stale = 3
  Latency = 1
  Early = 1
  BootWindow = 2
  MaxClock = 4
  MaxBoots = 2
  MaxExtras = 1
  MaxSessions = 1
  MaxAmount = 1
INVARIANTS TypeOK BootZeroStaysHidden NoTransitionAcrossLongGap DevicePageCurrent
  LossConfirmsByThirdPoll
CHECK_DEADLOCK FALSE
