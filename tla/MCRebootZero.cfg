SPECIFICATION Spec
CONSTANTS
  None = None
  Absent = Absent
  Held = Held
  Fast = 1
  Slow = 2
  Stale = 3
  Latency = 1
  Early = 0
  BootWindow = 2
  MaxClock = 4
  MaxBoots = 1
  MaxExtras = 1
  MaxSessions = 1
  MaxAmount = 1
INVARIANTS RebootZeroNeverConfirms
CHECK_DEADLOCK FALSE
