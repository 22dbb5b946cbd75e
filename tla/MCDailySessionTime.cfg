SPECIFICATION Spec
CONSTANTS
  None = None
  DayTicks = 4
  Tolerance = 1
  FirstClock = 3
  FirstTotal = 1
  MaxClock = 7
  MaxSwitches = 1
  MaxSessions = 1
  MaxRestarts = 1
INVARIANTS TypeOK CompleteIsWatched CountedIsToday ChargingIsCounted
CHECK_DEADLOCK FALSE
