SPECIFICATION Spec
CONSTANTS
  None = None
  DayTicks = 4
  Tolerance = 1
  FirstClock = 3
  FirstTotal = 1
  MaxClock = 8
  MaxSwitches = 0
  MaxSessions = 0
  MaxRestarts = 0
PROPERTIES ClosedDayWasWatched
CHECK_DEADLOCK FALSE
