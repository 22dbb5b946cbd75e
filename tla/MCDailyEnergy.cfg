SPECIFICATION Spec
CONSTANTS
  None = None
  DayTicks = 4
  Tolerance = 1
  FirstTotal = 4
  MaxClock = 8
  MaxTail = 1
  MaxLosses = 1
  MaxRestarts = 1
INVARIANTS TypeOK DayNotInflated CompleteIsWhole
PROPERTIES NoUnannouncedFall
CHECK_DEADLOCK FALSE
