SPECIFICATION BucketsSpec
CONSTANTS
  None = None
  Absent = Absent
  Moved = 0
  MaxTotal = 4
  MaxSessions = 2
  MaxStarts = 2
INVARIANT SumIsDelivered
CHECK_DEADLOCK FALSE
