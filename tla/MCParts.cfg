SPECIFICATION PartsSpec
CONSTANTS
  None = None
  Absent = Absent
  MaxPolls = 5
  Lag = 2
  MaxWrites = 4
  MaxTouches = 2
  Moved = 1
  MaxTotal = 4
  MaxSessions = 2
  MaxStarts = 2
  MaxDamaged = 2
  Addresses = {a1, a2}
  First = a1
  Prefixes = {p1}
  MaxEntries = 2
  MaxFlows = 2
  MaxSubmits = 3
INVARIANTS
  PartsTypeOK
  NoFalseAlarm NoMissedAlarm SafeIsObserved
  NoSpringBack
  NotBookedTwice BoundaryNoticed
  DamageIsContained DriftIsOffset
  EntriesDistinct RunsWhatWasTested ServicesFollowEntries
PROPERTIES RealityWins
CHECK_DEADLOCK FALSE
