SPECIFICATION HSpec
CONSTANTS
  Counters = {k1}
  Tracked = k1
  k1 = k1
  Absent = Absent
  Held = Held
  None = None
  Readings <- MCReadings
  Intervals <- MCIntervals
  Gaps <- MCGaps
  Stale = 5
  MaxFrames = 4
INVARIANTS HTypeOK EvidenceIsHistory
PROPERTIES Corroborates
