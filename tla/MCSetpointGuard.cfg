SPECIFICATION HSpec
CONSTANTS
  Absent = Absent
  Held = Held
  None = None
  Readings <- MCReadings
  MinCurrent = 2
  Intervals <- MCIntervals
  Gaps <- MCGaps
  Stale = 5
  MaxFrames = 4
INVARIANTS HTypeOK EvidenceIsHistory
PROPERTIES Corroborates
