SPECIFICATION GroundSpec
CONSTANTS
  None = None
  Absent = Absent
  MaxPolls = 5
PROPERTIES FaultKept
