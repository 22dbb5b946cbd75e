SPECIFICATION HSpec
CONSTANTS
  None = None
  MaxSessions = 3
  MaxAmount = 1
INVARIANT NoStaleReplay
