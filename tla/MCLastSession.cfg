SPECIFICATION LSpec
CONSTANTS
  None = None
  MaxSessions = 3
  MaxAmount = 1
INVARIANTS HTypeOK ReportedOnce ReportedIsOver FiguresOfOneSession NothingLost PublishedPromptly EventsPaired SnapshotIsReport
