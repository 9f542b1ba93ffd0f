SPECIFICATION Spec
CONSTANTS
  Chunks = 2
  MaxMessages = 3
  MaxLinks = 2
  MaxTroubles = 2
  MaxLag = 1
  MaxAsks = 2
  None = None
CHECK_DEADLOCK FALSE
INVARIANTS CursorIsExact TranscriptIsLog
