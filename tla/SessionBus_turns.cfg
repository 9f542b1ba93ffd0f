SPECIFICATION FairSpec
CONSTANTS
  N = 3
  MaxIterations = 2
  MaxInterrupts = 1
  MaxUndos = 1
  MaxTakes = 1
  FsErrors = TRUE
  None = None
CHECK_DEADLOCK FALSE
INVARIANTS SubmissionsAccounted HistoryIntact
PROPERTIES Settles
