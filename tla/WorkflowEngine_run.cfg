SPECIFICATION Spec
CONSTANTS
  a = a  b = b  c = c  judge = judge
  None = None
  Nodes = {a, b, c, judge}
  Deps <- MCDeps
  Judge <- MCJudge
  MaxAttempts <- MCMaxAttempts
  RetryOn <- MCRetryOn
  MayWrite <- MCMayWrite
  Timeouts = TRUE
  MaxTasks = 6
  MaxRuns = 2
  MaxTroubles = 1
CHECK_DEADLOCK FALSE
INVARIANTS NoStrayWorker GraphOrder RunIsJournalled AllSettle
PROPERTIES StoppedNeverAccepted
