SPECIFICATION Spec
CONSTANTS
  c1 = c1
  c2 = c2
  s1 = s1
  Calls = {c1, c2}
  Sessions = {s1}
  SessionOf <- MCSessionOf
  RespawnCap = 1
  WindowDeaths = 1
  MaxChildren = 2
  MaxEntries = 2
  MaxPosts = 1
  MaxTroubles = 2
  None = None
CHECK_DEADLOCK FALSE
INVARIANTS CallsAccounted PoolIsSound AllSettle
PROPERTIES NoCrashLoop
