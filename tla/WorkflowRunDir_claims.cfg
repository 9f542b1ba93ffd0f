SPECIFICATION RunDirSpec
CONSTANTS
  p = p
  q = q
  r = r
  f = f
  g = g
  h = h
  k = k
  Procs = {p, q, r}
  Starting = {q, r}
  Flows = {f, g, h, k}
  Home <- MCHome
  Rounds = 4
  MaxTroubles = 4
  Dead = Dead
  None = None
INVARIANTS ClaimsExclude
PROPERTIES JudgedLostWhenLost
CHECK_DEADLOCK FALSE
SYMMETRY MCAlike
