SPECIFICATION Spec
CONSTANTS
  a = a  b = b  c = c  bare = bare  None = None
  N = 3
  Lanes = {a, b, c, bare}
  Bare = bare
  Cap <- Caps
  Setups <- All
  MaxSeeks = 2
INVARIANTS SlotsAccounted TurnsAdmitted NoLostWakeUp
PROPERTIES FinishedIsFinal WarmTurnsFirst
CHECK_DEADLOCK FALSE
