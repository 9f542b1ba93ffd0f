SPECIFICATION Spec
CONSTANTS
  u = u
  v = v
  a = a
  b = b
  Sockets = {u, v}
  Sessions = {a, b}
  Cold = {a}
  Holds = 2
  Prompted = {a}
  MaxQueue = 1
  MaxFlows = 2
  MaxTroubles = 3
  None = None
INVARIANTS RoomsAgree QuestionsReach ContinuedOnce
PROPERTIES LogIsTakenOver
CHECK_DEADLOCK FALSE
SYMMETRY MCAlike
