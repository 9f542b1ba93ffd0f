SPECIFICATION FairSpec
CONSTANTS
  a = a  b = b  c = c  bare = bare  None = None
  N = 3
  Lanes = {a, b, c, bare}
  Bare = bare
  Cap <- Caps
  Setups <- JustPlacing
  MaxSeeks = 1
PROPERTIES EveryTurnProceeds
CHECK_DEADLOCK FALSE
