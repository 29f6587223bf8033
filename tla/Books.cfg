SPECIFICATION FairSpec
CONSTANTS
  e0 = e0
  e1 = e1
  e2 = e2
  j1 = j1
  w1 = w1
  w2 = w2
  s1 = s1
  None = None
  Events <- MCPair
  Replaces <- MCPairReplaces
  Voids = {}
  Manuals = {j1}
  Workers = {w1, w2}
  Desks = {s1}
  Last = 2
  MaxTrouble = 1
INVARIANTS TypeOK ReplacedHasNoEffect
PROPERTIES NothingIntoClosedMonth EventSettles
CHECK_DEADLOCK FALSE
