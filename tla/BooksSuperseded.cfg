SPECIFICATION Spec
CONSTANTS
  e0 = e0
  e1 = e1
  e2 = e2
  j1 = j1
  w1 = w1
  s1 = s1
  None = None
  Events <- MCEvents
  Replaces <- MCReplaces
  Voids = {}
  Manuals = {j1}
  Workers = {w1}
  Desks = {s1}
  Last = 2
  MaxTrouble = 0
INVARIANT FactPostsOnce
CHECK_DEADLOCK FALSE
