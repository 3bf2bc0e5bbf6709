SPECIFICATION FairSpec
CONSTANTS
  c = c
  d = d
  f = f
  v = v
  g1 = g1
  Tasks = {c, d, f, v}
  Gates = {g1}
  Writers = {1, 2}
  Starts <- MCStarts
  AllStrict = TRUE
  MaxOps = 2
  MaxFaults = 1
CHECK_DEADLOCK FALSE
INVARIANT GraphInv
INVARIANT ReleasedRight
INVARIANT HeldRight
INVARIANT HierarchyIsForest
PROPERTY StartsUnblocked
PROPERTY PlacedUnderOpen
PROPERTY SettledEventually
