SPECIFICATION Spec
CONSTANTS
  c = c
  d = d
  f = f
  v = v
  g1 = g1
  Tasks = {c, d, f, v}
  Gates = {g1}
  Writers = {1, 2}
  Starts <- MCStarts
  AllStrict = TRUE
  MaxOps = 2
  MaxFaults = 0
CHECK_DEADLOCK FALSE
INVARIANT ProjectionExact
