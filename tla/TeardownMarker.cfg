SPECIFICATION Spec
CONSTANTS
  Tasks = {t1}
  Sessions = {s1, s2}
  Agents = {a1, a2}
  Workspaces = {w1, w2}
  None = None
  MaxEpoch = 2
  ClaimCap = 2
  PrepareLimit = 3
  FreshContext = FALSE
  Managed = {}
  Quarantines = FALSE
  Requeues = FALSE
  Reopens = FALSE
  Blockable = {}
  MarkersLost = {}
  Restarts = TRUE
SYMMETRY Symmetry
CHECK_DEADLOCK FALSE
INVARIANT ClaimFileKept
