SPECIFICATION Spec
CONSTANTS
  Tasks = {t1, t2}
  Sessions = {s1, s2}
  Agents = {a1}
  Workspaces = {w1}
  None = None
  MaxEpoch = 2
  ClaimCap = 2
  PrepareLimit = 2
  FreshContext = FALSE
  Managed = {}
  Quarantines = FALSE
  Requeues = FALSE
  Reopens = FALSE
  Blockable = {}
  MarkersLost = {}
  Restarts = TRUE
SYMMETRY TaskSymmetry
CHECK_DEADLOCK FALSE
INVARIANT ClaimFileNotForeign
PROPERTY OnlyHolderEndsLease
PROPERTY CompletedByItsHolder
