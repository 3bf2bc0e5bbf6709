SPECIFICATION FairSpec
CONSTANTS
  Tasks = {t1}
  Sessions = {s1, s2}
  Agents = {a1}
  Workspaces = {w1}
  None = None
  MaxEpoch = 2
  ClaimCap = 2
  PrepareLimit = 2
  FreshContext = FALSE
  Managed = {}
  Quarantines = FALSE
  Requeues = TRUE
  Reopens = FALSE
  Blockable = {}
  MarkersLost = {}
  Restarts = TRUE
CHECK_DEADLOCK FALSE
PROPERTY PreparationEnds
PROPERTY ClosedHoldEnds
