SPECIFICATION Spec
CONSTANTS
  Tasks = {t1}
  Sessions = {s1, s2}
  Agents = {a1, a2}
  Workspaces = {w1, w2}
  None = None
  MaxEpoch = 2
  ClaimCap = 1
  PrepareLimit = 3
  FreshContext = TRUE
  Managed = {t1}
  Quarantines = TRUE
  Requeues = FALSE
  Reopens = FALSE
  Blockable = {}
  MarkersLost = {w1, w2}
  Restarts = TRUE
SYMMETRY Symmetry
CHECK_DEADLOCK FALSE
INVARIANT GrantInv
INVARIANT NoStrandedAssignment
PROPERTY AttachedWriterKept
PROPERTY LeaseSpec
