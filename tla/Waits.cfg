SPECIFICATION FairSpec
CONSTANTS
  h1 = h1
  l1 = l1
  l2 = l2
  Tasks = {h1}
  Hibernators = {h1}
  Pausable = {h1}
  Listeners = {l1, l2}
  MaxSeq = 2
  Recoverable = TRUE
  MaxFaults = 1
  MaxProofs = 2
  MaxRepairs = 1
  Free = Free
  Gone = Gone
INVARIANT WaitInv
INVARIANT Frontier
INVARIANT NoLostWakeup
INVARIANT OneWriter
PROPERTY CursorMonotone
PROPERTY AckByCurrentWriter
PROPERTY WakesOnce
PROPERTY OutcomeTaken
