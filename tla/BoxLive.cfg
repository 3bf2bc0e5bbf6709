SPECIFICATION FairSpec
CONSTANTS
  e1 = e1
  s1 = s1
  s2 = s2
  s3 = s3
  o1 = o1
  ob = ob
  Clients = {e1, s2, s3, o1}
  Observers = {ob}
  Exclusive = {e1}
  Legacy = {o1}
  FullSuite = {e1, s2}
  Detached = {}
  Capacity <- MCCapacity
  Weight <- MCWeight
  MaxSlots = 2
  None = None
CHECK_DEADLOCK FALSE
INVARIANT ScanInv
PROPERTY RefusalJustified
PROPERTY Served
