SPECIFICATION Spec
CONSTANTS
  e1 = e1
  s1 = s1
  s2 = s2
  s3 = s3
  o1 = o1
  ob = ob
  Clients = {e1, s1, s2, o1}
  Observers = {}
  Exclusive = {e1}
  Legacy = {o1}
  FullSuite = {e1, s2}
  Detached = {}
  Capacity <- MCCapacity
  Weight <- MCWeight
  MaxSlots = 3
  None = None
CHECK_DEADLOCK FALSE
INVARIANT BoxInv
INVARIANT BoxExclusive
INVARIANT RunningHolds
INVARIANT WaitersHoldNothing
INVARIANT LegacyFenced
PROPERTY NotOvertaken
PROPERTY AdmissionSpec
