SPECIFICATION FairSpec
CONSTANTS
  p1 = p1
  p2 = p2
  Processes = {p1, p2}
  Events = {1, 2, 3, 4, 5}
  HomeOf <- Alternating
  CorrOf <- TwoRequests
  Free = free
  Capacity = 1
  BatchMax = 2
INVARIANTS TrailInOrder LossCounted NoLockCycle
PROPERTIES EveryEventLeaves
CHECK_DEADLOCK FALSE
