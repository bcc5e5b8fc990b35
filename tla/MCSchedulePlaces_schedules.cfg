SPECIFICATION PartSpec
CONSTANTS
  s1 = s1
  s2 = s2
  s3 = s3
  w1 = w1
  w2 = w2
  Schedules = {s1, s2, s3}
  Workers = {w1, w2}
  OwnerOf <- OneOwner
  NoOne = noone
  Recurrences <- Mixed
  MinInterval = 2
  MaxPerUser = 1
  Grace = 2
  Day = 3
  Offset <- NoOffset
  QuietFrom = 2
  QuietTo = 0
  Horizon = 6
INVARIANTS WindowRunsOnce RunsOnTime CapHeld
PROPERTIES DeletedStaysDeleted DueIsClaimed
CHECK_DEADLOCK FALSE
