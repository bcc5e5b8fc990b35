SPECIFICATION Spec
CONSTANTS
  s1 = s1
  s2 = s2
  s3 = s3
  w1 = w1
  w2 = w2
  Schedules = {s1}
  Workers = {w1}
  OwnerOf <- OneOwner
  NoOne = noone
  Recurrences <- Daily
  MinInterval = 3
  MaxPerUser = 1
  Grace = 0
  Day = 3
  Offset <- SpringForward
  QuietFrom = 0
  QuietTo = 1
  Horizon = 6
INVARIANTS AcceptedIsNotQuiet
CHECK_DEADLOCK FALSE
