SPECIFICATION Spec
CONSTANTS
  s1 = s1
  s2 = s2
  s3 = s3
  w1 = w1
  w2 = w2
  Schedules = {s1}
  Workers = {w1}
  OwnerOf <- OneOwner
  NoOne = noone
  Recurrences <- EveryThree
  MinInterval = 3
  MaxPerUser = 1
  Grace = 2
  Day = 2
  Offset <- NoOffset
  QuietFrom = 0
  QuietTo = 0
  Horizon = 6
INVARIANTS RunsFarApart
CHECK_DEADLOCK FALSE
