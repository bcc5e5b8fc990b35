SPECIFICATION Spec
CONSTANTS
  h1 = h1
  s1 = s1
  s2 = s2
  ana = ana
  FactTurns = {t1, t2}
  Facts = {a, b}
  MaxFacts = 1
  FactTtl = 1
  Nothing = Nothing
  Free = Free
  MaxUses = 1
  FactHorizon = 2
  Threads = {h1}
  ThreadTurns = {u1, u2}
  KeepThreads = 1
  Never = never
  ThreadHorizon = 3
  Subjects = {ana, eva}
  Stores = {s1, s2}
  Retained <- BothStores
  Owner <- OwnedByAna
  Operators = {o1}
  MaxWrites = 1
INVARIANTS SubjectDataTrue
PROPERTIES LatestKept RetentionHolds
CHECK_DEADLOCK FALSE
