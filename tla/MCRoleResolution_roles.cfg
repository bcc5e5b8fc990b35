SPECIFICATION FairSpec
CONSTANTS
  p1 = p1
  p3 = p3
  t1 = t1
  t2 = t2
  c1 = c1
  c2 = c2
  w1 = "w1"
  w2 = "w2"
  h1 = "h1"
  h2 = "h2"
  k1 = k1
  k2 = k2
  PlatformRoles = {"base", "agent"}
  Importers = {"mine", "yours"}
  MaxDepth = 3
  Permissions = {p1, p3}
  T3 = {p3}
  Tools = {t1, t2}
  Commands = {k1}
  Conditions = {c1, c2}
  Texts = {"w1", "w2"}
  People = {"h1", "h2"}
  Keys = {k1, k2}
  Default <- MCDefault
  Absent = Absent
  Null = Null
  Bad = Bad
  Families <- MCFamilies
INVARIANTS ResolvedAsWritten
PROPERTY ResolutionEnds
CHECK_DEADLOCK FALSE
