SPECIFICATION Spec
CONSTANTS
  m1 = m1
  m2 = m2
  m3 = m3
  w1 = w1
  w2 = w2
  Messages = {m1, m2, m3}
  Workers = {w1, w2}
  RecipientOf <- TwoRecipients
  NoOne = noone
  LeaseLen = 2
  PerRecipient <- OnePerTwo
  PerRuntime <- TwoPerTick
  Recheck = 1
  RetryAfter = {1}
  Delays = {0}
  Day = 2
  QuietFrom = 1
  QuietTo = 0
  Minute = 1
  Fenced = TRUE
  Prompt = TRUE
  Erasures = FALSE
  Start = 0
  Horizon = 2
SYMMETRY Symmetric
INVARIANTS GuardHolds
CHECK_DEADLOCK FALSE
