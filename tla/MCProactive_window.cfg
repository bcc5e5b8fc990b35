SPECIFICATION Spec
CONSTANTS
  m1 = m1
  m2 = m2
  m3 = m3
  w1 = w1
  w2 = w2
  Messages = {m1, m2}
  Workers = {w1, w2}
  RecipientOf <- OneRecipient
  NoOne = noone
  LeaseLen = 3
  PerRecipient <- OnePerTick
  PerRuntime <- Unlimited
  Recheck = 1
  RetryAfter = {1}
  Delays = {0}
  Day = 2
  QuietFrom = 0
  QuietTo = 0
  Minute = 1
  Fenced = TRUE
  Prompt = FALSE
  Erasures = FALSE
  Start = 0
  Horizon = 3
INVARIANTS WithinLimits
CHECK_DEADLOCK FALSE
