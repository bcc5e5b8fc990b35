SPECIFICATION Spec
CONSTANTS
  m1 = m1
  m2 = m2
  m3 = m3
  w1 = w1
  w2 = w2
  Messages = {m1}
  Workers = {w1}
  RecipientOf <- OneRecipient
  NoOne = noone
  LeaseLen = 2
  PerRecipient <- Unlimited
  PerRuntime <- Unlimited
  Recheck = 1
  RetryAfter = {1}
  Delays = {0}
  Day = 6
  QuietFrom = 4
  QuietTo = 1
  Minute = 2
  Fenced = TRUE
  Prompt = TRUE
  Erasures = FALSE
  Start = 0
  Horizon = 4
INVARIANTS QuietUntilEnds
CHECK_DEADLOCK FALSE
