SPECIFICATION FairSpec
CONSTANTS
  m1 = m1
  m2 = m2
  m3 = m3
  w1 = w1
  w2 = w2
  Messages = {m1}
  Workers = {w1, w2}
  RecipientOf <- OneRecipient
  NoOne = noone
  LeaseLen = 1
  PerRecipient <- Unlimited
  PerRuntime <- Unlimited
  Recheck = 1
  RetryAfter = {1}
  Delays = {0, 1}
  Day = 3
  QuietFrom = 2
  QuietTo = 1
  Minute = 1
  Fenced = TRUE
  Prompt = FALSE
  Erasures = TRUE
  Start = 1
  Horizon = 4
INVARIANTS AtMostOnce
PROPERTIES RecordIsTrue RefusedStaysUnsent LapsedIsSettled
CHECK_DEADLOCK FALSE
