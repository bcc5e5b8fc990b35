SPECIFICATION FairSpec
CONSTANTS
  m1 = m1
  m2 = m2
  m3 = m3
  w1 = w1
  w2 = w2
  r1 = r1
  r2 = r2
  Messages = {m1, m2}
  Workers = {w1, w2}
  Replies = {r1}
  Fallback = fallback
  NoBody = nobody
  NoOwner = noowner
  ConvOf <- OneConversation
  PolicyMax <- OneAttempt
  DefaultMax = 1
  ClaimMax = 1
  ClaimLimit = 1
  Lease = 1
  RetryMax = 1
  Overlap = TRUE
  Timely = FALSE
PROPERTIES ExpiredLeaseRecoverable
CHECK_DEADLOCK FALSE
