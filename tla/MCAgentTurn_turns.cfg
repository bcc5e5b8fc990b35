SPECIFICATION FairSpec
CONSTANTS
  t1 = t1
  t2 = t2
  Turns = {t1, t2}
  Permissions <- Classes
  Above <- Ancestors
  TierOf <- Tiers
  ToolNames <- Names
  SpecOf <- Specs
  Role <- Assistant
  Grants <- Granted
  Batch <- TwoThenOne
  Wanted <- WriteOnly
  MaxToolCalls = 1
  MaxToolErrors = 1
  Windows = {"day", "month"}
  Cap <- DayAndMonth
  EndsWith <- MonthEndsDay
  Current <- Callers
INVARIANTS ModelInputWellFormed ThreadIsTrue RanWithinGrants SpendBounded
PROPERTIES EveryTurnEnds
CHECK_DEADLOCK FALSE
