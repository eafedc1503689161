SPECIFICATION FairSpec
CONSTANTS
  NoLeg = NoLeg
  NoSession = NoSession
  Legs = {out, back}
  StripeSessions = {s1}
  GetPayInSessions = {g1}
  Requests = {r1, r2}
  Groupings = {TRUE, FALSE}
  Initial = {"CONFIRMED"}
  Methods = {"ONLINE"}
  Schedules = {0}
  Ops <- CheckoutOps
  Rollover = 10
  Attempts = 5
  MaxJobs = 1
  MaxCrashes = 1
CHECK_DEADLOCK FALSE
INVARIANTS
  PaidIsBacked
  LegsAgree
  Invoiced
  CashHasReason
PROPERTIES
  PaidStays
  LedgerSpec
  CapturesSettle
