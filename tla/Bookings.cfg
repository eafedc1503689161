SPECIFICATION Spec
CONSTANTS
  NoLeg = NoLeg
  NoSession = NoSession
  Legs = {b1}
  StripeSessions = {s1}
  GetPayInSessions = {}
  Requests = {r1, r2}
  Groupings = {FALSE}
  Initial = {"ABSENT"}
  Methods = {"ONLINE", "PAY_ON_ARRIVAL"}
  Schedules = {0, 1}
  Ops <- BookingOps
  Rollover = 10
  Attempts = 5
  MaxJobs = 3
  MaxCrashes = 1
SYMMETRY Slots
CHECK_DEADLOCK FALSE
INVARIANTS
  NewestLinked
  OneJob
  CancelReachesJob
  AmendReachesJob
