SPECIFICATION Spec
CONSTANTS
  NoLeg = NoLeg
  NoSession = NoSession
  Legs = {b1}
  StripeSessions = {}
  GetPayInSessions = {}
  Requests = {r1, r2}
  Groupings = {FALSE}
  Initial = {"ABSENT"}
  Methods = {"ONLINE"}
  Schedules = {0}
  Ops = {"office", "convert", "partner"}
  Rollover = 3
  Attempts = 5
  MaxJobs = 4
  MaxCrashes = 0
SYMMETRY Slots
CHECK_DEADLOCK FALSE
INVARIANT
  SamePattern
