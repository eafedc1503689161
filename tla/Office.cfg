SPECIFICATION FairSpec
CONSTANTS
  NoOne = NoOne
  Keep = Keep
  NoRequest = NoRequest
  Drivers = {d1}
  Reps = {p1}
  Requests = {r1, r2}
  Services = {"ARR"}
  Routed = {TRUE}
  Collections = {FALSE}
  Ops <- OfficeOps
  JobTargets = {"IN_PROGRESS", "COMPLETED", "CANCELLED"}
  LegTargets = {}
  Cars = {"own"}
  InitialPhases = {4}
  InitialDays = {0}
  Delays = {}
  MaxAssignments = 2
CHECK_DEADLOCK FALSE
INVARIANTS
  CompletedIsPaid
  FeesOnce
PROPERTIES
  RequestsEnd
