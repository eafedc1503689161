SPECIFICATION Spec
CONSTANTS
  NoOne = NoOne
  Keep = Keep
  NoRequest = NoRequest
  Drivers = {d1}
  Reps = {p1}
  Requests = {r1, r2}
  Services = {"ARR", "DEP"}
  Routed = {TRUE}
  Collections = {TRUE}
  Ops <- PortalOps
  JobTargets = {}
  LegTargets = {}
  Cars = {"own"}
  InitialPhases = {3}
  InitialDays = {1}
  Delays = {3}
  MaxAssignments = 1
SYMMETRY Slots
CHECK_DEADLOCK FALSE
INVARIANTS
  LegsSettle
  CompletedIsPaid
PROPERTIES
  ParkedStays
