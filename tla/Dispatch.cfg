SPECIFICATION Spec
CONSTANTS
  NoOne = NoOne
  Keep = Keep
  NoRequest = NoRequest
  Drivers = {d1}
  Reps = {p1, p2}
  Requests = {r1, r2}
  Services = {"DEP"}
  Routed = {FALSE}
  Collections = {FALSE}
  Ops <- DispatchOps
  JobTargets = {"CANCELLED"}
  LegTargets = {"COMPLETED"}
  Cars = {"own"}
  InitialPhases = {3}
  InitialDays = {2}
  Delays = {}
  MaxAssignments = 1
SYMMETRY Slots
CHECK_DEADLOCK FALSE
INVARIANTS
  LegsSettle
PROPERTIES
  ParkedStays
