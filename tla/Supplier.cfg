SPECIFICATION Spec
CONSTANTS
  NoOne = NoOne
  Keep = Keep
  NoRequest = NoRequest
  Drivers = {d1}
  Reps = {}
  Requests = {r1, r2}
  Services = {"ARR"}
  Routed = {TRUE}
  Collections = {FALSE}
  Ops <- SupplierOps
  JobTargets = {"COMPLETED"}
  LegTargets = {}
  Cars = {"own", "supplier", "clear", "tag"}
  InitialPhases = {4}
  InitialDays = {1}
  Delays = {}
  MaxAssignments = 1
SYMMETRY Slots
CHECK_DEADLOCK FALSE
INVARIANTS
  TypeOK
PROPERTIES
  WorkPinsAssignment
