SPECIFICATION Spec
CONSTANTS
  NoDevice = NoDevice
  Devices = {phone, tablet}
  Requests = {r1, r2}
  Ops <- AllOps
  MaxSessions = 2
  MaxCrashes = 1
SYMMETRY Symmetry
CHECK_DEADLOCK FALSE
INVARIANTS
  RevokedStaysOut
  LiveIsListed
PROPERTIES
  OwnEndOnly
