SPECIFICATION Spec
CONSTANTS
  Jobs = {j1, j2}
  Requests = {r1, r2}
  Ops <- AllOps
  Limit = 2
  MaxInvoices = 2
  MaxEdits = 1
  MaxStale = 1
SYMMETRY Symmetry
CHECK_DEADLOCK FALSE
INVARIANTS
  PaidIsCovered
  SettledExactly
  TotalIsLines
  CycleBillsOnce
  WithinCredit
PROPERTIES
  Immutable
