SPECIFICATION Spec
CONSTANTS
  Requests = {r1, r2}
  MaxTokens = 3
  Apps = {"web", "mobile"}
CHECK_DEADLOCK FALSE
INVARIANTS
  NobodyStranded
  ExpiryUnnoticed
PROPERTIES
  CallsEnd
