SPECIFICATION Spec
CONSTANTS
  Pods = {pod1, pod2}
  Legs = {l1, l2}
  Messages = {m1}
  NoMessage = NoMessage
  MaxSent = 2
  MaxFaults = 2
CHECK_DEADLOCK FALSE
INVARIANTS
  ClosedOnce
  SentOnce
  SentIsTrue
PROPERTIES
  PastLegsClose
