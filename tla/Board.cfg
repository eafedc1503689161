SPECIFICATION Spec
CONSTANTS
  NoTime = 0
  NoFlight = NoFlight
  NoOne = NoOne
  Keep = Keep
  van = van
  flight = flight
  Jobs = {j1, j2}
  Reps = {p1}
  Cars = {van}
  Seats <- SeatsOf
  Whens <- WhensOf
  MaxPax = 2
  Requests = {r1, r2}
  MaxCalls = 4
SYMMETRY Symmetry
CHECK_DEADLOCK FALSE
INVARIANTS
  SeatsEnough
  RepNotTwice
  DoubleBookingWarned
