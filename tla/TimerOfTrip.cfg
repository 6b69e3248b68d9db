SPECIFICATION Spec
CONSTANTS
  o1 = o1  o2 = o2  d1 = d1  d2 = d2  t1 = t1  t2 = t2  c1 = c1  c2 = c2  w1 = w1
  Orders = {o1, o2}
  Drivers = {d1, d2}
  Trips = {t1, t2}
  Calls = {c1}
  Workers = {w1}
  None = None
  Number <- MCNumber
  Seats <- MCSeats
  MaxSeats = 2
  SeatChoices = {1, 2}
  MaxFaults = 0
  Sought = {}
INVARIANTS TimerKeepsToItsTrip
CHECK_DEADLOCK FALSE
