SPECIFICATION FairSpec
CONSTANTS
  o1 = o1  o2 = o2  d1 = d1  d2 = d2  t1 = t1  t2 = t2  c1 = c1  c2 = c2  w1 = w1
  Orders = {o1, o2}
  Drivers = {d1}
  Trips = {t1}
  Calls = {c1, c2}
  Workers = {w1}
  None = None
  Number <- MCNumber
  Seats <- MCSeats
  MaxSeats = 2
  SeatChoices = {2}
  MaxFaults = 0
  Sought = {}
PROPERTIES RideIsCompleted
CHECK_DEADLOCK FALSE
