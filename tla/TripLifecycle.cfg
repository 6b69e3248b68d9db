SPECIFICATION PartsSpec
CONSTANTS
  o1 = o1  o2 = o2  d1 = d1  d2 = d2  t1 = t1  t2 = t2  c1 = c1  c2 = c2  w1 = w1  w2 = w2
  Orders = {o1, o2}
  Drivers = {d1, d2}
  Trips = {t1, t2}
  Calls = {c1, c2}
  Workers = {w1}
  None = None
  Number <- MCNumber
  Seats <- MCSeats
  MaxSeats = 2
  SeatChoices = {2}
  MaxFaults = 0
  Sought = {o1, o2}
  Tellers = {w1, w2}
  Ids = {1, 2, 3, 4}
  MaxChanges = 3
  MaxMishaps = 1
INVARIANTS PartsTypeOK RidesWithItsDriver PlaceIsTold
PROPERTIES StatusMovesForward
SYMMETRY Symmetry
CHECK_DEADLOCK FALSE
