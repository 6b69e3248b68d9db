SPECIFICATION PartsSpec
CONSTANTS
  o1 = o1  o2 = o2  d1 = d1  d2 = d2  c1 = c1  c2 = c2  t1 = t1  t2 = t2  w1 = w1
  Orders = {o1, o2}
  Drivers = {d1, d2}
  None = None
  Calls = {c1, c2}
  Trips = {t1, t2}
  PassengerCount <- MCPassengerCount
  StartSeats <- MCStartSeats
  StartBalance <- MCStartBalance
  Commission = 1
  MaxRetries = 2
  Sought = {o1}
  RideCalls = {c1}
  Workers = {w1}
  MaxSeats = 2
  SeatChoices = {2}
  MaxFaults = 1
INVARIANTS TypeOK OneWinner OneOpenTrip TripSeatsMatch
PROPERTIES ClaimsAtomically KeyLeftToItsHolder FullCarScheduled CallsAnswer RideEnds
CHECK_DEADLOCK FALSE
