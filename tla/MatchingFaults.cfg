SPECIFICATION Spec
CONSTANTS
  o1 = o1  d1 = d1  d2 = d2
  Orders = {o1}
  Drivers = {d1}
  None = None
  StartSeats <- MCStartSeats
  Online = {d1}
  Publications = 2
  MaxRetries = 1
  MaxSends = 1
  Threshold = 2
  MaxRejects = 1
  MayBlock = {o1}
  MaxFaults = 2
INVARIANTS TypeOK SearchGoesOn
CHECK_DEADLOCK FALSE
