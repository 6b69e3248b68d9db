SPECIFICATION FairSpec
CONSTANTS
  o1 = o1  d1 = d1  d2 = d2
  Orders = {o1}
  Drivers = {d1, d2}
  None = None
  StartSeats <- MCStartSeats
  Online = {d1}
  Publications = 1
  MaxRetries = 2
  MaxSends = 0
  Threshold = 1
  MaxRejects = 1
  MayBlock = {d1}
  MaxFaults = 1
PROPERTIES PendingResolves AcceptanceStands
CHECK_DEADLOCK FALSE
