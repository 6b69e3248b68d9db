SPECIFICATION PartsSpec
CONSTANTS
  o1 = o1  o2 = o2  c1 = c1  c2 = c2  t1 = t1  t2 = t2  a1 = a1
  d1 = d1  d2 = d2  d3 = d3  None = None
  Orders = {o1, o2}
  KeyLife = 3
  Timers = {2, 4}
  Calls = {c1, c2}
  Kinds = {"message", "callback"}
  Limit <- LimitOf
  Threshold <- ThresholdOf
  Window = 1
  Term = 2
  MaxRequests = 1
  OrderWindow = 1
  MaxFaults = 1
  Texts = {t1, t2}
  Chats = {a1}
  MaxTries = 2
  Second = 1
  MaxDeaths = 2
  Drivers = {d1, d2, d3}
  Offset = 10
  BatchSize = 2
  MaxClock = 3
INVARIANTS PartsTypeOK OfferHoldsDriver RequestsAreBounded FirstIsPicked
PROPERTIES ShutOutEnds MessagesSettle SearchEnds
CHECK_DEADLOCK FALSE
