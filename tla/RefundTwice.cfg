SPECIFICATION Spec
CONSTANTS
  o1 = o1  o2 = o2  d1 = d1  d2 = d2  t1 = t1  c1 = c1  c2 = c2  c3 = c3  c4 = c4
  Orders = {o1}
  Drivers = {d1, d2}
  Deposits = {t1}
  Calls = {c1, c2, c3, c4}
  None = None
  Owner <- MCOwner
  StartBalance <- MCStartBalance
  Fee = 2
  Amount = 1
SYMMETRY CallSymmetry
INVARIANTS RefundsOnlyPaid
CHECK_DEADLOCK FALSE
