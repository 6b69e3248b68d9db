SPECIFICATION PartsSpec
CONSTANTS
  c1 = c1  c2 = c2  k1 = k1  i1 = i1  i2 = i2
  Calls = {c1, c2}
  Clerks = {k1}
  Items = {i1, i2}
  MaxFaults = 1
  MaxChanges = 1
  MaxMishaps = 1
INVARIANTS PartsTypeOK RoleHasProfile CacheFollowsRole StateFitsRole RequestPerAmount
SYMMETRY Symmetry
CHECK_DEADLOCK FALSE
