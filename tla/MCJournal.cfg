SPECIFICATION SessionSpec
CONSTANTS
  s1 = s1
  s2 = s2
  p1 = p1
  p2 = p2
  Sessions = {s1}
  Homes = {{s1}}
  Paths = {p1}
  Plans <- SomePlans
  MaxUndos = 1
  MaxCrashes = 0
  MaxGrants = 0
CHECK_DEADLOCK FALSE
INVARIANT ReversalsAreTold
