SPECIFICATION SessionFairSpec
CONSTANTS
  s1 = s1
  s2 = s2
  p1 = p1
  p2 = p2
  Sessions = {s1, s2}
  Homes = {{s1, s2}, {s1}}
  Paths = {p1, p2}
  Plans <- SomePlans
  MaxUndos = 2
  MaxCrashes = 1
  MaxGrants = 1
CHECK_DEADLOCK FALSE
INVARIANTS
  WorkspaceIsJournal
  CoveredBySnapshot
PROPERTIES
  SessionEnds
