SPECIFICATION Spec
CONSTANTS
  Files = {"src", "pkg", "old"}
  Dir = "dir"
  Inside = {"src"}
  Legacy = "old"
  Declared = "pkg"
  Items = {"a", "b", "bad"}
  Rejected = {"bad"}
  Disks <- MCDisks
  Plans <- MCPlans
  MaxEdits = 1
  Procs = {p1, p2}
  Sessions = {s1}
  ReadAll = all
  Caps = {all, deploy}
  Minutes = 2
  MaxTime = 4
  Users = {daemon, shell}
  Ids = {i1, i2, i3}
  Limit = 2
INVARIANTS
  PreviewIsResult FailedLeavesNothing
  GrantsAreExact TrayIsExact
CONSTRAINT StillKnown
SYMMETRY Symmetry
