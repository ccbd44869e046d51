SPECIFICATION FairSpec
CONSTANTS
  a = a
  b = b
  target = target
  Files = {a, b, target}
  Turns <- MixedTurns
  MaxSteps = 2
  MaxNudges = 1
  MaxIdenticalFailures = 2
  DryRuns = {TRUE, FALSE}
  MaxRepeats = 1
  MaxStops = 1
CHECK_DEADLOCK FALSE
INVARIANTS
  BudgetIsKept
  UndoTakesAllBack
  WrittenIsRecorded
  ApprovedWasShown
PROPERTIES
  RunEnds
