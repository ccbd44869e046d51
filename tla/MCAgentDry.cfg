SPECIFICATION Spec
CONSTANTS
  a = a
  b = b
  target = target
  Files = {a, b, target}
  Turns <- MixedTurns
  MaxSteps = 2
  MaxNudges = 1
  MaxIdenticalFailures = 2
  DryRuns = {TRUE}
  MaxRepeats = 0
  MaxStops = 0
CHECK_DEADLOCK FALSE
INVARIANTS
  DryRunIsDry
