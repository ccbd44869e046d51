SPECIFICATION FlowSpec
CONSTANTS
  f1 = f1
  f2 = f2
  RepoFiles = {f1, f2}
  MaxQaRetries = 1
  GitWorkspace = TRUE
  MaxStarts = 1
  MaxDecisions = 0
  MaxRestarts = 0
  MaxRemovals = 0
CHECK_DEADLOCK FALSE
INVARIANT PlanIsKept
