SPECIFICATION FlowFairSpec
CONSTANTS
  f1 = f1
  f2 = f2
  RepoFiles = {f1, f2}
  MaxQaRetries = 2
  GitWorkspace = TRUE
  MaxStarts = 2
  MaxDecisions = 1
  MaxRestarts = 1
  MaxRemovals = 1
CHECK_DEADLOCK FALSE
INVARIANTS
  ReadyIsAudited
  LabelsAreHonest
PROPERTIES
  PipelineEnds
