SPECIFICATION Spec
CONSTANTS
  UserThreads = {t1, t2, t3}
  CallMakers = {t1, t2}
  KernelMain = kernel
  Calls = {"plain", "yield", "waitpid", "spawn", "exit"}
  MaxCalls = 2
  Capacity = 3
  Users <- MCUsers
  ReadSizes = {2}
INVARIANTS
  MaskedReturnsToItself
  ModifiersAreReal RepeatsEnd
PROPERTY ImplementsQueue
