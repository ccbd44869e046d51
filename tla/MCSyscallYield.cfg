SPECIFICATION SyscallSpec
CONSTANTS
  UserThreads = {t1, t2}
  CallMakers = {t1, t2}
  KernelMain = kernel
  Calls = {"plain", "yield"}
  MaxCalls = 2
INVARIANT ReturnsToItself
