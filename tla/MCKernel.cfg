SPECIFICATION Spec
CONSTANTS
  MaxTid = 3
  MaxPid = 2
  Quantum = 2
  Roots = {7, 8}
  MaxWork = 1
  FullApi = FALSE
  Reader = reader
  Sleeper = sleeper
  None = none
  Scancodes = {k1, k2}
  Capacity = 3
  SleepFor = 2
  MaxKeys = 3
  MaxTicks = 5
  MaxRounds = 2
  HeapStart = 8
  HeapSize = 14
  NodeSize = 2
  Sizes = {1, 2, 3, 5}
  Aligns = {1, 4}
  MaxLive = 4
  Frames = 19
  Gaps = {6, 15}
  Fanout = 2
  Huge <- MCHuge
  Boots <- MCBoots
  MmapBase = 6
  PageLimit = 10
  MmapSizes = {1, 2, 3}
  UserPages = {3, 4, 6, 7, 8, 12}
  MmioPages = {13, 14}
  DmaSizes = {1, 2}
  Kernel = {main1, main2}
  Callers = {user1}
  Isr = isr
  Locks = {console, registry, queue}
  Console = console
  NoOne = noone
  MaxNested = 2
INVARIANTS
  AddressSpaceIsOwn ContextIsTransparent
  ReadInOrder NoLostWakeup
  Exclusive Accounted
  OwnFrames UserPathIsOpen MmapKeepsItsWord
  NeverSpins InterruptsComeBack
PROPERTIES
  EveryReadyThreadRuns
  EveryoneIsServed
  ImplementsMutex
