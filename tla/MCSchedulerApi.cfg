SPECIFICATION SchedSpec
CONSTANTS
    MaxTid = 3
    MaxPid = 2
    Quantum = 2
    Roots = {}
    MaxWork = 1
    FullApi = TRUE
INVARIANTS
    TypeOK
    QueueIsExact
    StacksAreSafe
    NoZombieProcess
PROPERTIES
    NoOvertaking
CHECK_DEADLOCK FALSE
VIEW Control
