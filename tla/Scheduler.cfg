\* The processes' lists, calls and swaps: safety, refinement and round robin.
\* A fault stops the system.
CHECK_DEADLOCK FALSE
SPECIFICATION FairSpec
CONSTANTS
    MAX_PRIORITY_QUEUES_MANAGEMENT = 3
    MaxPid = 3
    MaxSwaps = 2
    Arguments = {0, 1, 2}
    Word = 8
    NULL = NULL
INVARIANTS
    TypeOK
    PcbQueuesWellFormed
    RunningIsHighest
PROPERTIES
    IdleLevelFixed
    QueuesSpec
    RoundRobin
