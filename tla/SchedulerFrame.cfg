\* A process that never ran is swapped in.
\* A fault stops the system.
CHECK_DEADLOCK FALSE
SPECIFICATION Spec
CONSTANTS
    MAX_PRIORITY_QUEUES_MANAGEMENT = 3
    MaxPid = 3
    MaxSwaps = 2
    Arguments = {0, 1, 2}
    Word = 8
    NULL = NULL
PROPERTY
    ResumesOwnContext
