\* An interrupt between two steps of allocate() takes the same block.
\* With every block held no context that may release one need be idle.
CHECK_DEADLOCK FALSE
SPECIFICATION Spec
CONSTANTS
    NumLevels = 2
    BlockSize <- MCBlockSize
    Count <- MCCount
    FirstIndex <- MCFirstIndex
    RegionSize = 4
    ADDDRESS_BASE = 8
    NULL_INDEX = 255
    Word = 40
    Requests <- MCRequests
    Contexts = {1, 2, 3}
    Releasing = {1, 2}
INVARIANT StillAvailable
