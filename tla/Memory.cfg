\* The allocator on three levels of 3, 2 and 1 blocks.
SPECIFICATION Spec
CONSTANTS
    NumLevels = 3
    BlockSize <- MCBlockSize
    Count <- MCCount
    FirstIndex <- MCFirstIndex
    RegionSize = 6
    ADDDRESS_BASE = 8
    NULL_INDEX = 255
    Word = 40
    Requests <- MCRequests
    Addresses <- MCAddresses
INVARIANTS
    TypeOK
    FreeListsWellFormed
PROPERTY
    PoolSpec
