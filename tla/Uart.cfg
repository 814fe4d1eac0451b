SPECIFICATION FairSpec
CONSTANTS
    Blocks = {b1, b2, b3}
    NULL = NULL
    Transmit = Transmit
    Idle = Idle
    MAXINUMQUEUES = 3
    MaxStrings = 2
INVARIANTS
    StringHasATask
PROPERTIES
    Drains
    LostOnlyByDropping
\* With every block lost a sender can go no further.
CHECK_DEADLOCK FALSE
