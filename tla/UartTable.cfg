\* A table printed into a block that is too small for it.
SPECIFICATION Spec
CONSTANTS
    Blocks = {b1, b2, b3}
    NULL = NULL
    Transmit = Transmit
    Idle = Idle
    MAXINUMQUEUES = 3
    MaxStrings = 2
PROPERTY
    SentIsFreed
\* With every block lost a sender can go no further.
CHECK_DEADLOCK FALSE
