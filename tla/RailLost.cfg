SPECIFICATION Spec
CONSTANTS
    Trips <- LosingPrompt
    Lines <- MainLines
    Speed = 3
    NoWay = NoWay
INVARIANT IdKept
\* A train that is not powered any more stops.
CHECK_DEADLOCK FALSE
