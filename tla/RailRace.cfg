SPECIFICATION Spec
CONSTANTS
    Trips <- ShippedOvertaken
    Lines <- ShippedTrip
    Speed = 3
    NoWay = NoWay
INVARIANT IdKept
\* A train that is not powered any more stops.
CHECK_DEADLOCK FALSE
