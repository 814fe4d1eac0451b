SPECIFICATION Spec
CONSTANTS
    Trips <- ShippedPrompt
    Lines <- ShippedTrip
    Speed = 3
    NoWay = NoWay
INVARIANT NextSectionLocked
\* A train that is not powered any more stops.
CHECK_DEADLOCK FALSE
