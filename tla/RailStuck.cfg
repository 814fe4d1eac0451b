SPECIFICATION FairSpec
CONSTANTS
    Trips <- ShippedPrompt
    Lines <- ShippedTrip
    Speed = 3
    NoWay = NoWay
PROPERTY Reaches
\* A train that is not powered any more stops.
CHECK_DEADLOCK FALSE
