SPECIFICATION FairSpec
CONSTANTS
    Trips <- PacedTrips
    Lines <- MainLines
    Speed = 3
    NoWay = NoWay
INVARIANTS TypeOK UniquePid DirectionKnown
PROPERTIES FollowsDecision Arrives
\* A train that is not powered any more stops.
CHECK_DEADLOCK FALSE
