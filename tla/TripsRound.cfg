\* A trip to section 13.
CHECK_DEADLOCK FALSE
SPECIFICATION TrainSpec
CONSTANTS
    Space = Space
    Enter = Enter
    Other = Other
    NoTrain = NoTrain
    NullTrain = NullTrain
    MaxLate = 1
    NoWay = NoWay
    Trips <- RoundTrip
    Traffic <- NoTraffic
PROPERTY
    DetectsHow
