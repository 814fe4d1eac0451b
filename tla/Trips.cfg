\* Every line that can be typed; every trip, among traffic that comes and goes.
\* The train stops at its destination, or when there is no route; after
\* Process() has started on the console no key is handled.
CHECK_DEADLOCK FALSE
SPECIFICATION BothSpec
CONSTANTS
    Space = Space
    Enter = Enter
    Other = Other
    NoTrain = NoTrain
    NullTrain = NullTrain
    MaxLate = 1
    NoWay = NoWay
    Trips <- EveryTrip
    Traffic <- SomeTraffic
INVARIANTS
    TakesEveryTrip
    StartIndexesTable
    DecisionLeadsToEnd
    NoWayMeansNone
PROPERTIES
    QueuedAsTyped
    StopsSomewhere
