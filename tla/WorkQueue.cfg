CONSTANTS
    Calls = {1, 2, 3, 4, 5, 6, 7, 8}
    Size = 5
    WarnPercent = 80
    MaxInFlight = 2
SPECIFICATION FairSpec
INVARIANTS
    TypeOK
    CrossingWarned
    OneLinePerCrossing
    BurstWarned
PROPERTIES
    ImplementsDropQueue
    AcceptedServed
CHECK_DEADLOCK FALSE
