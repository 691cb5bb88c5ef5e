CONSTANTS
    MiB = 1
    Tolerance = 1
    Seconds <- MCSeconds
    Floats <- MCFloats
    Durations <- MCDurations
    Booleans <- MCBooleans
    Lowercase <- MCLowercase
    Trimmed <- MCTrimmed
    Given <- MCGiven
    Keys <- MCKeys
    BadURLs = {"::"}
    Requests = {r1, r2}
    Deliveries <- MCDeliveries
    QueueSize = 1
    Nobody = Nobody
SPECIFICATION FairSpec
INVARIANTS
    ServeTypeOK
    CallsCounted
    GaugeMatchesUsers
    WarningsCounted
    ListensOnlyWhenReady
PROPERTY
    StopsWhenTold
CHECK_DEADLOCK FALSE
