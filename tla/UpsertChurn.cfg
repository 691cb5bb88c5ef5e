CONSTANTS
    Workers = {w1}
    Pipelines = {p1, p2}
    NoPipeline = NoPipeline
    PerPage = 1
    People = {"comment", "quote", "reply", "delete"}
    Faults = {"list", "update", "create", "lost"}
    MaxUpserts = 3
    MaxPeople = 3
SPECIFICATION FairSpec
PROPERTIES
    UnmarkedUntouched
    CallEnds
CHECK_DEADLOCK FALSE
