CONSTANTS
    Workers = {w1}
    Pipelines = {p1, p2}
    PerPage = 1
    People = {"comment","delete"}
    Faults = {}
    MaxUpserts = 2
    MaxPeople = 2
    NoPipeline = NoPipeline
SPECIFICATION Spec
INVARIANTS
    OneBareReport
CHECK_DEADLOCK FALSE
