CONSTANTS
    Workers = {w1}
    Pipelines = {p1, p2}
    NoPipeline = NoPipeline
    PerPage = 2
    People = {"reply"}
    Faults = {}
    MaxUpserts = 2
    MaxPeople = 1
SPECIFICATION Spec
PROPERTIES
    DiscussedNeverEdited
CHECK_DEADLOCK FALSE
