CONSTANTS
    Workers = {w1}
    Pipelines = {p1, p2}
    PerPage = 1
    People = {"comment", "reply"}
    Faults = {"list", "update", "create", "lost"}
    MaxUpserts = 3
    MaxPeople = 3
    NoPipeline = NoPipeline
SYMMETRY PipelineSymmetry
SPECIFICATION Spec
INVARIANTS
    TypeOK
    OneBareReport
    NewestReportIsPosted
PROPERTIES
    ImplementsBoard
CHECK_DEADLOCK FALSE
