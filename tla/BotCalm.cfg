CONSTANTS
    Workers = {w1}
    Pipelines = {p1, p2}
    NoPipeline = NoPipeline
    PerPage = 2
    People = {"comment", "reply"}
    Faults = {}
    Outage = FALSE
    QueueSize = 2
    MaxDeliveries = 4
    MaxUpserts = 4
    MaxPeople = 2
    MaxRestarts = 0
SPECIFICATION BotFairSpec
INVARIANTS
    NewestDeliveryShown
PROPERTIES
    CommandAnswered
    PipelineReported
CHECK_DEADLOCK FALSE
