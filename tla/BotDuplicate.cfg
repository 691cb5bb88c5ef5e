CONSTANTS
    Workers = {w1, w2}
    Pipelines = {p1}
    NoPipeline = NoPipeline
    PerPage = 2
    People = {}
    Faults = {}
    Outage = FALSE
    QueueSize = 1
    MaxDeliveries = 2
    MaxUpserts = 2
    MaxPeople = 0
    MaxRestarts = 0
SPECIFICATION BotSpec
INVARIANTS
    OneReportPerPipeline
CHECK_DEADLOCK FALSE
