CONSTANTS
    Workers = {w1, w2}
    Pipelines = {p1, p2}
    NoPipeline = NoPipeline
    PerPage = 2
    People = {"comment", "reply"}
    Faults = {"update", "lost"}
    Outage = TRUE
    QueueSize = 1
    MaxDeliveries = 4
    MaxUpserts = 4
    MaxPeople = 1
    MaxRestarts = 1
SYMMETRY BotSymmetry
SPECIFICATION BotSpec
INVARIANTS
    BareReportPerReplica
    BotTypeOK
    AnswersPerLifetime
PROPERTIES
    DiscussedEarlierLeftAlone
    AnswerMatchesQuestion
CHECK_DEADLOCK FALSE
