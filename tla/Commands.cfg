CONSTANTS
    MiB = 2
    Names <- MCNames
    Runs <- MCRuns
    Pipelines <- MCPipelines
    PerPage = 2
    MaxRetries = 1
    Limits <- MCLimits
    PodResolver = "trace"
    Faults = {"list", "metrics", "trace", "authorize", "upload", "post"}
    MaxTasks = 2
    Notes <- MCNotes
    Asked = {"test", "2"}
    Numerals <- MCNumerals
    Pods <- MCPods
SPECIFICATION Spec
INVARIANTS
    CommandsTypeOK
    StandingJobsListed
    SummaryCountsOnce
    NothingPostedHollow
    ChartsComplete
PROPERTIES
    MeasuredTargetsFound
    TaskEnds
CHECK_DEADLOCK FALSE
