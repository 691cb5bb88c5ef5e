CONSTANTS
    MiB = 2
    Names <- MCNames
    Runs <- MCRuns
    Pipelines <- MCPipelines
    PerPage = 2
    MaxRetries = 1
    Limits <- MCLimits
    PodResolver = "prometheus"
    Faults = {"list", "metrics", "trace", "authorize", "upload", "post"}
    MaxTasks = 2
    Notes <- MCNotes
    Asked = {"test", "2"}
    Numerals <- MCNumerals
    Pods <- MCPods
SPECIFICATION Spec
INVARIANT CleanMeansNothingToFix
CHECK_DEADLOCK FALSE
