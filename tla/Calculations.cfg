CONSTANTS
    MiB = 2
    Columns = 3
    Rows = 4
    Tolerance = 2
    Seconds <- MCSeconds
    JobFacts <- MCFacts
    ThresholdSets <- MCThresholds
    SampleValues <- MCSamples
    MaxSamples = 7
    Times = {0, 1, 2, 5}
    MaxJobs = 3
    Dates <- MCDates
    Clock = {3, 4, 5, 6, 7}
SPECIFICATION Spec
INVARIANTS
    CPUAdviceFits
    MemoryAdviceSettles
    LazyTraceLosesNothing
    EverySampleOnce
    ChartSpansItsLine
    WallClockSpans
    FreshAndGenuineAccepted
CHECK_DEADLOCK FALSE
