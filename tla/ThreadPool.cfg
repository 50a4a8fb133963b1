SPECIFICATION FairSpec
CONSTANTS
    Callers = {c1}
    Workers = {w1, w2}
    Priorities = {0, 1}
    LastJobId = 3
    MaxCompleted = 1
INVARIANTS
    TypeOK
    NoIdleWorkerOwedAJob
    PendingCountsTheUnfinished
PROPERTIES
    ImplementsJobService
    QueuedJobsAreTaken
    ResultsGetPublished
CHECK_DEADLOCK FALSE
