CONSTANTS
    Executers = 3
    QueueLen = 4
    Tasks = 6
    MaxRuns = 2
    MaxCrashes = 1
SPECIFICATION FairSpec
INVARIANTS
    TypeOK
    GivenOnce
    DoneMeansExecuted
PROPERTIES
    SchedulerEnds
