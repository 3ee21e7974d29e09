\* A crash, a stop, and a task type without a handler.
CONSTANTS
    t1 = t1
    t2 = t2
    c1 = c1
    c2 = c2
    NoTask = NoTask
    Tasks <- TwoTasks
    Chronicles <- TwoChronicles
    TypeOf <- NormalizeAndSummarize
    ChronicleOf <- OwnChronicle
    MaxCandidates = 2
    Handled <- NoSummaries
    MaxClicks <- OneClick
    MaxFaults <- CrashAndStop
SPECIFICATION FairSpec
PROPERTIES
    EveryTaskEnds
    Lifecycle
