\* Safety under every kind of fault, with views whose lists go stale.
CONSTANTS
    t1 = t1
    t2 = t2
    c1 = c1
    c2 = c2
    NoTask = NoTask
    Tasks <- TwoTasks
    Chronicles <- OneChronicle
    TypeOf <- TranscribeAndNormalize
    ChronicleOf <- SameChronicle
    MaxCandidates = 1
    Handled <- AllTypes
    MaxClicks <- TwoAndNone
    MaxFaults <- EveryFault
SPECIFICATION Spec
INVARIANTS
    TypeOK
    RunsPaidFor
    AttemptBudget
    AnnouncedIsRecorded
    WorkingIsRunning
    FailedIsTidied
PROPERTIES
    TerminalIsStable
