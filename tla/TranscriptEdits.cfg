\* One transcript, every kind of task, one editor.
CONSTANTS
    t1 = t1
    t2 = t2
    t3 = t3
    t4 = t4
    ana = ana
    bo = bo
    None = None
    NoTask = NoTask
    Tasks = {t1, t2, t3, t4}
    TypeOf <- OneOfEach
    Handled <- AllTypes
    TextOf <- Files
    NameIn <- OneSpeaker
    Appending = {t2}
    Names = {ana, bo}
    Clients = {"editor"}
    MaxAttempts = 2
    MaxRetries = 1
    MaxEdits = 1
    MaxFaults = 1
    SnapshotsKept = 2
SPECIFICATION Spec
INVARIANTS
    TypeOK
    OriginalKept
    OverwritesOnce
    SummariesNumbered
PROPERTY
    UntouchedHasCopy
\* Users need not ask for anything more.
CHECK_DEADLOCK FALSE
