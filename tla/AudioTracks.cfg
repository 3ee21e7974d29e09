\* One track, its file replaced and removed at any time, every fault once.
CONSTANTS
    t1 = t1
    t2 = t2
    f1 = f1
    f2 = f2
    take1 = take1
    take2 = take2
    None = None
    NoTask = NoTask
    Tasks = {t1, t2}
    Files = {f1}
    Contents = {take1, take2}
    TypeOf <- BothTypes
    Handled <- AllTypes
    FileOf <- SameFile
    CopyOf <- OwnCopy
    Forced = {t2}
    NormalizeFirst = {t1}
    MaxAttempts = 2
    MaxFaults <- TwoDown
SYMMETRY TakeSymmetry
SPECIFICATION Spec
INVARIANTS
    TypeOK
    LinesAreTheTrack
    CopyIsTheTrack
    RunningIsRun
