\* Two tracks whose names differ in the suffix only.
CONSTANTS
    t1 = t1
    t2 = t2
    f1 = f1
    f2 = f2
    take1 = take1
    take2 = take2
    None = None
    NoTask = NoTask
    Tasks = {t1, t2}
    Files = {f1, f2}
    Contents = {take1}
    TypeOf <- BothTypes
    Handled <- AllTypes
    FileOf <- OwnFile
    CopyOf <- OneCopy
    Forced = {t2}
    NormalizeFirst = {t1}
    MaxAttempts = 2
    MaxFaults <- NoFaults
SPECIFICATION Spec
INVARIANTS
    HearsItsTrack
