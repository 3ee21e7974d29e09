\* Three starts in six environments, from four sets of files.
CONSTANTS
    None = None
    EnvKey = "secret"
    Environments <- SomeEnvironments
    FirstFiles <- SomeFiles
    MaxStarts = 3
SPECIFICATION Spec
INVARIANTS
    TypeOK
    SavedIsRead
    EnvironmentStaysOut
    StartsTheSame
\* The starts run out.
CHECK_DEADLOCK FALSE
