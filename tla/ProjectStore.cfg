\* A chronicle of the workspace and a linked one.
CONSTANTS
    p1 = p1
    p2 = p2
    None = None
    Chronicles = {"own", "linked"}
    Linked = {"linked"}
    Callers = {p1, p2}
    MaxCalls = 3
SPECIFICATION FairSpec
INVARIANTS
    TypeOK
    OneEngine
    DeletedIsGone
    LookKeepsTheLink
PROPERTIES
    EveryCallReturns
CHECK_DEADLOCK FALSE
