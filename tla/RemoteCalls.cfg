\* Two clients, one import each, one death of the server, two versions of it.
CONSTANTS
    a = a
    b = b
    Home = Home
    Away = Away
    Clicks = {a, b}
    NameOf <- OneName
    Clients = {a, b}
    ClientOf <- EachItsOwn
    VersionOf <- SameVersion
    Versions = {1, 2}
    Existing = {Home, Away}
    Linked = {Away}
    None = None
    MaxNumber = 1
    MaxCrashes = 1
SPECIFICATION Spec
INVARIANTS
    TypeOK
PROPERTIES
    ImportsKeepPromise
\* Every import ends.
CHECK_DEADLOCK FALSE
