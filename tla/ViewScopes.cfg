\* Two handlers and the worker, two chronicles, scopes enough for two views and a refresh.
CONSTANTS
    NoChronicle = NoChronicle
    h1 = h1
    h2 = h2
    worker = worker
    c1 = c1
    c2 = c2
    Handlers = {h1, h2}
    Worker = worker
    Chronicles = {c1, c2}
    MaxScopes = 3
SYMMETRY HandlerSymmetry
SPECIFICATION ViewsSpec
INVARIANTS
    ViewsTypeOK
    
    ShownIsCurrent
\* The scopes run out, and a window that was closed stays closed.
CHECK_DEADLOCK FALSE
