\* Two chronicles, two clicks at a time beside the worker.
CONSTANTS
    Chronicles = {c1, c2}
    Jobs = {j1, j2}
    Worker = worker
    None = None
    Absent = Absent
    Gone = Gone
    Values = {0, 1}
    NewRow <- Zeros
    MaxClicks = 2
SPECIFICATION Spec
SYMMETRY Twins
INVARIANTS
    TypeOK
    FormsKeepTheirChronicle
PROPERTIES
    OthersColumnsStay
\* The clicks run out.
CHECK_DEADLOCK FALSE
