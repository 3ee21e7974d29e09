\* Two takes of two blocks and one, two clicks on Save, every failure anywhere.
CONSTANTS
    None = None
    MaxTakes = 2
    MaxBlocks <- TwoThenOne
    s1 = s1
    s2 = s2
    Saves = {s1, s2}
SYMMETRY SaveSymmetry
SPECIFICATION Spec
INVARIANTS
    TypeOK
    SavedIsTheTake
PROPERTIES
    TakeIsKept
\* Nobody has to click, and the bounds end every recording.
CHECK_DEADLOCK FALSE
