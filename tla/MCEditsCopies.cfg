SPECIFICATION Spec
CONSTANTS
    a = a
    b = b
    f = f
    g = g
    x = x
    y = y
    Files = {f, g}
    Symbols = {a, b}
    Bodies = {x, y}
    Modules = {f, g}
    Texts <- MCTexts
    CopiesIndexed = TRUE
    Watched = FALSE
    MaxCheckpoints = 1
    MaxBlocks = 3
    MaxCalls = 3
    MaxEdits = 0
    Absent = Absent
    Idle = Idle
INVARIANTS
    RestoredAsTaken
