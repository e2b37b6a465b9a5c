SPECIFICATION Spec
CONSTANTS
    a = a
    b = b
    f = f
    g = g
    x = x
    y = y
    Files = {f, g}
    Symbols = {a, b}
    Bodies = {x, y}
    Modules = {f, g}
    Texts <- MCTexts
    CopiesIndexed = FALSE
    Watched = FALSE
    MaxCheckpoints = 2
    MaxBlocks = 4
    MaxCalls = 2
    MaxEdits = 1
    Absent = Absent
    Idle = Idle
INVARIANTS
    AimedAtSymbol
    DivergenceIsPending
    RestoredAsTaken
    ImportsFollow
PROPERTIES
    RollbackUndoes
