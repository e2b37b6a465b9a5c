\* Two files, every caller, every text.
SPECIFICATION Spec
CONSTANTS
    f1 = f1
    f2 = f2
    f3 = f3
    s = s
    t = t
    m = m
    lib = lib
    app = app
    appComment = appComment
    appEdited = appEdited
    appTagged = appTagged
    junk = junk
    Absent = Absent
    Files = {f1, f2}
    Symbols = {s, t}
    Modules = {m}
    Contents = {lib, app, appComment, appEdited, appTagged, junk}
    Broken = {junk}
    Hashes = {"h1", "h2"}
    Defines <- MCDefines
    Unqualified = {s}
    BodyHash <- MCBodyHash
    Imports <- MCImports
    Uses <- MCUses
    Blurred <- MCBlurred
    Candidates <- MCCandidates
INVARIANTS
    NoPhantomImporters
    SymbolTableSound
    HashesCurrent
PROPERTIES
    ReindexKeepsDependencies
