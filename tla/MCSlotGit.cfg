\* A git tree polled for mtimes, with its cache and a restart; c2 cannot be
\* annotated.
SPECIFICATION Spec
CONSTANTS
    f1 = f1
    f2 = f2
    c1 = c1
    c2 = c2
    Absent = Absent
    Files = {f1, f2}
    Contents = {c1, c2}
    Broken = {c2}
    IsGit = TRUE
    WatcherMode = "off"
    WatcherMayFail = FALSE
    Unreliable = {"head", "history", "tree", "others"}
    Debounced = FALSE
    CacheFile = Absent
    IncrementalLimit = 1
    MaxCommits = 2
    MaxRestarts = 1
SYMMETRY InterchangeableFiles
INVARIANT EditsHaveNewMtime
PROPERTY ImplementsMirror
