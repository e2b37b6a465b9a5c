\* One file of a git tree, a watcher that may fail at the start, later or never:
\* no change is lost, and what settles reaches the index.
SPECIFICATION LiveSpec
CONSTANTS
    f1 = f1
    f2 = f2
    c1 = c1
    c2 = c2
    Absent = Absent
    Files = {f1}
    Contents = {c1, c2}
    Broken = {}
    IsGit = TRUE
    WatcherMode = "on"
    WatcherMayFail = TRUE
    Unreliable = {"head", "history", "tree", "others"}
    Debounced = FALSE
    CacheFile = Absent
    IncrementalLimit = 20
    MaxCommits = 2
    MaxRestarts = 0
INVARIANT NoLostChange
PROPERTIES
    EditsReachIndex
    UncommittedReachIndex
    GitCheckResumes
    WatchedFilesReachIndex
