\* One project whose patterns admit the cache file, without a watcher: does the
\* git check come around (slot_manager.py:335)?
SPECIFICATION LiveSpec
CONSTANTS
    f1 = f1
    f2 = f2
    c1 = c1
    c2 = c2
    Absent = Absent
    Files = {f1, f2}
    Contents = {c1}
    Broken = {}
    IsGit = TRUE
    WatcherMode = "off"
    WatcherMayFail = FALSE
    Unreliable = {}
    Debounced = FALSE
    CacheFile = f2
    IncrementalLimit = 20
    MaxCommits = 1
    MaxRestarts = 0
PROPERTY PeriodicGitCheck
