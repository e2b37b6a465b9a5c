\* Every kind of call on a class of two files, one with a constructor.
SPECIFICATION Spec
CONSTANTS
    f1 = f1
    f2 = f2
    t1 = t1
    t2 = t2
    c = c
    Absent = Absent
    Files = {f1, f2}
    Texts = {t1, t2, c}
    Kind = "class"
    Indexes <- MCIndexes
    Ending <- MCEnding
    Hash <- MCHash
    SmallDiffs <- MCSmallDiffs
INVARIANTS
    RepliesReferToShown
    StubsMatchCachedBody
