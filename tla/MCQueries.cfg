\* A graph query of each kind over some hundreds of small indexes.
SPECIFICATION Spec
CONSTANTS
    C = C
    Cm = Cm
    Cn = Cn
    m = m
    f = f
    g = g
    src = src
    lib = lib
    api = api
    t1 = t1
    t2 = t2
    None = None
    Symbols = {C, Cm, Cn, m, f, g}
    Names = {C, Cm, Cn, m, f, g}
    Classes = {C}
    Methods <- MCMethods
    Alias <- MCAlias
    Sorted <- MCSorted
    Files = {src, lib, api, t1, t2}
    TestFiles = {t1, t2}
    FileOf <- MCFileOf
    Defines <- MCDefines
    NameMatch <- MCNameMatch
    StemMatch <- MCStemMatch
    Indexes <- MCIndexes
    Depths = {2, 3}
    Limits = {0, 2}
    MaxTests = 2
    MaxCycles = 0
    MaxChanged = 1
INVARIANTS
    ImpactIsComplete
    CompleteMeansAll
    ChainIsFound
    CyclesAreComponents
    ReachedTestsSelected
