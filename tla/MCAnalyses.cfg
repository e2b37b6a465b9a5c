\* Each analysis over all inputs of a small size.
SPECIFICATION Spec
CONSTANTS
    a = a
    b = b
    self = self
    kw = kw
    f = f
    g = g
    K = K
    L = L
    modL = modL
    m = m
    HOST = HOST
    key = key
    conf = conf
    env = env
    mod = mod
    other = other
    Krun = Krun
    Kstep = Kstep
    Kstop = Kstop
    Lrun = Lrun
    Lstep = Lstep
    run = run
    step = step
    stop = stop
    x = x
    y = y
    n1 = n1
    n2 = n2
    n3 = n3
    n4 = n4
    n5 = n5
    n6 = n6
    ListA = ListA
    ListB = ListB
    Num = Num
    Lst = Lst
    Self = self
    NoContent = NoContent
    NoType = NoType
    NoClass = NoClass
    Unreachable = Unreachable
    Erasure <- MCErasure
    BraceTexts <- MCTexts
    SourceFiles <- MCSourceFiles
    JavaProjects <- MCJavaProjects
    NoName = NoName
    ThreadTypes = {"B"}
    ExecutorTypes = {"D"}
    Inside <- MCInside
    Changes <- MCChanges
    Programs <- MCPrograms
    Variables = {x}
    Similar <- MCSimilar
    EnvStyle = {HOST}
    KnownKeys = {}
    BuildTimeKeys = {}
    KnownFiles = {}
    Manifests = {}
    Configs <- MCConfigs
    Checks = {{"duplicates", "orphans"}, {"duplicates", "secrets", "orphans", "loaders", "schema"}}
    Severities = {"all", "error"}
    HeadOf <- MCHeadOf
    DeadProjects <- MCDeadProjects
    MinTokens = 20
    TokensPerLine = 8
    Proximity = 60
    Recency = 40
    MaxSymbols = 1
    Bundles <- MCBundles
    MaxSymbolLines = 6
    WindowLines = 10
    Graphs <- MCGraphs
    MaxPasses = 3
    MaxRounds = 2
    MinSize = 2
    MaxSize = 3
    Rank <- MCRank
INVARIANTS
    BracesFound
    DeclarationsFound
    CallsAreEdges
    BreakingMeansBroken
    ConsistentMeansConsistent
    ReachedIsNotDead
    SliceKeepsFlow
    ClustersStayConnected
PROPERTIES
    MovesKeepModularity
