\* Two processes that save, and every maintenance pass.
SPECIFICATION Spec
CONSTANTS
    p1 = p1
    p2 = p2
    t1 = t1
    t2 = t2
    A = A
    B = B
    s1 = s1
    s2 = s2
    None = None
    Projects = {p1, p2}
    Titles = {t1, t2}
    Texts = {A, B}
    Types <- MCTypes
    Drafts <- MCDrafts
    Legacy <- MCLegacy
    Savers = {s1, s2}
    ImmuneTypes <- MCImmune
    Ttl <- MCTtl
    ZeroAccess <- MCZeroAccess
    Rules <- MCRules
    VolatileTtl = 1
    DecayAge = 2
    UnreadAge = 1
    KeepReads = 2
    Profitable <- MCProfitable
    MinCluster = 1
    MaxRows = 2
    MaxReads = 2
    MaxPeriods = 2
SYMMETRY Interchangeable
INVARIANTS
    DuplicatesOverlap
    DeltasResolve
PROPERTIES
    ProtectedStay
    SweepKeepsOne
CHECK_DEADLOCK FALSE
