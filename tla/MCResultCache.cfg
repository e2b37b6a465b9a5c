\* Two projects, edit tools and other editors, builds that fail, under
\* watchers or mtime scans.
SPECIFICATION Spec
CONSTANTS
    p1 = p1
    p2 = p2
    f1 = f1
    t1 = t1
    t2 = t2
    common = common
    some = some
    one = one
    Absent = Absent
    Roots = {p1, p2}
    Files = {f1}
    Texts = {t1, t2}
    Names = {common, some, one}
    Fit <- MCFit
    MaxGen = 2
    MaxTotal = 3
    Changing = {p1}
SYMMETRY Symmetric
INVARIANTS
    StaleOnlyAfterToolEdit
    StaleUntilReported
PROPERTIES
    AnswersLagOnlyBehind
    NamesKeepTheirProject
