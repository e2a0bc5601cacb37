SPECIFICATION HandSpec
CONSTANTS
    r1 = r1
    r2 = r2
    r3 = r3
    Release = {r1, r2}
    Operator = {o1}
    NoRelease = NoRelease
    NoFile = NoFile
    NoOperator = NoOperator
    Continues <- MCContinues
    Faults = {"crash", "restart", "refuse", "hand"}
    Observation = {1, 2, 3}
    Misfiled = {1, 2}
    Decision = {d1, d2}
    RepairsApart = TRUE
    MaxRuns = 2
    MaxCuts = 2
    NoIndex = NoIndex
    Doc = {a1, a2}
    Listed = {a1}
    Thread = {t1, t2}
    MaxPulls = 1
    None = None
    Unknown = Unknown
    Failed = Failed
    Commit = {"c1", "c2", "c3"}
    Object = {1, 2, 3, 4, 5, 6}
    Caller = {t1, t2}
    Overhead = 2
    BodyBytes <- MCBodyBytes
    Budget = 6
    NoObject = NoObject
INVARIANTS CorrectionsStand CachesAreCurrent NoOldText MemoryIsAccounted
PROPERTIES CompleteIsJudged IndexIsTheFold
SYMMETRY HandSymmetry
