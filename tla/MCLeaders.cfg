SPECIFICATION OverlapSystem
CONSTANTS
    None = None
    NoSecret = NoSecret
    NoData = NoData
    NoModule = NoModule
    NoCondition = NoCondition
    SecretKey = a
    a = a
    b = b
    u1 = u1
    u2 = u2
    t1 = t1
    s1 = s1
    m1 = m1
    Name = {a}
    Spec = {r1, r2}
    Url = {u1, u2}
    Token = {t1}
    StoreId = {s1, s2, s3, s4, s5}
    ModelId = {m1, m2, m3, m4, m5}
    Hash <- MCHash
    Settings <- OneSetting
    BuildError <- MCBuildError
    Build <- MCBuild
    MaxOps = 2
    MaxFaults = 0
    MaxGen = 2
    MaxLag = 1
SYMMETRY SpecSymmetry
CHECK_DEADLOCK FALSE
INVARIANTS
    SecretFaithful
    ReadyWasPublished
    QuietMeansConverged
VIEW View
