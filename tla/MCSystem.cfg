SPECIFICATION FairHistorySystem
CONSTANTS
    None = None
    NoSecret = NoSecret
    NoData = NoData
    NoModule = NoModule
    NoCondition = NoCondition
    SecretKey = SecretKey
    NoResource = NoResource
    u1 = u1
    Name = {a, b}
    Spec = {"project", "file", "loop"}
    Url = {u1}
    Token = {t1}
    StoreId = {s1, s2, s3, s4, s5, s6}
    ModelId = {m1, m2, m3, m4, m5, m6}
    Hash <- SystemHash
    Settings <- SystemSettings
    BuildError <- SystemError
    Build <- SystemBuild
    MaxOps = 2
    MaxFaults = 0
    MaxGen = 2
    MaxLag = 2
CHECK_DEADLOCK FALSE
INVARIANTS
    SecretFaithful
    QuietMeansConverged
    ConditionWasTrue
PROPERTIES
    PublishesVersions
    EventuallyConverges
