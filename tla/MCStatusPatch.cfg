SPECIFICATION Statuses
CONSTANTS
    None = None
    Hash = {h1}
    Shape <- MCShape
    MaxGen = 2
    MaxTime = 2
    MaxLag = 2
    MaxOps = 1
CHECK_DEADLOCK FALSE
INVARIANTS
    TypeOK
    CopiesAreDeep
PROPERTIES
    CacheUntouched
    PatchSaysVerdict
    SettledStatusStays
    TransitionTimesGrow
