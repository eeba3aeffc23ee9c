SPECIFICATION Spec
CONSTANTS
    t1 = t1
    t2 = t2
    Threads = {t1, t2}
    Delays = {0, 1}
    MaxUid = 7
    MaxPushes = 1
    MaxDestroys = 2
SYMMETRY Alike
INVARIANTS
    FlagTrue
    NoneLeft
    ExpiredExactly
    DestroyAllRun
PROPERTIES
    InOrder
    ListUsed
CHECK_DEADLOCK FALSE
