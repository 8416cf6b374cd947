\* pexpire with a negative number.
SPECIFICATION Spec
CONSTANTS
    Keys = {k1, k2}
    Strings = {s1}
    Names = {1, 2}
    Scores = {0}
    TTLs <- SomeTTLs
    Offsets <- SomeOffsets
    Limits <- SomeLimits
    BadNumber = BadNumber
    Addrs = {a1, a2}
    NULL = NULL
    Free = Free
    LargeZset = 1
    MaxWorks = 1
    MaxTime = 2
INVARIANTS
    TtlIsNotNegative
CHECK_DEADLOCK FALSE
