\* Two names and two scores, so that order matters; two addresses: an entry can
\* be in the hands of the pool while its key is in use again, and its address
\* reused later.
SPECIFICATION Spec
CONSTANTS
    Keys = {k1, k2}
    Strings = {s1, s2}
    Names = {1, 2}
    Scores = {0, 1}
    TTLs <- SomeTTLs
    Offsets <- SomeOffsets
    Limits <- SomeLimits
    BadNumber = BadNumber
    Addrs = {a1, a2}
    NULL = NULL
    Free = Free
    LargeZset = 0
    MaxWorks = 1
    MaxTime = 1
SYMMETRY KeyspaceSymmetry
INVARIANTS
    TypeOK
    Ownership
    RootIsInMap
PROPERTIES
    ImplementsStore
CHECK_DEADLOCK FALSE
