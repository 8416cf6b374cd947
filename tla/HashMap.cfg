\* Tables of 2, 4 and 8 slots, a migration of one node per call.
SPECIFICATION Spec
CONSTANTS
    k1 = k1
    k2 = k2
    k3 = k3
    k4 = k4
    k5 = k5
    k6 = k6
    Keys <- MCKeys
    Hash <- MCHash
    None = None
    InitSlots = 2
    K_MAX_LOAD_FACTOR = 1
    K_REHASH_WORK = 1
INVARIANTS
    TypeOK
    NothingLeftBehind
    ForeachAgrees
    LoadBounded
PROPERTIES
    ImplementsNodeSet
    CallsReturn
