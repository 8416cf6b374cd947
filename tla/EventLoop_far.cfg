SPECIFICATION Spec
CONSTANTS
    c1 = c1
    c2 = c2
    k1 = k1
    k2 = k2
    NoConn = NoConn
    IdleHead = IdleHead
    NoTTL = NoTTL
    Clients = {c1}
    MaxFd = 1
    Scripts <- FarScripts
    Keys = {k1, k2}
    ReadMax = 4
    SndBuf = 2
    IdleTimeout = 1
    MaxWorks = 1
    T32 = 16
    SpuriousPoll = FALSE
    MaxTime = 2
INVARIANTS
    NoTimeoutMeansNoTimer
CHECK_DEADLOCK FALSE
