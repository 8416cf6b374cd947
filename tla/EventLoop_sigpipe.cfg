SPECIFICATION Spec
CONSTANTS
    c1 = c1
    c2 = c2
    k1 = k1
    k2 = k2
    NoConn = NoConn
    IdleHead = IdleHead
    NoTTL = NoTTL
    Clients = {c1}
    MaxFd = 1
    Scripts <- LoopScripts
    Keys = {k1, k2}
    ReadMax = 4
    SndBuf = 1
    IdleTimeout = 1
    MaxWorks = 1
    T32 = 16
    SpuriousPoll = FALSE
    MaxTime = 0
INVARIANTS
    ServerSurvives
CHECK_DEADLOCK FALSE
