SPECIFICATION FairSpec
CONSTANTS
    c1 = c1
    c2 = c2
    k1 = k1
    k2 = k2
    NoConn = NoConn
    IdleHead = IdleHead
    NoTTL = NoTTL
    Clients = {c1}
    MaxFd = 1
    Scripts <- ServiceScripts
    Keys = {k1, k2}
    ReadMax = 3
    SndBuf = 1
    IdleTimeout = 1
    MaxWorks = 1
    T32 = 16
    SpuriousPoll = FALSE
    MaxTime = 2
PROPERTIES
    RequestsExecuted
    ResponsesArrive
    SilentConnsClosed
    ExpiredKeysRemoved
CHECK_DEADLOCK FALSE
