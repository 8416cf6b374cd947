SPECIFICATION Spec
CONSTANTS
    c1 = c1
    c2 = c2
    k1 = k1
    k2 = k2
    NoConn = NoConn
    IdleHead = IdleHead
    NoTTL = NoTTL
    Clients = {c1, c2}
    MaxFd = 2
    Scripts <- LoopScripts
    Keys = {k1, k2}
    ReadMax = 3
    SndBuf = 1
    IdleTimeout = 1
    MaxWorks = 1
    T32 = 16
    SpuriousPoll = TRUE
    MaxTime = 1
SYMMETRY ClientSymmetry
INVARIANTS
    TypeOK
    StreamsIntact
    WaitsForTheRightThing
    AnswersStayValid
    TablesAgree
    SleepsUntilDeadline
PROPERTIES
    ClosedForAReason
    IdlestTimeOut
CHECK_DEADLOCK FALSE
