SPECIFICATION FairSpec
CONSTANTS
    InitCap = 4
    Zero = Zero
    Junk = Junk
    U32 = 2
    W64 = 1
    MaxMsg = 9
    MaxArgs = 2
    ErrLen = 1
    ReadMax = 16
    SockCap = 10
    Commands <- SomeCommands
    Replies <- SomeReplies
    MaxAhead = 2
    Rounds = 2
    Signals = 1
INVARIANTS
    TypeOK
    InStep
    AppendsFitWhenWaiting
PROPERTIES
    CommandsEnd
CHECK_DEADLOCK FALSE
