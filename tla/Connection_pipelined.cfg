SPECIFICATION Spec
CONSTANTS
    InitCap = 4
    Zero = Zero
    Junk = Junk
    U32 = 2
    W64 = 1
    MaxMsg = 9
    MaxArgs = 2
    ErrLen = 1
    ReadMax = 16
    SockCap = 24
    Commands <- SomeCommands
    Replies <- SomeReplies
    MaxAhead = 2
    Rounds = 2
    Signals = 1
INVARIANTS
    AppendsFit
CHECK_DEADLOCK FALSE
