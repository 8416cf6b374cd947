\* Limits that are even, odd and not positive.
SPECIFICATION Spec
CONSTANTS
    Names <- MCNames
    Scores = {0, 1}
    Pairs <- MCPairs
    NULL = NULL
    Free = Free
    None = None
    Limits <- MCLimits
INVARIANTS
    TypeOK
    IndexesAgree
    Balanced
    QueriesAgree
