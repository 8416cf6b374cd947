\* With six items the last one can be smaller than the parent of a deleted
\* one in another subtree, so that it has to move up.
SPECIFICATION Spec
CONSTANTS
    Ents = {e1, e2, e3, e4, e5, e6}
    Vals = {0, 1}
    None = None
INVARIANTS
    TypeOK
    BackReferences
    RootIsEarliest
PROPERTIES
    ImplementsTimers
    SiftEnds
