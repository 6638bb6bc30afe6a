SPECIFICATION Spec
CONSTANTS
    NULL = NULL
    Threads = {t1, t2}
    Cells = {c1, c2}
    Refs = {r1, r2}
    MaxCalls = 2
SYMMETRY Symmetry
INVARIANTS
    TypeOK
    NamedAlive
    CountsBalance
    DeletedOnce
    NoneLeaked
PROPERTIES
    ImplementsSharedPointers
