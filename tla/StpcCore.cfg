SPECIFICATION Spec
CONSTANTS
    NULL = NULL
    Readers = {t1, t2}
    Writers = {t1, t2}
    Trimmers = {}
    Nodes = {n1, n2, n3}
    FirstNode = n1
    Data = {d1, d2}
    MaxNodes = 2
    Limits = {}
    AllocMayFail = TRUE
    MaxCalls <- CallsByRole
    ReaderCalls = 0
    WriterCalls = 3
    TrimmerCalls = 0
    MaxTrim = 0
SYMMETRY Symmetry
INVARIANTS
    TypeOK
    SingleReclaimer
    QuiescentReclaimed
    PoolBound
PROPERTIES
    ImplementsCollector
