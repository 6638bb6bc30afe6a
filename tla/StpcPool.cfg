SPECIFICATION Spec
CONSTANTS
    NULL = NULL
    Readers = {r1}
    Writers = {w1}
    Trimmers = {x1}
    Nodes = {n1, n2, n3}
    FirstNode = n1
    Data = {d1, d2}
    MaxNodes = 3
    Limits = {}
    AllocMayFail = FALSE
    MaxCalls <- CallsByRole
    ReaderCalls = 1
    WriterCalls = 3
    TrimmerCalls = 2
    MaxTrim = 2
SYMMETRY Symmetry
INVARIANTS
    GuardedNotFreed
    TouchedInUse
    ExhaustedOnlyByReferences
    NodeAccounting
PROPERTIES
    PopInstallsNext
    DeleteFreesAll
