SPECIFICATION Spec
CONSTANTS
    NULL = NULL
    Readers = {}
    Writers = {w1}
    Trimmers = {x1}
    Nodes = {n1, n2}
    FirstNode = n1
    Data = {d1}
    MaxNodes = 2
    Limits = {}
    AllocMayFail = FALSE
    MaxCalls <- CallsByRole
    ReaderCalls = 0
    WriterCalls = 1
    TrimmerCalls = 1
    MaxTrim = 1
SYMMETRY Symmetry
INVARIANTS
    NoFault
