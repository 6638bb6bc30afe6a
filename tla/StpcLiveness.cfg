SPECIFICATION FairSpec
CONSTANTS
    NULL = NULL
    Readers = {r1}
    Writers = {w1, w2}
    Trimmers = {}
    Nodes = {n1, n2, n3}
    FirstNode = n1
    Data = {d1}
    MaxNodes = 2
    Limits = {1, 3}
    AllocMayFail = FALSE
    MaxCalls <- CallsByRole
    ReaderCalls = 1
    WriterCalls = 1
    TrimmerCalls = 0
    MaxTrim = 0
PROPERTIES
    EveryDeferFreed
    CallsReturn
