SPECIFICATION FairSpec
CONSTANTS
    NULL = NULL
    l1 = l1
    l2 = l2
    l3 = l3
    Readers = {r1}
    Writers = {w1, w2}
    Trimmers = {}
    Nodes = {l1, l2, l3, n1, n2}
    FirstNodes <- Chain0
    Data = {d1}
    Latency = 0
    MaxNodes = 2
    MaxFail = 1
    Plans <- PairOrWriters
    Calls = 4
    Most = 2
    Pair = {r1, w1}
    MaxTrim = 0
    MaxSpin = 9
INVARIANTS
    ExhaustedOnlyByReferences
PROPERTIES
    EveryDeferFreed
    CallsReturn
