SPECIFICATION Spec
CONSTANTS
    NULL = NULL
    l1 = l1
    l2 = l2
    l3 = l3
    Readers = {t1, t2, r1}
    Writers = {t1, t2}
    Trimmers = {t1, t2}
    Nodes = {l1, l2, l3, n1, n2}
    FirstNodes <- Chain0
    Data = {d1, d2}
    Latency = 0
    MaxNodes = 2
    MaxFail = 1
    Plans <- Spread
    Calls = 3
    Most = 2
    Pair = {}
    MaxTrim = 1
    MaxSpin = 9
SYMMETRY Symmetry
INVARIANTS
    TypeOK
    WalkedNotReused
    WalkBounded
    SingleReclaimer
    CountsBalance
    QuiescentReclaimed
    NodeAccounting
PROPERTIES
    ImplementsCollector
