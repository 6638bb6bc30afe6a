SPECIFICATION Spec
CONSTANTS
    t1 = t1
    t2 = t2
    t3 = t3
    w1 = w1
    w2 = w2
    NULL = NULL
    Threads = {t1, t2, t3}
    Readers = {t1}
    Work = {w1}
    Links <- MCLinks
    Linked = FALSE
    Type = "fifo"
    InOrder = TRUE
    MayExit = TRUE
    MaxBuffer = 1
SYMMETRY ThreadSymmetry
INVARIANTS
    HazardSafe
