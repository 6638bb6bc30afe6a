SPECIFICATION Spec
CONSTANTS
    t1 = t1
    t2 = t2
    w1 = w1
    w2 = w2
    NULL = NULL
    Threads = {t1, t2}
    Readers = {t1}
    Work = {w1, w2}
    Links <- MCLinks
    Linked = TRUE
    Type = "trace"
    InOrder = TRUE
    MayExit = TRUE
    MaxBuffer = 2
SYMMETRY ThreadSymmetry
INVARIANTS
    HazardSafe
    GracePeriod
    Accounting
    NoLostWakeup
