SPECIFICATION FairSpec
CONSTANTS
    Procs = {p1, p2}
    Wakers = {w1}
    Posters = {n1}
    Rendezes = {r1, r2}
    None = None
    Serialised = TRUE
INVARIANTS
    NoLostWakeup
    ReadyOnce
PROPERTIES
    WakesUp
