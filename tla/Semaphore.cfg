SPECIFICATION Spec
CONSTANTS
    Procs = {p1, p2, p3}
    NoProc = NoProc
    Addrs = {a1, a2}
    MaxValue = 2
    Timeouts = {"positive", "zero"}
SYMMETRY Symmetry
INVARIANTS
    TypeOK
    NoStrandedAcquirer
    SemaLive
    ReturnsAcquired
