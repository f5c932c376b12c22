SPECIFICATION Spec
CONSTANTS
    Procs = {p1, p2}
    NoProc = NoProc
    Addrs = {a1}
    MaxValue = 1
    Timeouts = {"positive", "zero", "negative"}
INVARIANT
    ReturnsAcquired
