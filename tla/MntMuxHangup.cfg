SPECIFICATION Spec
CONSTANTS
    Procs = {p1, p2, p3}
    Noted = {p2}
    MaxTag = 4
    MaxFree = 1
    MaxFlush = 1
    None = None
    Rflush = Rflush
INVARIANTS
    NoneLeftAsleep
