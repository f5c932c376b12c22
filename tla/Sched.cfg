SPECIFICATION Spec
CONSTANTS
    Procs = {p1, p2}
    Proc1 = p1
    Machs = {m1, m2}
    Mach0 = m1
    Npriq = 2
    None = None
SYMMETRY Symmetry
INVARIANTS
    TypeOK
    OneProcessor
    ReadyQueuedOnce
