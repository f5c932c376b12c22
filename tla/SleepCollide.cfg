SPECIFICATION Spec
CONSTANTS
    Procs = {p1, p2}
    Wakers = {w1}
    Posters = {n1}
    Rendezes = {r1}
    None = None
    Serialised = FALSE
PROPERTY
    DoubleSleepPanics
