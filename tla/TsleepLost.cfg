SPECIFICATION FairSpec
CONSTANTS
    Procs = {p1}
    Machs = {m1, m2}
    Rendezes = {r1, r2}
    None = None
PROPERTY
    TsleepReturns
