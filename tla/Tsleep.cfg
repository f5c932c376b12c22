SPECIFICATION FairSpec
CONSTANTS
    Procs = {p1, p2}
    Machs = {m1}
    Rendezes = {r1, r2}
    None = None
INVARIANTS
    TimeoutToCome
    TimerQuiet
PROPERTIES
    TsleepReturns
