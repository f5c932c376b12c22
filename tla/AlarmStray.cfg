CONSTANTS
    Procs = {p1, p2, p3}
    Mortal = {p1}
    MaxTime = 1
    MaxLate = 1
    Half = 0
    Off = Off
    None = None
    p1 = p1
    p2 = p2
    p3 = p3
SPECIFICATION FairSpec
INVARIANT AlarmBelongs
