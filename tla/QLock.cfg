SPECIFICATION FairSpec
CONSTANTS
    Procs = {p1, p2, p3}
    NoProc = NoProc
PROPERTIES
    ImplementsFifo
    QlockReturns
