SPECIFICATION FairSpec
CONSTANTS
    Procs = {p1, p2}
    Noted = {p1}
    MaxTag = 4
    MaxFree = 1
    MaxFlush = 2
    None = None
    Rflush = Rflush
INVARIANTS
    OwnReply
    FreeTagQuiet
    NoStrandedCaller
PROPERTIES
    CallReturns
