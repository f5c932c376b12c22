SPECIFICATION FairSpec
CONSTANTS
    Procs = {p1, p2, p3}
    Posters = {n1}
    Tags = {t1}
    None = None
INVARIANTS
    TypeOK
    Exchanged
    WaitersListed
PROPERTIES
    MetReturns
