SPECIFICATION FairSpec
CONSTANTS
    Procs = {p1}
    Posters = {n1}
    Tags = {t1}
    None = None
PROPERTY
    NoteDelivered
