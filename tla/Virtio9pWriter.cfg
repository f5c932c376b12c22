CONSTANTS
    Clients = {c1, c2, c3}
    DirClients = {c1}
    Slots = {s1}
    Entries = 0
    None = None
    c1 = c1
    c2 = c2
    c3 = c3
    s1 = s1
SPECIFICATION FairSpec
PROPERTY WriterWakes
