CONSTANTS
    Clients = {c1}
    DirClients = {c1}
    Slots = {s1}
    Entries = 1
    None = None
    c1 = c1
    s1 = s1
SPECIFICATION Spec
INVARIANT CleanConversation
