CONSTANTS
    Clients = {c1, c2}
    DirClients = {c1}
    Slots = {s1, s2}
    Entries = 1
    None = None
    c1 = c1
    c2 = c2
    s1 = s1
    s2 = s2
SPECIFICATION FairSpec
INVARIANT TypeOK
INVARIANT SlotsConserved
INVARIANT DescriptorsSuffice
INVARIANT OffsetFollows
PROPERTY CompletionOrder
PROPERTY Answered
