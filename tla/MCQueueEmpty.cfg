CONSTANTS
    Readers = {r1}
    Writers = {w1}
    Limit = 2
    Blocks <- MCBlocks
    OutBlocks <- MCBlocks
    ReadLens = {1, 2}
    MaxLen = 3
    None = None
    r1 = r1
    w1 = w1
SPECIFICATION FairSpec
INVARIANT NoStrandedWriter
