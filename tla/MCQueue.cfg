CONSTANTS
    Readers = {r1}
    Writers = {w1}
    Limit = 3
    Blocks <- MCBlocks
    OutBlocks <- MCOutBlocks
    ReadLens = {1, 2}
    MaxLen = 4
    None = None
    r1 = r1
    w1 = w1
SPECIFICATION FairSpec
INVARIANT CountsExact
INVARIANT NoStrandedReader
INVARIANT NoStrandedWriter
PROPERTY ImplementsStream
PROPERTY IOReturns
