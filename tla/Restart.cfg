CONSTANTS
    g = g  a1 = a1  a2 = a2  b1 = b1
    Blocks = {g, a1, a2, b1}
    Genesis = g
    Null = Null
    NoRecord = NoRecord
    NoData = NoData
    pprev <- MCpprev
    nHeight <- MCnHeight
    nChainWork <- MCnChainWork
    Empty = {b1}
    BlocksPerFile = 2
    MaxFile = 2
    MaxFailures = 1
SPECIFICATION Spec
INVARIANTS
    TypeOK
    FlushedKept
    UnsavedIsDirty
    DatabaseClosed
CHECK_DEADLOCK FALSE
