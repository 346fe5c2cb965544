CONSTANTS
    g = g  a1 = a1  a2 = a2  b1 = b1  b2 = b2  b3 = b3  c2 = c2
    d0 = d0  d1 = d1  d2 = d2
    Genesis = g
    Null = Null
    pprev <- MCpprev
    nHeight <- MCnHeight
    nChainWork <- MCnChainWorkZero
    Data = {d0, d1, d2}
    qvtx <- MCqvtx
    Blocks = {g, a1, a2, b1, b2, b3}
    Submitted = {}
    FutureStamped = {b2}
    Named = {}
    Threads = {t1, t2}
    MIN_BLOCKS_TO_KEEP = 2
SPECIFICATION FairSpec
INVARIANTS
    TypeOK
    LinkedExactly
    SequenceIdsDistinct
    StoredGetsLinked
    TipIsBest
PROPERTIES
    StepNeverWorsens
    ImplementsActiveChain
    ActivationEnds
