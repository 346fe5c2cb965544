CONSTANTS
    g = g  a1 = a1  a2 = a2  b1 = b1  b2 = b2  b3 = b3  c2 = c2
    d0 = d0  d1 = d1  d2 = d2
    Genesis = g
    Null = Null
    pprev <- MCpprev
    nHeight <- MCnHeight
    nChainWork <- MCnChainWork
    Data = {d0, d1, d2}
    qvtx <- MCqvtx
    Blocks = {g, a1, a2, b1, b2}
    Submitted = {d1}
    FutureStamped = {b2}
    Named = {a1, a2, b1}
    Threads = {t1, t2}
    MIN_BLOCKS_TO_KEEP = 2
SPECIFICATION Spec
SYMMETRY Symmetry
INVARIANTS
    ActiveChainIsPath
    ActiveChainUsable
    LinkedExactly
PROPERTIES
    StepNeverWorsens
