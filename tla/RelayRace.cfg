CONSTANTS
    g = g  a1 = a1  a2 = a2  a3 = a3  b1 = b1  b2 = b2
    d0 = d0
    Genesis = g
    Null = Null
    pprev <- MCpprev
    nHeight <- MCnHeight
    nChainWork <- MCnChainWork
    Data = {d0}
    qvtx <- MCqvtx
    Blocks = {g, a1, a2}
    Submitted = {}
    FutureStamped = {}
    Named = {}
    Threads = {h, m}
    MIN_BLOCKS_TO_KEEP = 2
    Peers = {p}
    MessageHandler = h
    MAX_BLOCKS_TO_ANNOUNCE = 2
    MAX_HEADERS_RESULTS = 2
SPECIFICATION RelaySpec
INVARIANTS
    AnnouncementsFollow
