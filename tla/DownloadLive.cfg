CONSTANTS
    g = g  a1 = a1  a2 = a2  a3 = a3
    wild = wild  good = good
    Genesis = g
    Null = Null
    pprev <- MCpprev
    nHeight <- MCnHeight
    nChainWork <- MCnChainWork
    Blocks = {g, a1, a2}
    Peers = {wild, good}
    Outbound = {good}
    Honest = {good}
    Mute = {}
    chainOf <- MCchainOf
    announces <- MCannounces
    Refused = {}
    MaxConnections = 1
    MAX_BLOCKS_IN_TRANSIT_PER_PEER = 1
    BLOCK_DOWNLOAD_WINDOW = 1
    MIN_BLOCKS_TO_KEEP = 2
CHECK_DEADLOCK FALSE
SPECIFICATION FairSpec
PROPERTIES
    InFlightEnds
    CatchesUp
