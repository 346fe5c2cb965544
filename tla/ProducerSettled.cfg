SPECIFICATION FairSpec
CONSTANTS
    Nodes = {1, 2, 3, 4}
    Links <- Square
    Settled = TRUE
    MaxHeight = 6
INVARIANT NoFork
INVARIANT RoundRobin
PROPERTY ProductionContinues
\* the bound on the height stops the network
CHECK_DEADLOCK FALSE
