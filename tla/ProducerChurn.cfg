SPECIFICATION Spec
CONSTANTS
    Nodes = {1, 2, 3}
    Links <- DoubleDial
    Settled = FALSE
    MaxHeight = 1
INVARIANT TypeOK
INVARIANT UniqueTurn
INVARIANT HandedOverInTurn
INVARIANT OwnBlockKept
\* the bound on the height stops the network
CHECK_DEADLOCK FALSE
