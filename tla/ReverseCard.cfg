SPECIFICATION Spec
CONSTANTS
    Player = {p1, p2, p3}
    NoPlayer = NoPlayer
    Card <- MCCard
    Face <- MCFace
    Shuffles <- MCShuffles
    StartingHandCount = 2
PROPERTIES
    ReverseSkipsNeighbor
CHECK_DEADLOCK FALSE
