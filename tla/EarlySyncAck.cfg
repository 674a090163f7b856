SPECIFICATION FairSpec
CONSTANTS
    Player = {p1, p2}
    NoPlayer = NoPlayer
    Card <- SmallCard
    Face <- SmallFace
    Shuffles <- SmallShuffles
    StartingHandCount = 1
    Faults = {}
    MaxFaults = 0
PROPERTIES
    SyncEnds
CHECK_DEADLOCK FALSE
