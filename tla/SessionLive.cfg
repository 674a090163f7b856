SPECIFICATION FairSpec
CONSTANTS
    Player = {p1, p2}
    NoPlayer = NoPlayer
    Card <- SmallCard
    Face <- SmallFace
    Shuffles <- SmallShuffles
    StartingHandCount = 1
    Faults = {"loss", "cut", "haste"}
    MaxFaults = 1
PROPERTIES
    OneTurnAtATime
    ReadyLeadsToTurn
    DecisionsReachEveryone
CHECK_DEADLOCK FALSE
