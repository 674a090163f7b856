SPECIFICATION StartSpec
CONSTANTS
    p1 = p1
    p2 = p2
    Player = {p1, p2}
    NoPlayer = NoPlayer
    Card <- MCCard
    Face <- MCFace
    Shuffles <- MCShuffles
    StartingHandCount = 2
    Configs <- MCConfigs
INVARIANTS
    CardsAccounted
    TableAsDescribed
PROPERTIES
    GameComesToAnEnd
CHECK_DEADLOCK FALSE
