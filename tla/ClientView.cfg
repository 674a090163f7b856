SPECIFICATION FairSpec
CONSTANTS
    Player = {p1, p2}
    NoPlayer = NoPlayer
    Local = p1
    Card <- MCCard
    Face <- MCFace
    Shuffles <- MCShuffles
    StartingHandCount = 1
INVARIANTS
    WidgetsFollowTable
    NothingLeftToDraw
    NeverLocksTwice
PROPERTIES
    ScreenCatchesUp
CHECK_DEADLOCK FALSE
