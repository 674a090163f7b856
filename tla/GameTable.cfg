SPECIFICATION Spec
CONSTANTS
    Player = {p1, p2, p3}
    NoPlayer = NoPlayer
    Card <- MCCard
    Face <- MCFace
    Shuffles <- MCShuffles
    StartingHandCount = 2
INVARIANTS
    CardsConserved
    RequiredMatchesPile
    ChallengeJudgesLastTurn
    TurnWellFormed
PROPERTIES
    WinIsLastDrop
    TurnHandOver
    CardsFlowOneWay
CHECK_DEADLOCK FALSE
SYMMETRY Symmetry
