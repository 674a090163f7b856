SPECIFICATION Spec
CONSTANTS
    Player = {p1, p2, p3}
    NoPlayer = NoPlayer
    Card <- MCCard
    Face <- MCFace
    Shuffles <- MCShuffles
    StartingHandCount = 1
    Faults = {"loss", "cut"}
    MaxFaults = 1
INVARIANTS
    TypeOK
    ReplicasAgree
    SyncedBeforeTurn
    OneDecider
    NoEventDiscarded
    NewTurnFromDone
    MutexReleased
PROPERTY
    OneTurnAtATime
CHECK_DEADLOCK FALSE
SYMMETRY Symmetry
