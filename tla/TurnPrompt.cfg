SPECIFICATION FairTurnSpec
CONSTANTS
    MaxTurns = 3
    LogCapacity = 2
    Rush = {}
INVARIANTS
    TurnIsServed
PROPERTIES
    WinnerIsFinal
    CommandIsTaken
    NothingIsLeftWaiting
CHECK_DEADLOCK FALSE
