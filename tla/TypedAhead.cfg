SPECIFICATION FairTurnSpec
CONSTANTS
    MaxTurns = 2
    LogCapacity = 2
    Rush = {"decision"}
PROPERTIES
    CommandIsTaken
CHECK_DEADLOCK FALSE
