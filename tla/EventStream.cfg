SPECIFICATION FairSpec
CONSTANTS
    Messages <- MCMessages
    Size <- MCSize
    MaxRead = 3
CHECK_DEADLOCK FALSE
INVARIANT HandledInOrder
PROPERTY EverythingHandled
