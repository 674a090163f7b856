SPECIFICATION FairAcksSpec
CONSTANTS
    Ack = {joined, synced}
    NoAck = NoAck
    MaxEntries = 3
    MaxPosts = 3
INVARIANTS
    NoMissedMatch
    EveryEntryHasWaiter
    AcksAccounted
PROPERTIES
    WaiterIsFinal
    AckIsLookedUpInTime
CHECK_DEADLOCK FALSE
