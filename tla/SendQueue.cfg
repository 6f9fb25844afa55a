\* A closed connection with nothing in progress is finished.
CHECK_DEADLOCK FALSE
SPECIFICATION FairSpec
CONSTANTS
    m1 = m1
    m2 = m2
    Messages <- MCMessages
    Batches <- MCBatches
    MaxQueued = 4
    MaxCloses = 1
INVARIANTS
    SendQueueInv
    NothingLost
PROPERTIES
    ImplementsChannel
    MessagesArrive
    FailureDisconnects
