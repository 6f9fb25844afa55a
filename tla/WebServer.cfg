SPECIFICATION FairSpec
CONSTANTS
    s1 = s1
    s2 = s2
    Sockets <- MCSockets
    MaxConnections = 1
    MaxChanges = 1
    MaxKicks = 1
CHECK_DEADLOCK FALSE
INVARIANTS
    WebInv
    ConnectionsAreLimited
PROPERTIES
    StopCompletes
