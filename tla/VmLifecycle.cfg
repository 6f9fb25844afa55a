SPECIFICATION FairSpec
CONSTANTS
    nullptr = nullptr
    c1 = c1
    c2 = c2
    Clients <- MCClients
    MaxTasks = 3
CHECK_DEADLOCK FALSE
INVARIANTS
    VmInv
PROPERTIES
    StopTakesEffect
    Reconnects
