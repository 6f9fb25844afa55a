SPECIFICATION FairSpec
CONSTANTS
    v1 = v1
    v2 = v2
    Vms <- MCVms
    Blank = Blank
    Threads = 2
    MaxUpdates = 1
    MaxChanges = 4
CHECK_DEADLOCK FALSE
INVARIANTS
    RequestsInv
    ListsMatchUnlessOvertaken
PROPERTY
    ListSettles
