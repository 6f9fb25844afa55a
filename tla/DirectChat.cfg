SPECIFICATION Spec
CONSTANTS
    c1 = c1
    c2 = c2
    c3 = c3
    Clients <- MCClients
    MaxRooms = 2
    MaxRequests = 2
SYMMETRY Alike
CHECK_DEADLOCK FALSE
INVARIANTS
    ChatInv
    EndsBelongTogether
    LostOnlyIfCrossed
