SPECIFICATION ClientTurnsSpec
CONSTANTS
    c1 = c1
    c2 = c2
    v1 = v1
    v2 = v2
    NoClient = NoClient
    NoVm = NoVm
    Clients <- MCClients
    Vms <- MCVms
    MaxMessages = 5
SYMMETRY Alike
CHECK_DEADLOCK FALSE
INVARIANTS
    ClientTurnsInv
    QueuedAreMembersUnlessRejoined
