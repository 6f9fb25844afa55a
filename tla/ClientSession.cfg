SPECIFICATION Spec
CONSTANTS
    c1 = c1
    c2 = c2
    n1 = n1
    n2 = n2
    v1 = v1
    v2 = v2
    NoClient = NoClient
    Global = Global
    Clients <- MCClients
    Names <- MCNames
    Accounts <- MCAccounts
    Vms <- MCVms
    GuestsDisallowed <- MCGuestsDisallowed
    MaxMessages = 3
    MaxDisconnects = 1
SYMMETRY Alike
CHECK_DEADLOCK FALSE
INVARIANTS
    SessionInv
    ViewersAreCounted
    NamesAreReserved
