SPECIFICATION AccountsSpec
CONSTANTS
    n1 = n1  p1 = p1  p2 = p2  i1 = i1  s1 = s1  s2 = s2
    None = None
    Names <- OneName
    Passwords <- TwoPasswords
    Invites <- OneInvite
    SessionIds <- TwoSessions
    MaxUsers = 3
    MaxTasks = 2
    MaxCrashes = 1
SYMMETRY Interchangeable
INVARIANTS
    AccountInv
    AcceptedInviteMakesAccount
    PasswordSticksUnlessOverlapped
