SPECIFICATION Spec
CONSTANTS
    u1 = u1
    u2 = u2
    u3 = u3
    alice = alice
    bob = bob
    hello = hello
    Users <- MCUsers
    Names <- MCNames
    Texts <- MCTexts
    MaxHistory = 2
    MaxLog = 5
    MaxRepeats = 2
SYMMETRY MCSymmetry
INVARIANTS
    ChannelInv
    MembersFollowTheChat
    MembersSeeTheMembers
