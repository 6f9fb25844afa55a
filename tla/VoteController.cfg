SPECIFICATION FairSpec
CONSTANTS
    u1 = u1
    u2 = u2
    u3 = u3
    Users <- MCUsers
    VoteLimit = 2
    CountModulus = 16
INVARIANTS
    VoteInv
    TallyIsRightUnlessCancelled
PROPERTIES
    VotesEnd
