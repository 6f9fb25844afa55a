SPECIFICATION FairSpec
CONSTANTS
    u1 = u1
    u2 = u2
    u3 = u3
    NoUser = NoUser
    Users <- MCUsers
    TurnTimes <- MCTurnTimes
    MaxCompleted = 2
    MaxLate = 1
INVARIANTS
    TurnQueueInv
    ClientsSeeTheQueue
PROPERTIES
    CurrentTimeOnlyDecreases
    ImplementsTurnQueue
    TurnsEnd
