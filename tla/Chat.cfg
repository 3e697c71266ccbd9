SPECIFICATION FairSpec
CONSTANTS
    alice = alice
    bob = bob
    nobody = nobody
    p1 = p1
    p2 = p2
    t1 = t1
    Users <- TwoUsers
    NoUser = nobody
    Turns <- TwoTurns
    Threads <- OneThread
    Titles <- GivenTitle
    FirstTitles <- MadeTitle
    HistoryLimit = 1
    MaxSession = 2
SYMMETRY UserSymmetry
CHECK_DEADLOCK FALSE
INVARIANTS SessionsPrivate TurnsWhole
PROPERTIES SessionHistory LoopComesFree
