SPECIFICATION FairSpec
CONSTANTS
    ada = ada
    bea = bea
    cyd = cyd
    one = one
    two = two
    none = none
    w1 = w1
    w2 = w2
    Emails = {ada, bea, cyd}
    Seed <- TwoAdmins
    Passwords = {one, two}
    NoPassword = none
    Workers <- TwoWorkers
    NoWorker = none
    MaxCalls = 3
INVARIANT PasswordsOpen
PROPERTIES OnlyAsAsked EveryCallEnds
CHECK_DEADLOCK FALSE
