SPECIFICATION Spec
CONSTANTS
    t1 = t1
    t2 = t2
    alice = alice
    other = other
    Threads <- TwoThreads
    Keys <- OneKey
    Elsewhere = other
    Window = 4
    Second = 2
    MaxHits = 2
    PruneEvery = 5
    MaxClock = 6
    MaxRequests = 9
SYMMETRY LimiterSymmetry
CHECK_DEADLOCK FALSE
INVARIANTS SlidingBound RefusedOnlyWhenFull RetryHonest
