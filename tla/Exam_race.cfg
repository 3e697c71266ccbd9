SPECIFICATION FairSpec
CONSTANTS
    t1 = t1
    t2 = t2
    u1 = u1
    u2 = u2
    null = null
    Threads <- TwoThreads
    Users <- TwoUsers
    MaxExam = 1
    MaxGroup = 1
    SeedBank <- NoGroup
    Contents <- Shrunk
    Picks <- PickFirst
    Answers <- Labels
    NoAnswer = null
    Sheets <- TwoSheets
    NoUser = null
INVARIANTS GradedAsSubmitted ScoreMatchesItems ReferencesHold
PROPERTIES ExamsKept EveryRequestEnds
