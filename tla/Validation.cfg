SPECIFICATION FairSpec
CONSTANTS
    Data <- ThreeItems
    Modes = {"one", "passage", "reading", "reading_passage", "audit", "listening"}
    Replies <- FourReplies
    Unparsable = Unparsable
    Garbage = Unparsable
    Every = 2
    Retries = 2
    MaxRuns = 3
INVARIANTS PaidOnce ResultsSound
PROPERTIES SavedKept RunEnds
CHECK_DEADLOCK FALSE
