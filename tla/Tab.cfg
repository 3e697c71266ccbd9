SPECIFICATION TabFairSpec
CONSTANTS
    MaxStreams = 2
    OldSessions = 2
    MaxSessions = 3
    MaxTurns = 1
    Rows = {1, 3}
    MaxRequests = 2
    Panels = {"q1", "weak"}
    MaxVisits = 1
    MaxClicks = 3
INVARIANTS SentWhereShown OneAnswerAtATime NotOnDeleted PanelsFollowStreams
PROPERTIES NothingRunsOn TabComesToRest
CHECK_DEADLOCK FALSE
