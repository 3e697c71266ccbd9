SPECIFICATION TabSpec
CONSTANTS
    MaxStreams = 2
    OldSessions = 2
    MaxSessions = 3
    MaxTurns = 1
    Rows = {1, 3}
    MaxRequests = 2
    Panels = {"q1", "weak"}
    MaxVisits = 1
    MaxClicks = 4
INVARIANT InputNeverLocked
CHECK_DEADLOCK FALSE
