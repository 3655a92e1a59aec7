SPECIFICATION FairSpec
CONSTANTS
    Blocks = 3
    ShutDowns = 3
    MaxSessions = 2
    MinSize <- MCMinSize
    Scenarios <- MCScenarios
INVARIANTS TypeOK NeverGrows NullAfterFailure LineAgrees
PROPERTIES HeaderFirst LineGoesDown
CHECK_DEADLOCK FALSE
