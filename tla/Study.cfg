SPECIFICATION Spec
CONSTANTS
    None = None
    NonStrings = {"5"}
    Bases <- MCBases
    Values <- MCValues
    GridValues <- MCGridValues
    NewKeys <- MCNewKeys
    MaxEdits = 2
    Metrics <- MCMetrics
    Shock <- MCShock
INVARIANTS
    TypeOK
    LoadedMeansRunnable
    ErrorNamesField
    MaskWithinOneStep
    WalkFollowsMatrix
    IntervalIsOfPairs
CHECK_DEADLOCK FALSE
