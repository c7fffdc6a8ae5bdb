SPECIFICATION MatcherSpec
CONSTANTS
    Values <- MCValues
    Registrable <- MCNames
    Lower <- MCLower
    StopWords <- MCStopWords
    MaxNames = 3
INVARIANT DistanceIsRight
PROPERTY MeaningIsStable
CHECK_DEADLOCK FALSE
