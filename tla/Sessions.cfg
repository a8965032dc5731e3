SPECIFICATION FairSpec
CONSTANTS
    s1 = s1
    s2 = s2
    c1 = c1
    c2 = c2
    c3 = c3
    None = None
    Sessions <- MCSessions
    Callers <- MCCallers
    MaxLapses = 2
    MaxFaults = 1
    MaxCrashes = 1
INVARIANTS
    TypeOK
    SpentOnce
    AsksOnlyWhenLost
PROPERTIES
    WaitersAreAnswered
CHECK_DEADLOCK FALSE
