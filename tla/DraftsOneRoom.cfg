SPECIFICATION DraftsSpec
CONSTANTS
    Peers = {1, 2}
    Words = {"epic"}
    Grouping = {"epic"}
    Conns = {1, 2, 3}
    MaxTurns = 0
    MaxBreaks = 1
INVARIANT
    OneRoom
CHECK_DEADLOCK FALSE
