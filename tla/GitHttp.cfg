SPECIFICATION GitSpec
CONSTANTS
    r1 = r1
    r2 = r2
    t1 = t1
    t2 = t2
    Requests <- MCRequests
    Tokens <- MCTokens
    MaxTokens = 1
    Capacity = 1
    MaxDisk = 1
    Private = TRUE
    MaxChunks = 1
    MaxRefills = 1
    MaxServed = 3
INVARIANTS
    GitTypeOK
    GuessesAreBounded
PROPERTIES
    ChildrenAreReaped
CHECK_DEADLOCK FALSE
