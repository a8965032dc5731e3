SPECIFICATION Spec
CONSTANTS
    r1 = r1
    r2 = r2
    q1 = q1
    c1 = c1
    s1 = s1
    coder = coder
    Runs <- MCRuns
    Requests <- MCRequests
    Pushes <- MCPushes
    Seed <- MCSeed
    Branches <- MCOneBranch
    BranchOf <- MCBranchOf
    Allotment = 1
    MaxFaults = 1
    MaxCrashes = 1
INVARIANTS
    TypeOK
    PullsAgreeWithGit
    WorkIsThere
PROPERTIES
    HistoryStays
SYMMETRY Symmetry
CHECK_DEADLOCK FALSE
