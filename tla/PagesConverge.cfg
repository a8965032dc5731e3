SPECIFICATION FairSpec
CONSTANTS
    h1 = h1
    h2 = h2
    p1 = p1
    p2 = p2
    t1 = t1
    Reconciler = Reconciler
    NoChain = NoChain
    Absent = Absent
    None = None
    Hooks <- MCOneHook
    Targets <- MCTargets
    Paths <- MCPaths
    Escaped <- MCEscaped
    Files <- MCFiles
    MaxPush = 2
    MaxFaults = 1
    MaxCrashes = 1
    MaxEdits = 1
    WorkflowOf <- OtherWorkflows
INVARIANTS
    RunningRunsAreOwned
PROPERTIES
    DriftIsRepaired
CHECK_DEADLOCK FALSE
