SPECIFICATION Spec
CONSTANTS
    h1 = h1
    h2 = h2
    p1 = p1
    p2 = p2
    t1 = t1
    Reconciler = Reconciler
    NoChain = NoChain
    Absent = Absent
    None = None
    Hooks <- MCHooks
    Targets <- MCTargets
    Paths <- MCPaths
    Escaped <- MCEscaped
    Files <- MCFiles
    MaxPush = 2
    MaxFaults = 1
    MaxCrashes = 1
    MaxEdits = 0
    WorkflowOf <- SomeWorkflows
INVARIANTS
    TypeOK
PROPERTIES
    ChainsKeepApart
SYMMETRY Symmetry
CHECK_DEADLOCK FALSE
