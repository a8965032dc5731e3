SPECIFICATION Spec
CONSTANTS
    r1 = r1
    r2 = r2
    a1 = a1
    a2 = a2
    a3 = a3
    b1 = b1
    b2 = b2
    NoCaller = NoCaller
    Repos <- MCRepos
    Callers <- MCCallers
    RepoOf <- MCRepoOf
INVARIANTS
    TypeOK
    OneTaskPerRepo
PROPERTIES
    CallersSettleInOrder
    WaiterIsAnswered
    ImplementsSerialTasks
