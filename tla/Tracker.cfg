SPECIFICATION TrackerSpec
CONSTANTS
    r1 = r1
    r2 = r2
    p1 = p1
    a = a
    Words = {a}
    None = None
    Requests <- MCRequests
    Proposals = {p1}
    Titles <- MCTitles
    Old <- MCOld
    MaxCommits = 3
    MaxMirrors = 2
    MaxFlat = 1
    MaxMishaps = 1
    OpenStates = {"todo", "doing"}
    ClosedStates = {"done"}
    InitialState = "todo"
    Types = {"bug", "done", "doc"}
    ClassName <- MCClassName
    StateLabel <- MCStateLabel
    TypeLabel <- MCTypeLabel
    OwnNs = "own"
    Fallback = "fallback"
    HashNamespaces = {"own", "fallback"}
    Nothing = Nothing
    GeneralDir = GeneralDir
    Actors = {"ann"}
    EpicNames = {"e1", "e2"}
    Numbers <- MCNumbers
    Names <- MCNames
    MaxFiles = 4
INVARIANTS
    TrackerTypeOK
    TrackerKeepsItsIssues
    BoardIsTheFiles
PROPERTIES
    NoProposalIsLost
SYMMETRY Symmetry
CHECK_DEADLOCK FALSE
