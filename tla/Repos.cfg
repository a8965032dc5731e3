SPECIFICATION Spec
CONSTANTS
    r1 = r1
    r2 = r2
    m1 = m1
    m2 = m2
    Requests <- MCRequests
    Members <- MCMembers
    Roles = {"reader", "admin"}
    Admin = "admin"
    MaxRepos = 2
    MaxEdits = 3
    MaxMishaps = 1
INVARIANTS
    TypeOK
    AckedIsDone
    RowHasDir
SYMMETRY Symmetry
CHECK_DEADLOCK FALSE
